------------------------------ MODULE Programs ------------------------------
(***************************************************************************)
(* The whole system at work: the user programs (UserPrograms) run by the   *)
(* system calls of syscall.rs and proc.rs, and the kernel shell (shell.rs) *)
(* that init becomes and that starts them.                                 *)
(*                                                                         *)
(* A trap from U-mode runs with interrupts off, so a call is one step,     *)
(* except SYS_READ, which blocks for input.  SYS_WAIT and SYS_SLEEP_MS     *)
(* block before they change anything.  Exit and reaping are one step: join *)
(* treats a zombie as finished.  Memory suffices; Vm has what happens when *)
(* it does not.  A pid that nobody knows any more stands for a new one.    *)
(***************************************************************************)
EXTENDS UserPrograms, UserCopy, Ramfs, FiniteSets

CONSTANTS
  MaxPid,        \* bound: processes at a time
  Boot,          \* the programs that kmain starts
  Cmd,           \* the commands typed at the kernel shell
  Line,          \* what is typed at SYS_READ: "newline", "q" or a name
  Chunk,         \* bytes per read of catfile and of the shell's cat
  WRITE_MAX, PATH_MAX

Pid == 1..MaxPid
Joined == [echoline |-> "echoline", uname |-> "uname", heapgrow |-> "heapgrow",
           fork |-> "forker", ush |-> "ush"]
Started == [greet |-> "greeter", fault |-> "trespasser"]

\* kmain starts no program that reads from the console.  The buffer of catfile
\* is on its stack page.
ASSUME ProgramsAssumption ==
  /\ MaxPid \in Nat /\ MaxPid < USIZE - 1
  /\ Boot \in Seq(Program \ {"echoline", "ush"}) /\ Len(Boot) <= MaxPid
  /\ Chunk \in 1..PAGE_SIZE /\ WRITE_MAX \in Nat \ {0} /\ PATH_MAX \in Nat \ {0}
  /\ "motd" \in Name /\ MAX_FDS > 0
  /\ VA_MAX >= 5 * PAGE_SIZE

VARIABLES proc, shell
vars == <<proc, shell>>

ERR == USIZE - 1
Dead == [st |-> "none", prog |-> "ush", pc |-> 0, a0 |-> 0, s0 |-> 0, stack |-> <<>>,
         out |-> <<>>, fds |-> NoFds, heap |-> {}, brk |-> 0, parent |-> 0]

\* load_user_image and attach_user_space; the break is in pages.
Image(prog) == [Dead EXCEPT !.st = "run", !.prog = prog, !.pc = 1, !.brk = 3]

Text == PAGE_SIZE
Stack == 2 * PAGE_SIZE
Table(r) == [page \in UserPage |->
  CASE page = 0 -> "kernel" [] page = 1 -> "rx" [] page = 2 \/ page \in r.heap -> "rw"
    [] OTHER -> "none"]

Init ==
  /\ proc = [p \in Pid |-> IF p <= Len(Boot) THEN Image(Boot[p]) ELSE Dead]
  /\ shell = [at |-> "boot", pid |-> 0, file |-> "closed", out |-> <<>>]

------------------------------------------------------------------------------
(* System calls and faults.                                                 *)

Instr(r) == Code[r.prog][r.pc]

\* A process that is about to make a call or take a trap.
At(p, call) == shell.at # "off" /\ proc[p].st = "run" /\ Instr(proc[p]).call = call

Class(r, a0) ==
  LET typed == IF Instr(r).call = "read" THEN r.stack ELSE <<>> IN
  CASE a0 = ERR -> "err"
    [] a0 = 0 -> "zero"
    [] OTHER -> CASE typed = <<"newline">> -> "blank"
                  [] typed = <<"q">> -> "q"
                  [] OTHER -> "pos"

\* dispatch stores the result in a0, and the program runs on to its next call.
Returned(r, a0) ==
  LET go == Instr(r).go IN
  [r EXCEPT !.a0 = a0, !.st = "run",
            !.pc = IF Class(r, a0) \in DOMAIN go THEN go[Class(r, a0)] ELSE @ + 1]
Set(p, r) == proc' = [proc EXCEPT ![p] = r] /\ UNCHANGED shell

sys_write(p) ==
  LET r == proc[p]
      arg == Instr(r).arg
      ptr == CASE arg = "stack" -> Stack [] arg = "past" -> VA_MAX
               [] arg = "wraps" -> USIZE - 1 [] OTHER -> Text
      len == IF arg = "stack" THEN Len(r.stack) ELSE 2
  IN /\ At(p, "write")
     /\ Set(p, IF len <= WRITE_MAX /\ copy_from_user(Table(r), ptr, len)
               THEN Returned([r EXCEPT !.out = IF arg = "stack" THEN @ \o r.stack ELSE @], len)
               ELSE Returned(r, ERR))

\* SYS_GETPID, whose result greeter formats, SYS_SLEEP_MS and a breakpoint.
sys_getpid(p) == At(p, "getpid") /\ Set(p, Returned([proc[p] EXCEPT !.stack = <<"pid">>], p))
sys_sleep_ms(p) == At(p, "sleep_ms") /\ Set(p, Returned(proc[p], 0))
breakpoint(p) == At(p, "ebreak") /\ Set(p, Returned(proc[p], proc[p].a0))

\* SYS_READ blocks, until it returns what has been typed.
sys_read(p) == At(p, "read") /\ Set(p, [proc[p] EXCEPT !.st = "read"])
sys_read_return(p, line) ==
  LET r == [proc[p] EXCEPT !.stack = <<line>>] IN
  /\ shell.at # "off" /\ proc[p].st = "read"
  /\ Set(p, IF copy_to_user(Table(r), Stack, 1) THEN Returned(r, 1) ELSE Returned(proc[p], ERR))

sys_uname(p) ==
  LET r == [proc[p] EXCEPT !.stack = <<"osmium">>] IN
  /\ At(p, "uname")
  /\ Set(p, IF copy_to_user(Table(r), Stack, 1) THEN Returned(r, 1) ELSE Returned(proc[p], ERR))

\* s0 keeps the descriptor.
sys_open(p) ==
  LET r == proc[p] IN
  /\ At(p, "open")
  /\ Set(p, IF /\ copy_from_user(Table(r), Text, 1)
               /\ Instr(r).arg \in Name /\ Open(r.fds) # Fd
            THEN Returned([r EXCEPT !.fds = fd_install(@, Instr(r).arg),
                                    !.s0 = first_free(r.fds)], first_free(r.fds))
            ELSE Returned(r, ERR))

sys_fread(p) ==
  LET r == proc[p] IN
  /\ At(p, "fread")
  /\ IF r.s0 \notin Open(r.fds) THEN Set(p, Returned(r, ERR))
     ELSE LET buf == read_at(r.fds[r.s0].file, r.fds[r.s0].offset, Less(Chunk, WRITE_MAX)) IN
          Set(p, IF copy_to_user(Table(r), Stack, Len(buf))
                 THEN Returned([r EXCEPT !.stack = buf, !.fds = fd_advance(@, r.s0, Len(buf))],
                               Len(buf))
                 ELSE Returned(r, ERR))

sys_close(p) ==
  LET r == proc[p] IN
  /\ At(p, "close")
  /\ Set(p, IF r.s0 \in Open(r.fds) THEN Returned([r EXCEPT !.fds = fd_close(@, r.s0)], 0)
            ELSE Returned(r, ERR))

\* heapgrow asks for two pages; USER_HEAP_MAX is at VA_MAX here.
sbrk(p) ==
  LET r == proc[p] IN
  /\ At(p, "sbrk")
  /\ Set(p, IF (r.brk + 2) * PAGE_SIZE <= VA_MAX
            THEN Returned([r EXCEPT !.brk = @ + 2], r.brk * PAGE_SIZE)
            ELSE Returned(r, ERR))

\* An access by the program itself.  A fault below the break maps the page and
\* the access is tried again; any other fault kills the process.
page_fault(p) ==
  LET r == proc[p]
      page == CASE Instr(r).arg = "kernel" -> 0 [] Instr(r).arg = "heap0" -> 3 [] OTHER -> 4
  IN /\ At(p, "load") \/ At(p, "store")
     /\ Set(p, CASE Table(r)[page] = "rw" -> Returned([r EXCEPT !.stack = Append(@, page)], r.a0)
                 [] page \in 3..(r.brk - 1) /\ Table(r)[page] = "none" ->
                      [r EXCEPT !.heap = @ \cup {page}]
                 [] OTHER -> Dead)

exit(p) == At(p, "exit") /\ Set(p, Dead)

Live == {p \in Pid : proc[p].st # "none"}
\* The pids that nobody waits for or descends from.
Waiting == {p \in Live : Instr(proc[p]).call = "wait"}
Free == (Pid \ Live) \
  ({proc[p].a0 : p \in Waiting} \cup {proc[p].parent : p \in Live} \cup {shell.pid})
pid == CHOOSE p \in Free : \A q \in Free : p <= q

\* Mutant: fork returns the pid in the child too.
fork_returns_pid(p) ==
  /\ At(p, "fork") /\ Free # {}
  /\ proc' = [proc EXCEPT ![p] = Returned(@, pid),
                          ![pid] = Returned([proc[p] EXCEPT !.parent = p], pid)]
  /\ UNCHANGED shell

fork(p) ==
  /\ At(p, "fork") /\ Free # {}
  /\ proc' = [proc EXCEPT ![p] = Returned(@, pid),
                          ![pid] = Returned([proc[p] EXCEPT !.parent = p], 0)]
  /\ UNCHANGED shell

\* Mutant: SYS_WAIT does not block.
sys_wait_polls(p) == At(p, "wait") /\ Set(p, Returned(proc[p], 0))

sys_wait(p) ==
  /\ At(p, "wait") /\ proc[p].a0 \notin Live
  /\ Set(p, Returned(proc[p], 0))

\* The program keeps its open files, and its pid and parent.
sys_exec(p) ==
  LET r == proc[p]
      named == IF Instr(r).arg = "stack" THEN r.stack[1] ELSE Instr(r).arg
      ptr == IF Instr(r).arg = "stack" THEN Stack ELSE Text
  IN /\ At(p, "exec")
     /\ Set(p, IF 1 <= PATH_MAX /\ copy_from_user(Table(r), ptr, 1) /\ named \in lookup
               THEN [Image(named) EXCEPT !.fds = r.fds, !.parent = r.parent]
               ELSE Returned(r, ERR))

dispatch(p) ==
  \/ sys_write(p) \/ sys_getpid(p) \/ sys_sleep_ms(p) \/ sys_read(p) \/ sys_uname(p)
  \/ sys_open(p) \/ sys_fread(p) \/ sys_close(p) \/ sbrk(p)
  \/ fork(p) \/ sys_wait(p) \/ sys_exec(p) \/ exit(p)

kerneltrap(p) == dispatch(p) \/ breakpoint(p) \/ page_fault(p)

------------------------------------------------------------------------------
(* The kernel shell.                                                        *)

\* init has slept for 60 ticks and asserts that all others are gone; the model
\* has no clock and takes the assertion as what it waits for.
init ==
  /\ shell.at = "boot" /\ Live = {}
  /\ shell' = [shell EXCEPT !.at = "line"]
  /\ UNCHANGED proc

\* spawn_user.  Bound: there are pids left for what ush may start.
spawn_user(prog) ==
  /\ Cardinality(Free) >= 3
  /\ proc' = [proc EXCEPT ![pid] = Image(prog)]

\* Mutant: echoline is not joined.
run_joined_unjoined(cmd) ==
  /\ cmd \in DOMAIN Joined
  /\ spawn_user(Joined[cmd])
  /\ shell' = IF cmd = "echoline" THEN shell ELSE [shell EXCEPT !.at = "join", !.pid = pid]

run_joined(cmd) ==
  /\ cmd \in DOMAIN Joined
  /\ spawn_user(Joined[cmd])
  /\ shell' = [shell EXCEPT !.at = "join", !.pid = pid]

\* read_line has returned a line.  The commands that print something else
\* (help, ls, ps, mem, uptime, an unknown one) change nothing.
run_command(cmd) ==
  /\ shell.at = "line"
  /\ \/ run_joined(cmd)
     \/ /\ cmd \in DOMAIN Started
        /\ spawn_user(Started[cmd])
        /\ UNCHANGED shell
     \/ /\ cmd \in Name
        /\ shell' = [shell EXCEPT !.at = "cat", !.file = cmd, !.out = <<>>]
        /\ UNCHANGED proc
     \/ /\ cmd \in {"poweroff", "reboot"}
        /\ shell' \in {[shell EXCEPT !.at = at] : at \in {"off", "parked"}}
        /\ UNCHANGED proc

join ==
  /\ shell.at = "join" /\ shell.pid \notin Live
  /\ shell' = [shell EXCEPT !.at = "line", !.pid = 0]
  /\ UNCHANGED proc

\* One round of the loop of cat; the offset is what has been printed.
cat ==
  LET buf == read_at(shell.file, Len(shell.out), Chunk) IN
  /\ shell.at = "cat"
  /\ shell' = IF buf = <<>> THEN [shell EXCEPT !.at = "line", !.file = "closed", !.out = <<>>]
              ELSE [shell EXCEPT !.out = @ \o buf]
  /\ UNCHANGED proc

shell_main == init \/ join \/ cat

Next ==
  \/ \E p \in Pid : kerneltrap(p) \/ \E line \in Line : sys_read_return(p, line)
  \/ shell_main
  \/ \E cmd \in Cmd : run_command(cmd)

Spec == Init /\ [][Next]_vars

\* Every process and the shell get to run (RunnableRuns of Sched), a nap ends
\* and a join returns (CallsEnd).  Nobody has to type.
Fairness == WF_vars(shell_main) /\ \A p \in Pid : WF_vars(kerneltrap(p))
FairSpec == Spec /\ Fairness

------------------------------------------------------------------------------
(* Correctness.                                                             *)

\* The console has one reader at a time, shell or program: "otherwise both
\* would race for the same keystrokes" (shell.rs), through ush and its
\* children too.
OneReader ==
  Cardinality({p \in Pid : proc[p].st = "read"}) + (IF shell.at = "line" THEN 1 ELSE 0) <= 1

Says(p, text) == p \in Live /\ Instr(proc[p]) = Write(text)

\* The demo programs show what they are there to show.  No branch for a failed
\* test is ever reached, a trespasser does not survive its load, catfile and
\* the shell's cat print the file as it is, heapgrow reads both pages back,
\* and the parent in forker and forkexec speaks when its child, and what it
\* has become by exec, has finished.
SelfTestsPass ==
  /\ \A p \in Live :
       /\ ~Says(p, "FAILED")
       /\ ~(proc[p].prog = "trespasser" /\ proc[p].pc > 2)
       /\ At(p, "close") => proc[p].out = data["motd"]
       /\ Says(p, "demand-paged") => proc[p].stack = <<3, 4>>
       /\ Says(p, "parent") => \A q \in Live : proc[q].parent # p
  /\ shell.out # <<>> => shell.out = SubSeq(data[shell.file], 1, Len(shell.out))

\* What does not read from the console ends, whatever is typed and whatever
\* else runs, and a shell that has joined it gets the console back, unless
\* the machine is switched off.
Reads(p) == proc[p].prog \in {"ush", "echoline"}
ProgramsEnd ==
  /\ \A p \in Pid : (p \in Live /\ ~Reads(p)) ~> (p \notin Live \/ shell.at = "off")
  /\ \A p \in Pid : (shell.at = "join" /\ shell.pid = p /\ p \in Live /\ ~Reads(p))
                      ~> (shell.at # "join")
==============================================================================
