--------------------------- MODULE ProgramsProofs ---------------------------
(* The console has one reader, and the demo programs show what they are there
   to show, for every number of processes and every size of a file. *)
EXTENDS Programs, FiniteSetTheorems, TLAPS

(* What a program's buffer may hold, and a slot of the table. *)
Val == Nat \cup Line \cup {"pid", "osmium"}
Entry == [file : Name \cup {"closed"}, offset : Nat]
Proc == [st : {"none", "run", "read"}, prog : Program, pc : Nat, a0 : Nat, s0 : Nat,
         stack : Seq(Val), out : Seq(Val), fds : [Fd -> Entry], heap : SUBSET {3, 4},
         brk : Nat, parent : Nat]

(* A process that may come to read from the console: not the child of ush. *)
Reader(r) == r.prog = "echoline" \/ (r.prog = "ush" /\ r.pc \notin 4..6)

(* The beginning of a file. *)
IsPrefix_(s, file) ==
  /\ s \in Seq(Nat) /\ Len(s) <= Len(data[file])
  /\ s = SubSeq(data[file], 1, Len(s))

(* catfile: it has printed the file up to the offset, or is about to. *)
CatfileOK(r) ==
  /\ r.pc <= 5
  /\ r.pc = 1 => r.fds = NoFds /\ r.out = <<>>
  /\ r.pc \in {2, 3} => r.s0 \in Fd /\ r.fds[r.s0].file = "motd"
  /\ r.pc = 2 => r.fds[r.s0].offset = Len(r.out) /\ IsPrefix_(r.out, "motd")
  /\ r.pc = 3 => /\ r.fds[r.s0].offset = Len(r.out \o r.stack)
                 /\ IsPrefix_(r.out \o r.stack, "motd")
                 /\ Len(r.stack) \in 1..Less(Chunk, WRITE_MAX)
  /\ r.pc = 4 => r.out = data["motd"]

(* heapgrow: its buffer names the pages it has read back. *)
HeapgrowOK(r) ==
  /\ r.pc <= 6
  /\ r.pc = 1 => r.brk = 3 /\ r.stack = <<>>
  /\ r.pc = 2 => r.brk = 5 /\ r.stack = <<>>
  /\ r.pc = 3 => r.brk = 5 /\ r.stack = <<3>>
  /\ r.pc = 4 => r.stack = <<3, 4>>

(* The entries for a failed test are out of reach. *)
ProgOK(r) ==
  /\ r.pc \in 1..Len(Code[r.prog])
  /\ r.st = "read" => Instr(r).call = "read"
  /\ r.prog # "catfile" => r.fds = NoFds
  /\ r.prog = "trespasser" => r.pc <= 2
  /\ r.prog = "badsys" => r.pc <= 6
  /\ r.prog = "forkexec" => r.pc <= 5
  /\ r.prog = "catfile" => CatfileOK(r)
  /\ r.prog = "heapgrow" => HeapgrowOK(r)

(* A process with a child alive waits for it. *)
ParentsWait ==
  \A p, q \in Live : proc[q].parent = p => Instr(proc[p]).call = "wait" /\ proc[p].a0 = q

(* Who may read from the console is the process that the shell has joined. *)
ReaderJoined ==
  \A p \in Live : Reader(proc[p]) => shell.at = "join" /\ shell.pid = p

ShellOK ==
  /\ shell \in [at : {"boot", "line", "join", "cat", "off", "parked"}, pid : Nat,
                file : Name \cup {"closed"}, out : Seq(Nat)]
  /\ shell.at = "cat" => shell.file \in Name /\ IsPrefix_(shell.out, shell.file)
  /\ shell.at # "cat" => shell.out = <<>>

IInv ==
  /\ proc \in [Pid -> Proc] /\ \A p \in Live : ProgOK(proc[p])
  /\ ParentsWait /\ ReaderJoined /\ ShellOK

-----------------------------------------------------------------------------
(* What the tables of UserPrograms say. *)

\* The programs by name.
LEMMA Programs_ ==
  /\ Program = {"greeter", "trespasser", "badsys", "uname", "echoline", "catfile",
                "heapgrow", "forker", "forkexec", "ush"}
  /\ Code["greeter"] = greeter /\ Code["trespasser"] = trespasser
  /\ Code["badsys"] = badsys /\ Code["uname"] = uname
  /\ Code["echoline"] = echoline /\ Code["catfile"] = catfile
  /\ Code["heapgrow"] = heapgrow /\ Code["forker"] = forker
  /\ Code["forkexec"] = forkexec /\ Code["ush"] = ush
BY Zenon DEF Program, Code

\* No program is empty.
LEMMA FirstEntry ==
  ASSUME NEW prog \in Program PROVE Len(Code[prog]) >= 1
<1>1. /\ Len(greeter) >= 1 /\ Len(trespasser) >= 1 /\ Len(badsys) >= 1 /\ Len(uname) >= 1
      /\ Len(echoline) >= 1
  BY DEF greeter, trespasser, badsys, uname, echoline
<1>2. /\ Len(catfile) >= 1 /\ Len(heapgrow) >= 1 /\ Len(forker) >= 1 /\ Len(forkexec) >= 1
      /\ Len(ush) >= 1
  BY DEF catfile, heapgrow, forker, forkexec, ush
<1> QED
  BY <1>1, <1>2, Programs_, Zenon

(* The calls of a program and their places. *)
Sites(r) ==
  /\ Instr(r).call = "open" => r.prog = "catfile" /\ r.pc = 1
  /\ Instr(r).call = "fread" => r.prog = "catfile" /\ r.pc = 2
  /\ Instr(r).call = "close" => r.prog = "catfile" /\ r.pc = 4
  /\ Instr(r).call = "sbrk" => r.prog = "heapgrow" /\ r.pc = 1
  /\ Instr(r).call = "store" => r.prog = "heapgrow" /\ r.pc \in {2, 3}
  /\ Instr(r).call = "load" => r.prog = "trespasser" /\ r.pc = 2
  /\ Instr(r).call = "ebreak" => r.prog = "badsys" /\ r.pc = 1
  /\ Instr(r).call = "uname" => r.prog = "uname" /\ r.pc = 1
  /\ Instr(r).call = "getpid" => r.prog = "greeter" /\ r.pc = 7
  /\ Instr(r).call = "sleep_ms" =>
       (r.prog = "greeter" /\ r.pc <= 6) \/ (r.prog = "badsys" /\ r.pc = 4)
  /\ Instr(r).call = "read" => r.prog \in {"echoline", "ush"} /\ r.pc = 2
  /\ Instr(r).call = "fork" =>
       (r.prog \in {"forker", "forkexec"} /\ r.pc = 1) \/ (r.prog = "ush" /\ r.pc = 3)
  /\ Instr(r).call = "wait" =>
       (r.prog \in {"forker", "forkexec"} /\ r.pc = 2) \/ (r.prog = "ush" /\ r.pc = 8)
  /\ Instr(r).call = "exec" =>
       (r.prog = "forkexec" /\ r.pc = 5) \/ (r.prog = "ush" /\ r.pc = 4)
  /\ Instr(r).call = "write" =>
       \/ Instr(r).go = NoJump
       \/ r.prog = "badsys" /\ r.pc \in {2, 3}
       \/ r.prog = "catfile" /\ r.pc = 3
  /\ Instr(r).call \in {"getpid", "sleep_ms", "ebreak", "uname", "close", "store"} =>
       Instr(r).go = NoJump
  /\ Instr(r).call = "read" /\ r.prog = "echoline" => Instr(r).go = NoJump
  /\ Instr(r).call = "write" => /\ r.prog = "catfile" => r.pc \in {3, 6}
                                /\ r.prog = "heapgrow" => r.pc \in {4, 5, 7}
  /\ r.prog \in {"badsys", "heapgrow", "ush"} /\ r.pc = 6 => Instr(r).call = "exit"
  /\ r.prog = "catfile" /\ r.pc = 5 => Instr(r).call = "exit"
  /\ r.prog = "trespasser" /\ r.pc = 2 => Instr(r).call = "load"
  /\ r.prog = "forkexec" /\ r.pc = 5 => Instr(r).call = "exec"
  /\ r.prog = "ush" /\ r.pc = 8 => Instr(r).call = "wait"
  /\ Instr(r).arg = "FAILED" =>
       \/ r.prog \in {"badsys", "heapgrow"} /\ r.pc = 7
       \/ r.prog \in {"catfile", "forkexec"} /\ r.pc = 6
  /\ Instr(r).arg = "demand-paged" => r.prog = "heapgrow" /\ r.pc = 4
  /\ Instr(r).call # "exit" => r.pc < Len(Code[r.prog]) \/ (r.prog = "ush" /\ r.pc = 8)

\* Every call of every program is where Sites says.
LEMMA CallSites ==
  ASSUME NEW r, r.prog \in Program, r.pc \in 1..Len(Code[r.prog])
  PROVE  Sites(r)
<1>1. CASE r.prog = "greeter"
  <2>1. Instr(r) = greeter[r.pc] /\ Code[r.prog] = greeter /\ Len(greeter) = 9
    BY <1>1, Programs_, Zenon DEF Instr, greeter
  <2>2. /\ greeter[2].go = NoJump /\ greeter[4].go = NoJump /\ greeter[6].go = NoJump
        /\ greeter[7].go = NoJump
        /\ greeter[1].call = "write" /\ greeter[1].arg = "hello"
        /\ greeter[1].go = NoJump /\ greeter[2].call = "sleep_ms"
        /\ greeter[2].arg = "none" /\ greeter[3].call = "write"
        /\ greeter[3].arg = "hello" /\ greeter[3].go = NoJump
        /\ greeter[4].call = "sleep_ms" /\ greeter[4].arg = "none"
        /\ greeter[5].call = "write" /\ greeter[5].arg = "hello"
        /\ greeter[5].go = NoJump /\ greeter[6].call = "sleep_ms"
        /\ greeter[6].arg = "none" /\ greeter[7].call = "getpid" /\ greeter[7].arg = "none"
        /\ greeter[8].call = "write" /\ greeter[8].arg = "stack"
        /\ greeter[8].go = NoJump /\ greeter[9].call = "exit"
        /\ greeter[9].arg = "success"
    BY Zenon DEF greeter, Op, Jump, Write, Nap, Exit
  <2> QED
    BY <1>1, <2>1, <2>2 DEF Sites
<1>2. CASE r.prog = "trespasser"
  <2>1. Instr(r) = trespasser[r.pc] /\ Code[r.prog] = trespasser /\ Len(trespasser) = 3
    BY <1>2, Programs_, Zenon DEF Instr, trespasser
  <2>2. /\ trespasser[1].call = "write" /\ trespasser[1].arg = "about_to_touch"
        /\ trespasser[1].go = NoJump /\ trespasser[2].call = "load"
        /\ trespasser[2].arg = "kernel" /\ trespasser[3].call = "exit"
        /\ trespasser[3].arg = "failure"
    BY Zenon DEF trespasser, Op, Jump, Write, Exit
  <2> QED
    BY <1>2, <2>1, <2>2 DEF Sites
<1>3. CASE r.prog = "badsys"
  <2>1. Instr(r) = badsys[r.pc] /\ Code[r.prog] = badsys /\ Len(badsys) = 8
    BY <1>3, Programs_, Zenon DEF Instr, badsys
  <2>2. /\ badsys[4].go = NoJump
        /\ badsys[1].go = NoJump
        /\ badsys[1].call = "ebreak" /\ badsys[1].arg = "none" /\ badsys[2].call = "write"
        /\ badsys[2].arg = "past" /\ badsys[3].call = "write"
        /\ badsys[3].arg = "wraps" /\ badsys[4].call = "sleep_ms"
        /\ badsys[4].arg = "none" /\ badsys[5].call = "write"
        /\ badsys[5].arg = "survived" /\ badsys[5].go = NoJump
        /\ badsys[6].call = "exit" /\ badsys[6].arg = "success"
        /\ badsys[7].call = "write" /\ badsys[7].arg = "FAILED"
        /\ badsys[7].go = NoJump /\ badsys[8].call = "exit"
        /\ badsys[8].arg = "failure"
    BY Zenon DEF badsys, Op, Jump, Nap, Write, Exit
  <2> QED
    BY <1>3, <2>1, <2>2 DEF Sites
<1>4. CASE r.prog = "uname"
  <2>1. Instr(r) = uname[r.pc] /\ Code[r.prog] = uname /\ Len(uname) = 3
    BY <1>4, Programs_, Zenon DEF Instr, uname
  <2>2. /\ uname[1].go = NoJump
        /\ uname[1].call = "uname" /\ uname[1].arg = "none" /\ uname[2].call = "write"
        /\ uname[2].arg = "stack" /\ uname[2].go = NoJump /\ uname[3].call = "exit"
        /\ uname[3].arg = "success"
    BY Zenon DEF uname, Op, Jump, Write, Exit
  <2> QED
    BY <1>4, <2>1, <2>2 DEF Sites
<1>5. CASE r.prog = "echoline"
  <2>1. Instr(r) = echoline[r.pc] /\ Code[r.prog] = echoline /\ Len(echoline) = 5
    BY <1>5, Programs_, Zenon DEF Instr, echoline
  <2>2. /\ echoline[2].go = NoJump
        /\ echoline[1].call = "write" /\ echoline[1].arg = "type_a_line"
        /\ echoline[1].go = NoJump /\ echoline[2].call = "read"
        /\ echoline[2].arg = "none" /\ echoline[3].call = "write"
        /\ echoline[3].arg = "you_typed" /\ echoline[3].go = NoJump
        /\ echoline[4].call = "write" /\ echoline[4].arg = "stack"
        /\ echoline[4].go = NoJump /\ echoline[5].call = "exit"
        /\ echoline[5].arg = "success"
    BY Zenon DEF echoline, Op, Jump, Write, Exit
  <2> QED
    BY <1>5, <2>1, <2>2 DEF Sites
<1>6. CASE r.prog = "catfile"
  <2>1. Instr(r) = catfile[r.pc] /\ Code[r.prog] = catfile /\ Len(catfile) = 7
    BY <1>6, Programs_, Zenon DEF Instr, catfile
  <2>2. /\ catfile[4].go = NoJump
        /\ catfile[1].call = "open" /\ catfile[1].arg = "motd"
        /\ catfile[2].call = "fread" /\ catfile[2].arg = "none"
        /\ catfile[3].call = "write" /\ catfile[3].arg = "stack"
        /\ catfile[4].call = "close" /\ catfile[4].arg = "none"
        /\ catfile[5].call = "exit" /\ catfile[5].arg = "success"
        /\ catfile[6].call = "write" /\ catfile[6].arg = "FAILED"
        /\ catfile[6].go = NoJump /\ catfile[7].call = "exit"
        /\ catfile[7].arg = "failure"
    BY Zenon DEF catfile, Op, Jump, Exit, Write
  <2> QED
    BY <1>6, <2>1, <2>2 DEF Sites
<1>7. CASE r.prog = "heapgrow"
  <2>1. Instr(r) = heapgrow[r.pc] /\ Code[r.prog] = heapgrow /\ Len(heapgrow) = 8
    BY <1>7, Programs_, Zenon DEF Instr, heapgrow
  <2>2. /\ heapgrow[2].go = NoJump /\ heapgrow[3].go = NoJump
        /\ heapgrow[1].call = "sbrk" /\ heapgrow[1].arg = "none"
        /\ heapgrow[2].call = "store" /\ heapgrow[2].arg = "heap0"
        /\ heapgrow[3].call = "store" /\ heapgrow[3].arg = "heap1"
        /\ heapgrow[4].call = "write" /\ heapgrow[4].arg = "demand-paged"
        /\ heapgrow[4].go = NoJump /\ heapgrow[5].call = "write"
        /\ heapgrow[5].arg = "stack" /\ heapgrow[5].go = NoJump
        /\ heapgrow[6].call = "exit" /\ heapgrow[6].arg = "success"
        /\ heapgrow[7].call = "write" /\ heapgrow[7].arg = "FAILED"
        /\ heapgrow[7].go = NoJump /\ heapgrow[8].call = "exit"
        /\ heapgrow[8].arg = "failure"
    BY Zenon DEF heapgrow, Op, Jump, Write, Exit
  <2> QED
    BY <1>7, <2>1, <2>2 DEF Sites
<1>8. CASE r.prog = "forker"
  <2>1. Instr(r) = forker[r.pc] /\ Code[r.prog] = forker /\ Len(forker) = 6
    BY <1>8, Programs_, Zenon DEF Instr, forker
  <2>2. /\ forker[1].call = "fork" /\ forker[1].arg = "none" /\ forker[2].call = "wait"
        /\ forker[2].arg = "none" /\ forker[3].call = "write" /\ forker[3].arg = "parent"
        /\ forker[3].go = NoJump /\ forker[4].call = "exit"
        /\ forker[4].arg = "success" /\ forker[5].call = "write"
        /\ forker[5].arg = "child" /\ forker[5].go = NoJump /\ forker[6].call = "exit"
        /\ forker[6].arg = "success"
    BY Zenon DEF forker, Op, Jump, Write, Exit
  <2> QED
    BY <1>8, <2>1, <2>2 DEF Sites
<1>9. CASE r.prog = "forkexec"
  <2>1. Instr(r) = forkexec[r.pc] /\ Code[r.prog] = forkexec /\ Len(forkexec) = 7
    BY <1>9, Programs_, Zenon DEF Instr, forkexec
  <2>2. /\ forkexec[1].call = "fork" /\ forkexec[1].arg = "none"
        /\ forkexec[2].call = "wait" /\ forkexec[2].arg = "none"
        /\ forkexec[3].call = "write" /\ forkexec[3].arg = "parent"
        /\ forkexec[3].go = NoJump /\ forkexec[4].call = "exit"
        /\ forkexec[4].arg = "success" /\ forkexec[5].call = "exec"
        /\ forkexec[5].arg = "greeter" /\ forkexec[6].call = "write"
        /\ forkexec[6].arg = "FAILED" /\ forkexec[6].go = NoJump
        /\ forkexec[7].call = "exit" /\ forkexec[7].arg = "failure"
    BY Zenon DEF forkexec, Op, Jump, Write, Exit
  <2> QED
    BY <1>9, <2>1, <2>2 DEF Sites
<1>10. CASE r.prog = "ush"
  <2>1. Instr(r) = ush[r.pc] /\ Code[r.prog] = ush /\ Len(ush) = 8
    BY <1>10, Programs_, Zenon DEF Instr, ush
  <2>2. /\ ush[1].call = "write" /\ ush[1].arg = "osh$" /\ ush[1].go = NoJump
        /\ ush[2].call = "read" /\ ush[2].arg = "none" /\ ush[3].call = "fork"
        /\ ush[3].arg = "none" /\ ush[4].call = "exec" /\ ush[4].arg = "stack"
        /\ ush[5].call = "write" /\ ush[5].arg = "unknown_command"
        /\ ush[5].go = NoJump /\ ush[6].call = "exit" /\ ush[6].arg = "failure"
        /\ ush[7].call = "exit" /\ ush[7].arg = "success" /\ ush[8].call = "wait"
        /\ ush[8].arg = "none"
    BY Zenon DEF ush, Op, Jump, Write, Exit
  <2> QED
    BY <1>10, <2>1, <2>2 DEF Sites
<1> QED
  BY Programs_, <1>1, <1>2, <1>3, <1>4, <1>5, <1>6, <1>7, <1>8, <1>9, <1>10, Zenon

\* The entries that the proofs look into.
LEMMA Jumps ==
  /\ badsys[2] = Jump("write", "past", [zero |-> 7, pos |-> 7])
  /\ badsys[3] = Jump("write", "wraps", [zero |-> 7, pos |-> 7])
  /\ catfile[1] = Jump("open", "motd", [err |-> 6])
  /\ catfile[2] = Jump("fread", "none", [zero |-> 4, err |-> 4])
  /\ catfile[3] = Jump("write", "stack", [zero |-> 2, pos |-> 2, err |-> 2])
  /\ heapgrow[1] = Jump("sbrk", "none", [err |-> 7])
  /\ forker[1] = Jump("fork", "none", [zero |-> 5])
  /\ forkexec[1] = Jump("fork", "none", [zero |-> 5])
  /\ ush[2] = Jump("read", "none", [zero |-> 1, err |-> 1, blank |-> 1, q |-> 7])
  /\ ush[3] = Jump("fork", "none", [zero |-> 4, pos |-> 8])
  /\ ush[8] = Jump("wait", "none", [zero |-> 1])
  /\ trespasser[2] = Op("load", "kernel")
  /\ heapgrow[2] = Op("store", "heap0") /\ heapgrow[3] = Op("store", "heap1")
  /\ forker[2] = Op("wait", "none") /\ forkexec[2] = Op("wait", "none")
  /\ forkexec[5] = Op("exec", "greeter") /\ ush[4] = Op("exec", "stack")
BY Zenon DEF badsys, catfile, heapgrow, forker, forkexec, ush, trespasser

-----------------------------------------------------------------------------
(* One process. *)

(* Where a call returns to. *)
NextPc(r, a0) ==
  IF Class(r, a0) \in DOMAIN Instr(r).go THEN Instr(r).go[Class(r, a0)] ELSE r.pc + 1

\* A call returns a process as it was, but for a0 and the place.
LEMMA ReturnedFacts ==
  ASSUME NEW r \in Proc, NEW a0 \in Nat, NextPc(r, a0) \in Nat
  PROVE  /\ Returned(r, a0) \in Proc
         /\ Returned(r, a0).st = "run" /\ Returned(r, a0).prog = r.prog
         /\ Returned(r, a0).pc = NextPc(r, a0) /\ Returned(r, a0).a0 = a0
         /\ Returned(r, a0).s0 = r.s0 /\ Returned(r, a0).stack = r.stack
         /\ Returned(r, a0).out = r.out /\ Returned(r, a0).fds = r.fds
         /\ Returned(r, a0).heap = r.heap /\ Returned(r, a0).brk = r.brk
         /\ Returned(r, a0).parent = r.parent
BY Zenon DEF Returned, NextPc, Proc

(* What a step may make of a process. *)
Follows(r, t) ==
  /\ t \in Proc
  /\ t.st # "none" => ProgOK(t) /\ t.parent = r.parent /\ (Reader(t) => Reader(r))

\* A call that returns to the next entry, and in whose result nothing is
\* tested later on.
LEMMA PlainReturn ==
  ASSUME NEW r \in Proc, ProgOK(r), NEW t \in Proc, NEW a0 \in Nat,
         t.prog = r.prog, t.pc = r.pc, t.parent = r.parent,
         r.prog # "catfile" => t.fds = r.fds,
         Instr(r).go = NoJump, Instr(r).call \notin {"exit", "wait", "exec", "load"},
         r.prog = "catfile" => r.pc >= 4, r.prog = "heapgrow" => r.pc >= 4
  PROVE  Follows(r, Returned(t, a0))
<1>1. r.prog \in Program /\ r.pc \in Nat /\ r.pc \in 1..Len(Code[r.prog])
  BY Zenon DEF Proc, ProgOK
<1>2. Sites(r) /\ Instr(t) = Instr(r)
  BY <1>1, CallSites, Zenon DEF Instr
<1>3. NextPc(t, a0) = r.pc + 1
  BY <1>2, Zenon DEF NextPc, NoJump
<1> DEFINE u == Returned(t, a0)
<1>4. /\ u \in Proc /\ u.st = "run" /\ u.prog = r.prog /\ u.pc = r.pc + 1
      /\ u.parent = r.parent /\ u.fds = t.fds
  BY <1>1, <1>3, ReturnedFacts
<1> HIDE DEF u
<1>5. r.pc < Len(Code[r.prog])
  BY <1>2, Zenon DEF Sites
<1>6. /\ r.prog = "catfile" => u.pc = 5
      /\ r.prog = "heapgrow" => u.pc \in {5, 6}
      /\ r.prog = "trespasser" => u.pc = 2
      /\ r.prog = "badsys" => u.pc <= 6
      /\ r.prog = "forkexec" => u.pc <= 5
      /\ Reader(u) => Reader(r)
  <2>1. /\ r.prog = "catfile" => r.pc <= 5
        /\ r.prog = "heapgrow" => r.pc <= 6
        /\ r.prog = "trespasser" => r.pc <= 2
        /\ r.prog = "badsys" => r.pc <= 6
        /\ r.prog = "forkexec" => r.pc <= 5
    BY Zenon DEF ProgOK, CatfileOK, HeapgrowOK
  <2>2. /\ r.prog = "catfile" => r.pc # 5
        /\ r.prog = "heapgrow" => r.pc # 6
        /\ r.prog = "trespasser" => r.pc # 2
        /\ r.prog = "badsys" => r.pc # 6
        /\ r.prog = "forkexec" => r.pc # 5
        /\ r.prog = "ush" => r.pc # 6
    BY <1>2, Zenon DEF Sites
  <2> QED
    BY <1>1, <1>4, <2>1, <2>2 DEF Reader
<1>7. ProgOK(u)
  <2>1. u.prog = "catfile" => CatfileOK(u)
    <3> SUFFICES ASSUME u.prog = "catfile" PROVE CatfileOK(u)
      OBVIOUS
    <3>1. u.pc = 5
      BY <1>4, <1>6, Zenon
    <3> QED
      BY <3>1 DEF CatfileOK
  <2>2. u.prog = "heapgrow" => HeapgrowOK(u)
    BY <1>4, <1>6 DEF HeapgrowOK
  <2> QED
    BY <1>1, <1>4, <1>5, <1>6, <2>1, <2>2 DEF ProgOK
<1> QED
  BY <1>4, <1>6, <1>7, Zenon DEF Follows, u

-----------------------------------------------------------------------------
(* The memory of a program. *)

\* The first pages of a program.
LEMMA PageNumbers ==
  /\ PAGE_SIZE \in Nat /\ PAGE_SIZE >= 1 /\ VA_MAX \in Nat /\ 5 * PAGE_SIZE <= VA_MAX
  /\ USIZE \in Nat /\ VA_MAX <= ERR /\ ERR \in Nat /\ 0..4 \subseteq UserPage
<1>1. /\ PAGE_SIZE \in Nat /\ PAGE_SIZE >= 1 /\ VA_MAX \in Nat /\ 5 * PAGE_SIZE <= VA_MAX
      /\ USIZE \in Nat /\ VA_MAX <= ERR /\ ERR \in Nat
  BY UserCopyAssumption, ProgramsAssumption DEF ERR
<1>2. VA_MAX \div PAGE_SIZE \in Int /\ VA_MAX \div PAGE_SIZE >= 5
  BY <1>1
<1> QED
  BY <1>1, <1>2 DEF UserPage

\* A range that begins with a page and is no longer than one is in it.
LEMMA OnePage ==
  ASSUME NEW k \in 0..4, NEW n \in 0..PAGE_SIZE, NEW page \in Visited(k * PAGE_SIZE, k * PAGE_SIZE + n)
  PROVE  page = k
<1>1. PAGE_SIZE \in Nat /\ PAGE_SIZE >= 1
  BY PageNumbers, Zenon
<1>2. (k * PAGE_SIZE) \div PAGE_SIZE = k
  BY <1>1
<1>3. (k * PAGE_SIZE + n + PAGE_SIZE - 1) \div PAGE_SIZE <= k + 1
  BY <1>1
<1> QED
  BY <1>1, <1>2, <1>3 DEF Visited

\* A program's text and stack can be read, and its stack written.
LEMMA UserRanges ==
  ASSUME NEW r \in Proc, NEW n \in 0..PAGE_SIZE
  PROVE  /\ copy_from_user(Table(r), Text, n)
         /\ copy_from_user(Table(r), Stack, n) /\ copy_to_user(Table(r), Stack, n)
<1>1. /\ PAGE_SIZE \in Nat /\ PAGE_SIZE >= 1 /\ VA_MAX \in Nat /\ 5 * PAGE_SIZE <= VA_MAX
      /\ USIZE \in Nat /\ VA_MAX <= USIZE - 1 /\ 1 \in UserPage /\ 2 \in UserPage
  BY PageNumbers DEF ERR
<1>2. Table(r)[1] = "rx" /\ Table(r)[2] = "rw"
  <2>1. 1 \notin r.heap /\ 2 \notin r.heap
    <3>1. r.heap \in SUBSET {3, 4}
      BY Zenon DEF Proc
    <3> QED
      BY <3>1
  <2>2. Table(r)[1] = "rx"
    BY <1>1, <2>1 DEF Table
  <2>3. Table(r)[2] = "rw"
    BY <1>1, <2>1 DEF Table
  <2> QED
    BY <2>2, <2>3, Zenon
<1>3. \A page \in Visited(Text, Text + n) : Table(r)[page] \in {"rx", "rw"}
  <2>1. Text = 1 * PAGE_SIZE
    BY <1>1 DEF Text
  <2> QED
    BY <1>2, <2>1, OnePage
<1>4. \A page \in Visited(Stack, Stack + n) : page = 2
  BY OnePage DEF Stack
<1>5. Text + n <= VA_MAX /\ Stack + n <= VA_MAX /\ Text + n < USIZE /\ Stack + n < USIZE
  BY <1>1 DEF Text, Stack
<1> QED
  BY <1>2, <1>3, <1>4, <1>5, Zenon DEF copy_from_user, copy_to_user, accepts

-----------------------------------------------------------------------------
(* Steps of one process. *)

\* A process that does not wait has no child alive.
LEMMA NoChildren ==
  ASSUME IInv, NEW p \in Live, Instr(proc[p]).call # "wait"
  PROVE  \A q \in Live : proc[q].parent # p
BY Zenon DEF IInv, ParentsWait

\* A step that changes one process, without a child alive, keeps the invariant
\* if what it makes of the process is in order.
LEMMA SetOK ==
  ASSUME IInv, NEW p \in Live, NEW t, Set(p, t), Follows(proc[p], t),
         \A q \in Live : proc[q].parent # p
  PROVE  IInv'
<1>1. /\ proc \in [Pid -> Proc] /\ p \in Pid /\ t \in Proc
      /\ proc' = [proc EXCEPT ![p] = t] /\ shell' = shell
  BY Zenon DEF IInv, Live, Set, Follows
<1>2. /\ proc' \in [Pid -> Proc] /\ proc'[p] = t
      /\ \A q \in Pid : q # p => proc'[q] = proc[q]
  BY <1>1, Zenon
<1>3. \A q : q \in Live' <=> q \in Pid /\ proc'[q].st # "none"
  BY Zenon DEF Live
<1>4. /\ \A q \in Live' : q # p => q \in Live /\ proc'[q] = proc[q]
      /\ p \in Live' => /\ ProgOK(t) /\ t.parent = proc[p].parent
                        /\ Reader(t) => Reader(proc[p])
  BY <1>1, <1>2, <1>3, Zenon DEF Live, Follows
<1>5. \A q \in Live' : ProgOK(proc'[q])
  BY <1>2, <1>4, Zenon DEF IInv
<1>6. ParentsWait'
  <2> SUFFICES ASSUME NEW a \in Live', NEW b \in Live', proc'[b].parent = a
               PROVE  Instr(proc'[a]).call = "wait" /\ proc'[a].a0 = b
    BY Zenon DEF ParentsWait
  <2>1. b \in Live /\ proc[b].parent = a
    BY <1>2, <1>4, Zenon
  <2>2. a # p
    BY <2>1, Zenon
  <2> QED
    BY <1>4, <2>1, <2>2 DEF IInv, ParentsWait
<1>7. ReaderJoined'
  BY <1>1, <1>2, <1>4, Zenon DEF IInv, ReaderJoined
<1>8. ShellOK'
  BY <1>1, Zenon DEF IInv, ShellOK
<1> QED
  BY <1>2, <1>5, <1>6, <1>7, <1>8, Zenon DEF IInv

\* What is known of a process that makes a call.
LEMMA AtFacts ==
  ASSUME IInv, NEW p \in Pid, NEW call, At(p, call)
  PROVE  /\ p \in Live /\ proc[p] \in Proc /\ ProgOK(proc[p]) /\ Sites(proc[p])
         /\ proc[p].prog \in Program /\ proc[p].pc \in Nat /\ proc[p].pc >= 1
         /\ proc[p].pc <= Len(Code[proc[p].prog])
         /\ proc[p].st = "run" /\ Instr(proc[p]).call = call
<1>1. p \in Live /\ proc[p] \in Proc /\ proc[p].st = "run" /\ Instr(proc[p]).call = call
  BY Zenon DEF IInv, At, Live
<1>2. ProgOK(proc[p]) /\ proc[p].prog \in Program /\ proc[p].pc \in Nat
  BY <1>1, Zenon DEF IInv, Proc
<1>3. proc[p].pc \in 1..Len(Code[proc[p].prog])
  BY <1>2, Zenon DEF ProgOK
<1> QED
  BY <1>1, <1>2, <1>3, CallSites

\* The calls that return to the next entry, whatever their result.
LEMMA PlainCalls ==
  ASSUME IInv, NEW p \in Pid,
         sys_getpid(p) \/ sys_sleep_ms(p) \/ breakpoint(p) \/ sys_uname(p) \/ sys_close(p)
  PROVE  IInv'
<1> DEFINE r == proc[p]
<1>1. PICK call \in {"getpid", "sleep_ms", "ebreak", "uname", "close"} : At(p, call)
  BY ZenonT(60) DEF sys_getpid, sys_sleep_ms, breakpoint, sys_uname, sys_close
<1>2. /\ p \in Live /\ r \in Proc /\ ProgOK(r) /\ Sites(r) /\ Instr(r).call = call
      /\ Instr(r).go = NoJump
  <2>1. p \in Live /\ r \in Proc /\ ProgOK(r) /\ Sites(r) /\ Instr(r).call = call
    BY <1>1, AtFacts, ZenonT(60)
  <2>2. Instr(r).go = NoJump
    BY <1>1, <2>1, ZenonT(60) DEF Sites
  <2> QED  BY <2>1, <2>2
<1>3. /\ r.prog = "catfile" => r.pc >= 4 
      /\ r.prog = "heapgrow" => r.pc >= 4
  BY <1>2 DEF Sites
<1>4. p \in Nat /\ ERR \in Nat /\ r.a0 \in Nat
  <2>1. p \in Nat
    BY ProgramsAssumption, SMTT(30) DEF Pid
  <2>2. ERR \in Nat
    BY PageNumbers, Zenon
  <2>3. r.a0 \in Nat
    BY <1>2, Zenon DEF Proc
  <2> QED  BY <2>1, <2>2, <2>3, Zenon
<1>5. \A t \in Proc, a0 \in Nat :
        /\ t.prog = r.prog /\ t.pc = r.pc /\ t.parent = r.parent
        /\ r.prog # "catfile" => t.fds = r.fds
        => Follows(r, Returned(t, a0))
  BY <1>2, <1>3, PlainReturn, Zenon
<1>6. ASSUME NEW t, Set(p, t), Follows(r, t) PROVE IInv'
  BY <1>2, <1>6, NoChildren, SetOK, Zenon
<1>7. Follows(r, Returned(r, 0)) /\ Follows(r, Returned(r, r.a0)) /\ Follows(r, Returned(r, ERR))
  BY <1>2, <1>4, <1>5, Zenon
<1>8. ASSUME NEW v \in Val, NEW a0 \in Nat
      PROVE  Follows(r, Returned([r EXCEPT !.stack = <<v>>], a0))
  <2>1. <<v>> \in Seq(Val)
    OBVIOUS
  <2> DEFINE t == [r EXCEPT !.stack = <<v>>]
  <2>2. t \in Proc /\ t.prog = r.prog /\ t.pc = r.pc /\ t.parent = r.parent /\ t.fds = r.fds
    BY <1>2, <2>1, Zenon DEF Proc
  <2> QED
    BY <1>5, <2>2, Zenon
<1>9. "pid" \in Val /\ "osmium" \in Val
  BY Zenon DEF Val
<1>10. CASE sys_getpid(p)
  BY <1>4, <1>6, <1>8, <1>9, <1>10, Zenon DEF sys_getpid
<1>11. CASE sys_sleep_ms(p)
  BY <1>6, <1>7, <1>11, Zenon DEF sys_sleep_ms
<1>12. CASE breakpoint(p)
  BY <1>6, <1>7, <1>12, Zenon DEF breakpoint
<1>13. CASE sys_uname(p)
  BY <1>6, <1>7, <1>8, <1>9, <1>13, Zenon DEF sys_uname
<1>14. CASE sys_close(p)
  <2>1. ASSUME r.s0 \in Open(r.fds)
        PROVE  Follows(r, Returned([r EXCEPT !.fds = fd_close(@, r.s0)], 0))
    <3>1. At(p, "close")
      BY <1>14, ZenonT(60) DEF sys_close
    <3>2. r.prog = "catfile"
      BY <3>1, AtFacts DEF Sites
    <3> DEFINE t == [r EXCEPT !.fds = fd_close(@, r.s0)]
    <3>3. r.fds \in [Fd -> Entry] /\ Closed \in Entry /\ r.s0 \in Fd
      BY <1>2, <2>1, Zenon DEF Proc, Entry, Closed, Open
    <3>4. fd_close(r.fds, r.s0) \in [Fd -> Entry]
      BY <3>3, Zenon DEF fd_close
    <3>5. t \in Proc /\ t.prog = r.prog /\ t.pc = r.pc /\ t.parent = r.parent
      BY <1>2, <3>4, Zenon DEF Proc
    <3> QED
      BY <1>5, <3>2, <3>5, Zenon
  <2> QED
    BY <1>6, <1>7, <1>14, <2>1, Zenon DEF sys_close
<1> QED
  BY <1>10, <1>11, <1>12, <1>13, <1>14, Zenon

\* A dead slot follows anything.
LEMMA DeadFollows ==
  /\ Dead \in Proc /\ Dead.st = "none"
  /\ \A r : Follows(r, Dead)
<1>1. NoFds \in [Fd -> Entry]
  BY Zenon DEF NoFds, Entry, Closed
<1>2. Dead \in Proc /\ Dead.st = "none"
  BY <1>1, Programs_ DEF Dead, Proc
<1> QED
  BY <1>2, Zenon DEF Follows

\* A program that is loaded is in order.
LEMMA ImageFacts ==
  ASSUME NEW prog \in Program, NEW t \in Proc, t.st = "run", t.prog = prog, t.pc = 1,
         t.brk = 3, t.stack = <<>>, t.out = <<>>, t.fds = NoFds
  PROVE  ProgOK(t)
<1>1. t.pc \in 1..Len(Code[prog])
  BY FirstEntry, Programs_, SMTT(30)
<1>2. prog = "heapgrow" => HeapgrowOK(t)
  BY DEF HeapgrowOK
<1>3. prog = "catfile" => CatfileOK(t)
  BY DEF CatfileOK
<1> QED
  BY <1>1, <1>2, <1>3, SMTT(30) DEF ProgOK

\* What load_user_image makes.
LEMMA Images ==
  ASSUME NEW prog \in Program
  PROVE  /\ Image(prog) \in Proc /\ Image(prog).st = "run" /\ Image(prog).prog = prog
         /\ Image(prog).pc = 1 /\ Image(prog).brk = 3 /\ Image(prog).stack = <<>>
         /\ Image(prog).out = <<>> /\ Image(prog).fds = NoFds /\ Image(prog).parent = 0
<1>1. /\ Dead \in Proc /\ Dead.stack = <<>> /\ Dead.out = <<>> /\ Dead.fds = NoFds
      /\ Dead.parent = 0
  BY DeadFollows, Zenon DEF Dead
<1> QED
  BY <1>1, Zenon DEF Image, Proc

\* exit leaves no process.
LEMMA exit_OK == ASSUME IInv, NEW p \in Pid, exit(p) PROVE IInv'
<1>1. At(p, "exit") /\ Set(p, Dead)
  BY Zenon DEF exit
<1> QED
  BY <1>1, AtFacts, DeadFollows, NoChildren, SetOK, Zenon

\* SYS_READ blocks where it is.
LEMMA sys_read_OK == ASSUME IInv, NEW p \in Pid, sys_read(p) PROVE IInv'
<1> DEFINE r == proc[p]
           t == [r EXCEPT !.st = "read"]
<1>1. At(p, "read") /\ Set(p, t)
  BY Zenon DEF sys_read
<1>2. /\ p \in Live /\ r \in Proc /\ ProgOK(r) /\ Sites(r) /\ Instr(r).call = "read"
  BY <1>1, AtFacts, Zenon
<1>3. /\ t \in Proc /\ t.prog = r.prog /\ t.pc = r.pc /\ t.parent = r.parent
      /\ t.fds = r.fds
  BY <1>2, Zenon DEF Proc
<1>4. r.prog \in {"echoline", "ush"}
  BY <1>2, Zenon DEF Sites
<1>5. Instr(t) = Instr(r)
  BY <1>3, Zenon DEF Instr
<1> HIDE DEF t
<1>6. ProgOK(t)
  BY <1>2, <1>3, <1>4, <1>5, Zenon DEF ProgOK
<1>7. Follows(r, t)
  BY <1>3, <1>6, Zenon DEF Follows, Reader
<1> QED
  BY <1>1, <1>2, <1>7, NoChildren, SetOK, Zenon

\* What has been typed is returned: echoline goes on to print it, ush starts
\* the command, or prompts again, or ends.
LEMMA sys_read_return_OK ==
  ASSUME IInv, NEW p \in Pid, NEW line \in Line, sys_read_return(p, line)
  PROVE  IInv'
<1> DEFINE r == proc[p]
           t == [r EXCEPT !.stack = <<line>>]
<1>1. /\ p \in Live /\ r \in Proc /\ ProgOK(r) /\ r.st = "read"
  BY Zenon DEF IInv, sys_read_return, Live
<1>2. r.prog \in Program /\ r.pc \in 1..Len(Code[r.prog]) /\ Instr(r).call = "read"
  BY <1>1, Zenon DEF ProgOK, Proc
<1>3. Sites(r) /\ r.prog \in {"echoline", "ush"} /\ r.pc = 2
  BY <1>2, CallSites, Zenon DEF Sites
<1>4. /\ t \in Proc /\ t.prog = r.prog /\ t.pc = r.pc /\ t.parent = r.parent
      /\ t.fds = r.fds
  <2>1. <<line>> \in Seq(Val)
    BY DEF Val
  <2> QED
    BY <1>1, <2>1, Zenon DEF Proc
<1> HIDE DEF t
<1>5. Set(p, Returned(t, 1)) \/ Set(p, Returned(r, ERR))
  BY Zenon DEF sys_read_return, t
<1>6. ASSUME NEW u \in Proc, NEW a0 \in Nat, u.prog = r.prog, u.pc = r.pc,
             u.parent = r.parent, u.fds = r.fds
      PROVE  Follows(r, Returned(u, a0))
  <2>1. CASE r.prog = "echoline"
    BY <1>1, <1>2, <1>3, <1>6, <2>1, PlainReturn, Zenon DEF Sites
  <2>2. CASE r.prog = "ush"
    <3>1. Instr(u) = ush[2] /\ Len(Code["ush"]) = 8
      BY <1>3, <1>6, <2>2, Programs_, Zenon DEF Instr, ush
    <3>2. Instr(u).go = [zero |-> 1, err |-> 1, blank |-> 1, q |-> 7]
      BY <3>1, Jumps, SMTT(30) DEF Jump
    <3>3. NextPc(u, a0) \in {1, 3, 7}
      BY <1>3, <1>6, <3>2, SMTT(30) DEF NextPc
    <3> DEFINE v == Returned(u, a0)
    <3>4. /\ v \in Proc /\ v.st = "run" /\ v.prog = "ush" /\ v.pc \in {1, 3, 7}
          /\ v.parent = r.parent /\ v.fds = r.fds
      BY <1>6, <2>2, <3>3, ReturnedFacts
    <3> HIDE DEF v
    <3>5. ProgOK(v)
      <4>1. r.fds = NoFds
        BY <1>1, <2>2, Zenon DEF ProgOK
      <4>2. Len(Code[v.prog]) = 8
        BY <3>1, <3>4, Zenon
      <4>3. v.pc \in 1..Len(Code[v.prog])
        BY <3>4, <4>2
      <4> QED
        BY <3>4, <4>1, <4>3, Zenon DEF ProgOK
    <3>6. Reader(r)
      BY <1>3, <2>2 DEF Reader
    <3> QED
      BY <3>4, <3>5, <3>6, Zenon DEF Follows, v
  <2> QED
    BY <1>3, <2>1, <2>2, Zenon
<1>7. Follows(r, Returned(t, 1)) /\ Follows(r, Returned(r, ERR))
  BY <1>1, <1>4, <1>6, PageNumbers, Zenon
<1> QED
  BY <1>1, <1>2, <1>5, <1>7, NoChildren, SetOK, Zenon

\* Text is written whatever comes of it; the two writes of badsys that reach
\* past the address space fail, as the program expects; catfile prints what it
\* has read.
LEMMA sys_write_OK == ASSUME IInv, NEW p \in Pid, sys_write(p) PROVE IInv'
<1> DEFINE r == proc[p]
           arg == Instr(r).arg
           ptr == CASE arg = "stack" -> Stack [] arg = "past" -> VA_MAX
                    [] arg = "wraps" -> USIZE - 1 [] OTHER -> Text
           len == IF arg = "stack" THEN Len(r.stack) ELSE 2
           t == [r EXCEPT !.out = IF arg = "stack" THEN @ \o r.stack ELSE @]
           ok == len <= WRITE_MAX /\ copy_from_user(Table(r), ptr, len)
<1>1. At(p, "write") /\ Set(p, IF ok THEN Returned(t, len) ELSE Returned(r, ERR))
  BY Zenon DEF sys_write
<1>2. /\ p \in Live /\ r \in Proc /\ ProgOK(r) /\ Sites(r) /\ Instr(r).call = "write"
      /\ r.prog \in Program /\ r.pc \in Nat
  BY <1>1, AtFacts, Zenon
<1>3. len \in Nat /\ ERR \in Nat
  <2>1. r.stack \in Seq(Val)
    BY <1>2, Zenon DEF Proc
  <2> QED
    BY <2>1, PageNumbers
<1>4. /\ t \in Proc /\ t.prog = r.prog /\ t.pc = r.pc /\ t.parent = r.parent
      /\ t.fds = r.fds /\ t.stack = r.stack /\ t.s0 = r.s0
      /\ t.out = IF arg = "stack" THEN r.out \o r.stack ELSE r.out
  <2>1. r.stack \in Seq(Val) /\ r.out \in Seq(Val)
    BY <1>2, Zenon DEF Proc
  <2>2. r.out \o r.stack \in Seq(Val)
    BY <2>1
  <2> QED
    BY <1>2, <2>1, <2>2, Zenon DEF Proc
<1> HIDE DEF t
<1>5. CASE Instr(r).go = NoJump
  <2>1. /\ r.prog = "catfile" => r.pc >= 4
        /\ r.prog = "heapgrow" => r.pc >= 4
    <3>1. r.prog = "catfile" => r.pc # 3
      <4> SUFFICES ASSUME r.prog = "catfile", r.pc = 3 PROVE FALSE
        OBVIOUS
      <4>1. Instr(r).go = [zero |-> 2, pos |-> 2, err |-> 2]
        BY Programs_, Jumps, SMTT(30) DEF Instr, Jump
      <4>2. "zero" \in DOMAIN Instr(r).go
        BY <4>1
      <4> QED
        BY <1>5, <4>2, Zenon DEF NoJump
    <3> QED
      BY <1>2, <3>1 DEF Sites
  <2>2. Follows(r, Returned(t, len)) /\ Follows(r, Returned(r, ERR))
    BY <1>2, <1>3, <1>4, <1>5, <2>1, PlainReturn, Zenon
  <2> QED
    BY <1>1, <1>2, <2>2, NoChildren, SetOK, ZenonT(60)
<1>6. CASE r.prog = "badsys" /\ r.pc \in {2, 3}
  <2>1. /\ Instr(r).go = [zero |-> 7, pos |-> 7] /\ arg \in {"past", "wraps"}
        /\ Len(Code["badsys"]) = 8
    BY <1>6, Programs_, Jumps DEF Instr, Jump, badsys
  <2>2. ~ok
    <3>1. len = 2 /\ ptr \in {VA_MAX, USIZE - 1}
      BY <2>1, Zenon
    <3> HIDE DEF len, ptr
    <3>2. ptr + len > VA_MAX
      BY <3>1, PageNumbers DEF ERR
    <3> QED
      BY <3>1, <3>2, PageNumbers DEF copy_from_user, accepts
  <2>3. Class(r, ERR) = "err"
    BY PageNumbers DEF Class
  <2>4. NextPc(r, ERR) = r.pc + 1
    BY <2>1, <2>3, Zenon DEF NextPc
  <2> DEFINE u == Returned(r, ERR)
  <2>5. /\ u \in Proc /\ u.st = "run" /\ u.prog = "badsys" /\ u.pc \in {3, 4}
        /\ u.parent = r.parent /\ u.fds = r.fds
    BY <1>2, <1>3, <1>6, <2>4, ReturnedFacts, SMTT(30)
  <2> HIDE DEF u
  <2>6. ProgOK(u)
    <3>1. r.fds = NoFds
      BY <1>2, <1>6, Zenon DEF ProgOK
    <3>2. Len(Code[u.prog]) = 8
      BY <2>1, <2>5, Zenon
    <3> QED
      BY <2>5, <3>1, <3>2 DEF ProgOK
  <2>7. Follows(r, u)
    BY <2>5, <2>6, Zenon DEF Follows, Reader
  <2> QED
    BY <1>1, <1>2, <2>2, <2>7, NoChildren, SetOK, ZenonT(60) DEF u
<1>7. CASE r.prog = "catfile" /\ r.pc = 3
  <2>1. /\ Instr(r).go = [zero |-> 2, pos |-> 2, err |-> 2] /\ arg = "stack"
        /\ Len(Code["catfile"]) = 7
    BY <1>7, Programs_, Jumps DEF Instr, Jump, catfile
  <2>2. CatfileOK(r)
    BY <1>2, <1>7, Zenon DEF ProgOK
  <2>3. Len(r.stack) \in 1..Less(Chunk, WRITE_MAX)
    BY <1>7, <2>2, Zenon DEF CatfileOK
  <2>4. ok
    <3>1. len \in 0..PAGE_SIZE /\ len <= WRITE_MAX
      BY <2>1, <2>3, PageNumbers, ProgramsAssumption, SMTT(30) DEF Less
    <3>2. ptr = Stack
      BY <2>1, Zenon
    <3> QED
      BY <1>2, <3>1, <3>2, UserRanges, Zenon
  <2>5. Class(t, len) \in {"zero", "pos", "err"}
    <3>1. Instr(t) = Instr(r)
      BY <1>4, Zenon DEF Instr
    <3> QED
      BY <1>2, <3>1, Zenon DEF Class
  <2>6. NextPc(t, len) = 2
    <3>1. Instr(t) = Instr(r)
      BY <1>4, Zenon DEF Instr
    <3> QED
      BY <2>1, <2>5, <3>1 DEF NextPc
  <2> DEFINE u == Returned(t, len)
  <2>7. /\ u \in Proc /\ u.st = "run" /\ u.prog = "catfile" /\ u.pc = 2
        /\ u.parent = r.parent /\ u.fds = r.fds /\ u.s0 = r.s0 /\ u.out = r.out \o r.stack
    <3>1. t.out = r.out \o r.stack
      BY <1>4, <2>1, Zenon
    <3> HIDE DEF len
    <3>2. t \in Proc /\ len \in Nat /\ NextPc(t, len) \in Nat
      BY <1>3, <1>4, <2>6
    <3>3. /\ u \in Proc /\ u.st = "run" /\ u.prog = t.prog /\ u.pc = NextPc(t, len)
          /\ u.parent = t.parent /\ u.fds = t.fds /\ u.s0 = t.s0 /\ u.out = t.out
      BY <3>2, ReturnedFacts, ZenonT(60)
    <3> HIDE DEF u
    <3> QED
      BY <1>4, <1>7, <2>6, <3>1, <3>3, Zenon
  <2> HIDE DEF u
  <2>8. CatfileOK(u)
    <3>1. /\ r.s0 \in Fd /\ r.fds[r.s0].file = "motd"
          /\ r.fds[r.s0].offset = Len(r.out \o r.stack) /\ IsPrefix_(r.out \o r.stack, "motd")
      BY <1>7, <2>2, Zenon DEF CatfileOK
    <3>2. u.fds[u.s0].offset = Len(u.out) /\ IsPrefix_(u.out, "motd")
      BY <2>7, <3>1, Zenon
    <3>3. u.s0 \in Fd /\ u.fds[u.s0].file = "motd"
      BY <2>7, <3>1, Zenon
    <3> QED
      BY <2>7, <3>2, <3>3 DEF CatfileOK
  <2>9. ProgOK(u)
    <3>1. Len(Code[u.prog]) = 7
      BY <2>1, <2>7, Zenon
    <3> QED
      BY <2>7, <2>8, <3>1 DEF ProgOK
  <2>10. Follows(r, u)
    BY <2>7, <2>9, Zenon DEF Follows, Reader
  <2> QED
    BY <1>1, <1>2, <2>4, <2>10, NoChildren, SetOK, ZenonT(60) DEF u
<1> QED
  BY <1>2, <1>5, <1>6, <1>7, Zenon DEF Sites

\* Two sequences of bytes, one after the other.
LEMMA Concatenated ==
  ASSUME NEW s \in Seq(Nat), NEW t \in Seq(Nat)
  PROVE  s \o t \in Seq(Nat) /\ Len(s) \in Nat /\ Len(s \o t) = Len(s) + Len(t)
OBVIOUS

\* A sequence that agrees with the beginning of another one is its beginning.
LEMMA Beginning ==
  ASSUME NEW d \in Seq(Nat), NEW t \in Seq(Nat), Len(t) <= Len(d),
         \A i \in 1..Len(t) : t[i] = d[i]
  PROVE  t = SubSeq(d, 1, Len(t))
BY SMTT(30)

\* The beginning of a file and what read_at returns from there on.
LEMMA ReadAt ==
  ASSUME NEW file \in Name, NEW s, IsPrefix_(s, file), NEW cap \in Nat \ {0}
  PROVE  LET buf == read_at(file, Len(s), cap) IN
         /\ buf \in Seq(Nat) /\ Len(buf) <= cap
         /\ IsPrefix_(s \o buf, file)
         /\ Len(s \o buf) = Len(s) + Len(buf)
         /\ Len(buf) = 0 => s = data[file]
         /\ Len(buf) = 0 <=> buf = <<>>
<1> DEFINE d == data[file]
           k == Less(cap, Len(d) - Len(s))
           buf == read_at(file, Len(s), cap)
<1>1. d \in Seq(Nat) /\ s \in Seq(Nat) /\ Len(s) <= Len(d) /\ s = SubSeq(d, 1, Len(s))
  BY RamfsAssumption, Zenon DEF IsPrefix_
<1> HIDE DEF d
<1>2. CASE Len(s) >= Len(d)
  <2>1. buf = <<>> /\ s \o buf = s
    BY <1>1, <1>2 DEF read_at, d
  <2>2. s = d
    BY <1>1, <1>2
  <2> QED
    BY <1>1, <2>1, <2>2 DEF d
<1>3. CASE Len(s) < Len(d)
  <2>1. buf = SubSeq(d, Len(s) + 1, Len(s) + k)
    <3>1. ~(Len(s) >= Len(data[file]))
      BY <1>1, <1>3 DEF d
    <3> QED
      BY <3>1, Zenon DEF read_at, d
  <2>2. k \in Nat /\ 1 <= k /\ k <= cap /\ Len(s) + k <= Len(d)
    BY <1>1, <1>3 DEF Less
  <2> HIDE DEF k, buf
  <2>3. /\ buf \in Seq(Nat) /\ Len(buf) = k
        /\ \A i \in 1..k : buf[i] = d[Len(s) + i]
    <3>1. Len(s) \in Nat
      BY <1>1
    <3> DEFINE n == Len(s)
    <3> HIDE DEF n
    <3>2. n \in Nat /\ buf = SubSeq(d, n + 1, n + k) /\ n + k <= Len(d) /\ d \in Seq(Nat)
      BY <1>1, <2>1, <2>2, <3>1, Zenon DEF n
    <3>3. /\ buf \in Seq(Nat) /\ Len(buf) = k
          /\ \A i \in 1..k : buf[i] = d[n + i]
      BY <2>2, <3>2, SMTT(30)
    <3> QED
      BY <3>3, Zenon DEF n
  <2>4. /\ s \o buf \in Seq(Nat) /\ Len(s \o buf) = Len(s) + k
    <3>1. s \in Seq(Nat)
      BY <1>1, Zenon
    <3>2. buf \in Seq(Nat) /\ Len(buf) = k
      BY <2>3, Zenon
    <3> QED
      BY <3>1, <3>2, Concatenated, Zenon
  <2>a. Len(s) \in Nat /\ \A i \in 1..Len(s) : s[i] = d[i]
    <3>1. Len(s) \in Nat
      BY <1>1
    <3>2. \A n \in 0..Len(d) : \A i \in 1..n : SubSeq(d, 1, n)[i] = d[i]
      BY <1>1
    <3>3. \A i \in 1..Len(s) : SubSeq(d, 1, Len(s))[i] = d[i]
      BY <1>1, <3>1, <3>2
    <3> QED
      BY <1>1, <3>1, <3>3, Zenon
  <2>5. \A i \in 1..(Len(s) + k) : (s \o buf)[i] = d[i]
    <3> SUFFICES ASSUME NEW i \in 1..(Len(s) + k) PROVE (s \o buf)[i] = d[i]
      BY Zenon
    <3>1. CASE i <= Len(s)
      <4>1. (s \o buf)[i] = s[i]
        BY <1>1, <2>3, <3>1
      <4> QED
        BY <2>a, <3>1, <4>1
    <3>2. CASE i > Len(s)
      <4>1. i - Len(s) \in 1..k
        BY <1>1, <2>2, <3>2, SMTT(30)
      <4>2. (s \o buf)[i] = buf[i - Len(s)]
        BY <1>1, <2>2, <2>3, <3>2, SMTT(30)
      <4> QED
        BY <1>1, <2>3, <4>1, <4>2
    <3> QED
      <4>1. i <= Len(s) \/ i > Len(s)
        <5>1. Len(s) \in Nat
          BY <1>1
        <5> QED
          BY <2>2, <5>1
      <4> QED
        BY <3>1, <3>2, <4>1, Zenon
  <2>6. s \o buf = SubSeq(d, 1, Len(s \o buf))
    BY <1>1, <2>2, <2>4, <2>5, Beginning, Zenon
  <2>7. IsPrefix_(s \o buf, file)
    BY <2>2, <2>4, <2>6, Zenon DEF IsPrefix_, d
  <2> QED
    BY <2>2, <2>3, <2>4, <2>7 DEF buf
<1> QED
  BY <1>1, <1>2, <1>3

\* catfile opens motd in the first slot of its table, which is empty.
LEMMA sys_open_OK == ASSUME IInv, NEW p \in Pid, sys_open(p) PROVE IInv'
<1> DEFINE r == proc[p]
           fd == first_free(r.fds)
           t == [r EXCEPT !.fds = fd_install(@, Instr(r).arg), !.s0 = fd]
<1>1. /\ At(p, "open")
      /\ Set(p, IF /\ copy_from_user(Table(r), Text, 1)
                   /\ Instr(r).arg \in Name /\ Open(r.fds) # Fd
                THEN Returned(t, fd) ELSE Returned(r, ERR))
  BY Zenon DEF sys_open
<1>2. /\ p \in Live /\ r \in Proc /\ ProgOK(r) /\ Instr(r).call = "open"
      /\ r.prog = "catfile" /\ r.pc = 1
  BY <1>1, AtFacts, ZenonT(60) DEF Sites
<1>3. /\ Instr(r).go = [err |-> 6] /\ Instr(r).arg = "motd"
      /\ Len(Code["catfile"]) = 7
  BY <1>2, Programs_, Jumps, SMTT(30) DEF Instr, Jump, catfile
<1>4. r.fds = NoFds /\ r.out = <<>>
  BY <1>2, Zenon DEF ProgOK, CatfileOK
<1>5. Open(r.fds) = {} /\ 0 \in Fd /\ fd = 0
  <2>1. 0 \in Fd /\ MAX_FDS \in Nat
    BY RamfsAssumption, ProgramsAssumption DEF Fd
  <2>2. Open(r.fds) = {}
    BY <1>4, Zenon DEF Open, NoFds
  <2>3. fd = CHOOSE x \in Fd : \A y \in Fd : x <= y
    BY <2>2, Zenon DEF first_free
  <2>4. \A y \in Fd : 0 <= y
    BY <2>1 DEF Fd
  <2>5. fd \in Fd /\ fd <= 0
    BY <2>1, <2>3, <2>4, Zenon
  <2> QED
    BY <2>1, <2>2, <2>5, SMTT(30) DEF Fd
<1>6. Set(p, Returned(t, fd))
  <2>1. copy_from_user(Table(r), Text, 1)
    BY <1>2, UserRanges, PageNumbers
  <2> QED
    BY <1>1, <1>3, <1>5, <2>1, ProgramsAssumption, ZenonT(60)
<1>7. /\ t \in Proc /\ t.prog = "catfile" /\ t.pc = 1 /\ t.parent = r.parent /\ t.out = <<>>
      /\ t.s0 = 0 /\ t.fds[0] = [file |-> "motd", offset |-> 0]
  <2>1. r.fds \in [Fd -> Entry]
    BY <1>2, Zenon DEF Proc
  <2>2. [file |-> "motd", offset |-> 0] \in Entry
    BY ProgramsAssumption, Zenon DEF Entry
  <2>3. fd_install(r.fds, "motd") = [r.fds EXCEPT ![0] = [file |-> "motd", offset |-> 0]]
    BY <1>5, Zenon DEF fd_install
  <2>4. /\ fd_install(r.fds, "motd") \in [Fd -> Entry]
        /\ fd_install(r.fds, "motd")[0] = [file |-> "motd", offset |-> 0]
    BY <1>5, <2>1, <2>2, <2>3, Zenon
  <2> HIDE DEF fd
  <2> QED
    BY <1>2, <1>3, <1>4, <1>5, <2>4, Zenon DEF Proc
<1> HIDE DEF t, fd
<1>8. NextPc(t, 0) = 2
  <2>1. Instr(t).go = [err |-> 6]
    BY <1>2, <1>3, <1>7, ZenonT(60) DEF Instr
  <2>2. Class(t, 0) = "zero"
    BY PageNumbers DEF Class
  <2> QED
    BY <1>7, <2>1, <2>2 DEF NextPc
<1> DEFINE u == Returned(t, 0)
<1>9. /\ u \in Proc /\ u.st = "run" /\ u.prog = "catfile" /\ u.pc = 2
      /\ u.parent = r.parent /\ u.fds = t.fds /\ u.s0 = 0 /\ u.out = <<>>
  BY <1>7, <1>8, ReturnedFacts, SMTT(30)
<1> HIDE DEF u
<1>10. CatfileOK(u)
  <2>1. IsPrefix_(<<>>, "motd")
    BY RamfsAssumption, ProgramsAssumption, SMTT(30) DEF IsPrefix_
  <2> QED
    BY <1>5, <1>7, <1>9, <2>1, SMTT(30) DEF CatfileOK
<1>11. ProgOK(u)
  <2>1. Len(Code[u.prog]) = 7
    BY <1>3, <1>9, Zenon
  <2> QED
    BY <1>9, <1>10, <2>1 DEF ProgOK
<1>12. Follows(r, u)
  BY <1>9, <1>11, Zenon DEF Follows, Reader
<1> QED
  BY <1>2, <1>5, <1>6, <1>12, NoChildren, SetOK, Zenon DEF u

\* catfile reads on: it has the next part of the file, or has printed it all.
LEMMA sys_fread_OK == ASSUME IInv, NEW p \in Pid, sys_fread(p) PROVE IInv'
<1> DEFINE r == proc[p]
           cap == Less(Chunk, WRITE_MAX)
           buf == read_at("motd", Len(r.out), cap)
           t == [r EXCEPT !.stack = buf, !.fds = fd_advance(@, r.s0, Len(buf))]
<1>1. At(p, "fread")
  BY Zenon DEF sys_fread
<1>2. /\ p \in Live /\ r \in Proc /\ ProgOK(r) /\ Instr(r).call = "fread"
      /\ r.prog = "catfile" /\ r.pc = 2
  BY <1>1, AtFacts, ZenonT(60) DEF Sites
<1>3. Instr(r).go = [zero |-> 4, err |-> 4] /\ Len(Code["catfile"]) = 7
  BY <1>2, Programs_, Jumps DEF Instr, Jump, catfile
<1>4. /\ r.s0 \in Fd /\ r.fds[r.s0].file = "motd" /\ r.fds[r.s0].offset = Len(r.out)
      /\ IsPrefix_(r.out, "motd")
  BY <1>2, Zenon DEF ProgOK, CatfileOK
<1>5. cap \in Nat \ {0} /\ cap <= PAGE_SIZE /\ "motd" \in Name /\ PAGE_SIZE \in Nat
  BY ProgramsAssumption, PageNumbers DEF Less
<1> HIDE DEF cap
<1>6. /\ buf \in Seq(Nat) /\ Len(buf) <= cap
      /\ IsPrefix_(r.out \o buf, "motd")
      /\ Len(r.out \o buf) = Len(r.out) + Len(buf)
      /\ Len(buf) = 0 => r.out = data["motd"]
  BY <1>4, <1>5, ReadAt, Zenon
<1>7. r.s0 \in Open(r.fds)
  <2>1. Closed.file = "closed" /\ "motd" # "closed"
    BY Zenon DEF Closed
  <2>2. r.fds[r.s0] # Closed
    BY <1>4, <2>1, Zenon
  <2> QED
    BY <1>4, <2>2, Zenon DEF Open
<1>8. Set(p, IF copy_to_user(Table(r), Stack, Len(buf))
             THEN Returned(t, Len(buf)) ELSE Returned(r, ERR))
  BY <1>4, <1>7, Zenon DEF sys_fread, cap
<1> HIDE DEF buf
<1>9. Set(p, Returned(t, Len(buf)))
  <2>1. Len(buf) \in 0..PAGE_SIZE
    BY <1>5, <1>6
  <2> QED
    BY <1>2, <1>8, <2>1, UserRanges, Zenon
<1>10. /\ t \in Proc /\ t.prog = "catfile" /\ t.pc = 2 /\ t.parent = r.parent
       /\ t.out = r.out /\ t.s0 = r.s0 /\ t.stack = buf
       /\ t.fds[r.s0].file = "motd" /\ t.fds[r.s0].offset = Len(r.out) + Len(buf)
  <2>1. r.fds \in [Fd -> Entry] /\ r.out \in Seq(Val)
    BY <1>2, Zenon DEF Proc
  <2>2. Len(buf) \in Nat /\ Len(r.out) \in Nat
    BY <1>6, <2>1, SMTT(30)
  <2> DEFINE g == fd_advance(r.fds, r.s0, Len(buf))
  <2>3. g \in [Fd -> Entry] /\ g[r.s0].file = "motd" /\ g[r.s0].offset = Len(r.out) + Len(buf)
    BY <1>4, <2>1, <2>2, SMTT(30) DEF fd_advance, Entry
  <2>4. buf \in Seq(Val)
    BY <1>6 DEF Val
  <2> HIDE DEF g
  <2>5. t = [r EXCEPT !.stack = buf, !.fds = g]
    BY Zenon DEF g
  <2> HIDE DEF t
  <2> QED
    BY <1>2, <2>3, <2>4, <2>5, Zenon DEF Proc
<1> HIDE DEF t
<1>11. Instr(t).go = [zero |-> 4, err |-> 4]
  BY <1>2, <1>3, <1>10, Zenon DEF Instr
<1> DEFINE a0 == Len(buf)
           u == Returned(t, a0)
<1>12. a0 \in Nat /\ a0 # ERR
  BY <1>5, <1>6, PageNumbers, SMTT(30)
<1> HIDE DEF a0
<1>13. NextPc(t, a0) = IF a0 = 0 THEN 4 ELSE 3
  <2>1. Instr(t).call # "read"
    BY <1>2, <1>10, Zenon DEF Instr
  <2>2. Class(t, a0) = IF a0 = 0 THEN "zero" ELSE "pos"
    <3>1. CASE a0 = 0
      BY <1>12, <3>1, Zenon DEF Class
    <3>2. CASE a0 # 0
      BY <1>12, <2>1, <3>2, ZenonT(60) DEF Class
    <3> QED
      BY <3>1, <3>2, Zenon
  <2> QED
    BY <1>10, <1>11, <2>2 DEF NextPc
<1>14. /\ u \in Proc /\ u.st = "run" /\ u.prog = "catfile" /\ u.pc \in {3, 4}
       /\ a0 = 0 <=> u.pc = 4
       /\ u.parent = r.parent /\ u.fds = t.fds /\ u.s0 = r.s0 /\ u.out = r.out
       /\ u.stack = buf
  <2>1. NextPc(t, a0) \in Nat
    BY <1>13
  <2> QED
    BY <1>10, <1>12, <1>13, <2>1, ReturnedFacts, SMTT(30)
<1> HIDE DEF u
<1>15. CatfileOK(u)
  <2>1. CASE u.pc = 4
    <3>1. u.out = data["motd"]
      BY <1>6, <1>14, <2>1, Zenon DEF a0
    <3> QED
      BY <2>1, <3>1 DEF CatfileOK
  <2>2. CASE u.pc = 3
    <3>1. u.s0 \in Fd /\ u.fds[u.s0].file = "motd"
      BY <1>4, <1>10, <1>14, Zenon
    <3>2. u.fds[u.s0].offset = Len(u.out \o u.stack) /\ IsPrefix_(u.out \o u.stack, "motd")
      BY <1>6, <1>10, <1>14, Zenon
    <3>3. Len(u.stack) \in 1..cap
      BY <1>5, <1>6, <1>12, <1>14, <2>2, SMTT(30) DEF a0
    <3> QED
      BY <2>2, <3>1, <3>2, <3>3 DEF CatfileOK, cap
  <2> QED
    BY <1>14, <2>1, <2>2, Zenon
<1>16. ProgOK(u)
  <2>1. Len(Code[u.prog]) = 7
    BY <1>3, <1>14, Zenon
  <2> QED
    BY <1>14, <1>15, <2>1 DEF ProgOK
<1>17. Follows(r, u)
  BY <1>14, <1>16, Zenon DEF Follows, Reader
<1> QED
  BY <1>2, <1>9, <1>17, NoChildren, SetOK, Zenon DEF u, a0

\* heapgrow gets its two pages.
LEMMA sbrk_OK == ASSUME IInv, NEW p \in Pid, sbrk(p) PROVE IInv'
<1> DEFINE r == proc[p]
           t == [r EXCEPT !.brk = @ + 2]
           a0 == r.brk * PAGE_SIZE
<1>1. /\ At(p, "sbrk")
      /\ Set(p, IF (r.brk + 2) * PAGE_SIZE <= VA_MAX THEN Returned(t, a0) ELSE Returned(r, ERR))
  BY Zenon DEF sbrk
<1>2. /\ p \in Live /\ r \in Proc /\ ProgOK(r) /\ Instr(r).call = "sbrk"
      /\ r.prog = "heapgrow" /\ r.pc = 1
  BY <1>1, AtFacts, ZenonT(60) DEF Sites
<1>3. Instr(r).go = [err |-> 7] /\ Len(Code["heapgrow"]) = 8
  BY <1>2, Programs_, Jumps DEF Instr, Jump, heapgrow
<1>4. r.brk = 3 /\ r.stack = <<>> /\ r.fds = NoFds
  BY <1>2, Zenon DEF ProgOK, HeapgrowOK
<1>5. Set(p, Returned(t, a0)) /\ a0 \in Nat /\ a0 # ERR
  BY <1>1, <1>4, PageNumbers
<1>6. /\ t \in Proc /\ t.prog = "heapgrow" /\ t.pc = 1 /\ t.parent = r.parent
      /\ t.stack = <<>> /\ t.fds = NoFds /\ t.brk = 5
  <2>1. t = [r EXCEPT !.brk = 5]
    BY <1>4, SMTT(30)
  <2> HIDE DEF t
  <2> QED
    BY <1>2, <1>4, <2>1, Zenon DEF Proc
<1> HIDE DEF t, a0
<1>7. NextPc(t, a0) = 2
  <2>1. Instr(t).go = [err |-> 7]
    BY <1>2, <1>3, <1>6, Zenon DEF Instr
  <2>2. Class(t, a0) # "err"
    BY <1>5, Zenon DEF Class
  <2> QED
    BY <1>6, <2>1, <2>2 DEF NextPc
<1> DEFINE u == Returned(t, a0)
<1>8. /\ u \in Proc /\ u.st = "run" /\ u.prog = "heapgrow" /\ u.pc = 2
      /\ u.parent = r.parent /\ u.fds = NoFds /\ u.stack = <<>> /\ u.brk = 5
  BY <1>5, <1>6, <1>7, ReturnedFacts, SMTT(30)
<1> HIDE DEF u
<1>9. ProgOK(u)
  <2>1. Len(Code[u.prog]) = 8
    BY <1>3, <1>8, Zenon
  <2>2. HeapgrowOK(u)
    BY <1>8 DEF HeapgrowOK
  <2> QED
    BY <1>8, <2>1, <2>2 DEF ProgOK
<1>10. Follows(r, u)
  BY <1>8, <1>9, Zenon DEF Follows, Reader
<1> QED
  BY <1>2, <1>5, <1>10, NoChildren, SetOK, Zenon DEF u

\* The buffer of heapgrow when it has read both pages.
LEMMA BothPages == Append(<<3>>, 4) = <<3, 4>>
<1> DEFINE s == Append(<<3>>, 4)
<1>1. s \in Seq(Nat) /\ Len(s) = 2 /\ s[1] = 3 /\ s[2] = 4
  OBVIOUS
<1> HIDE DEF s
<1>2. s = <<3, 4>>
  BY <1>1
<1> QED
  BY <1>2, Zenon DEF s

\* The load of the trespasser kills it.  A store of heapgrow maps its page, and
\* is then made.
LEMMA page_fault_OK == ASSUME IInv, NEW p \in Pid, page_fault(p) PROVE IInv'
<1> DEFINE r == proc[p]
           page == CASE Instr(r).arg = "kernel" -> 0 [] Instr(r).arg = "heap0" -> 3
                     [] OTHER -> 4
           stored == Returned([r EXCEPT !.stack = Append(@, page)], r.a0)
           mapped == [r EXCEPT !.heap = @ \cup {page}]
<1>1. /\ At(p, "load") \/ At(p, "store")
      /\ Set(p, CASE Table(r)[page] = "rw" -> stored
                  [] page \in 3..(r.brk - 1) /\ Table(r)[page] = "none" -> mapped
                  [] OTHER -> Dead)
  BY Zenon DEF page_fault
<1>2. /\ p \in Live /\ r \in Proc /\ ProgOK(r) /\ Instr(r).call \in {"load", "store"}
      /\ Sites(r)
  BY <1>1, AtFacts, Zenon
<1>a. /\ r.heap \in SUBSET {3, 4} /\ 0 \in UserPage /\ 3 \in UserPage /\ 4 \in UserPage
  BY <1>2, PageNumbers, SMTT(30) DEF Proc
<1>3. CASE Instr(r).call = "load"
  <2>1. r.prog = "trespasser" /\ r.pc = 2
    BY <1>2, <1>3, ZenonT(60) DEF Sites
  <2>2. Instr(r).arg = "kernel"
    BY <2>1, Programs_, Jumps DEF Instr, Op, Jump
  <2>3. page = 0
    BY <2>2, Zenon
  <2>4. Table(r)[0] = "kernel"
    <3>1. 0 \notin r.heap
      BY <1>a
    <3> QED
      BY <1>a, <3>1 DEF Table
  <2> HIDE DEF page, stored, mapped
  <2>5. Set(p, Dead)
    BY <1>1, <2>3, <2>4, Zenon
  <2> QED
    BY <1>2, <2>5, DeadFollows, NoChildren, SetOK, Zenon
<1>4. CASE Instr(r).call = "store"
  <2>1. r.prog = "heapgrow" /\ r.pc \in {2, 3} /\ Instr(r).go = NoJump
    BY <1>2, <1>4, Zenon DEF Sites
  <2>2. page = r.pc + 1 /\ Len(Code["heapgrow"]) = 8
    BY <2>1, Programs_, Jumps DEF Instr, Op, Jump, heapgrow
  <2>3. /\ r.brk = 5 /\ r.fds = NoFds /\ r.stack = IF r.pc = 2 THEN <<>> ELSE <<3>>
    BY <1>2, <2>1, Zenon DEF ProgOK, HeapgrowOK
  <2>4. page \in {3, 4} /\ Table(r)[page] = IF page \in r.heap THEN "rw" ELSE "none"
    <3>1. page \in {3, 4}
      BY <2>1, <2>2
    <3> HIDE DEF page
    <3> QED
      BY <1>a, <3>1 DEF Table
  <2> HIDE DEF page
  <2>5. CASE page \in r.heap
    <3> DEFINE t == [r EXCEPT !.stack = Append(@, page)]
               u == Returned(t, r.a0)
    <3>1. Set(p, u)
      <4> HIDE DEF u
      <4>1. stored = u
        BY Zenon DEF u
      <4> HIDE DEF stored, mapped
      <4> QED
        BY <1>1, <2>4, <2>5, <4>1, Zenon
    <3>2. Append(r.stack, page) = IF r.pc = 2 THEN <<3>> ELSE <<3, 4>>
      <4>1. CASE r.pc = 2
        <5>1. page = 3 /\ r.stack = <<>>
          BY <2>2, <2>3, <4>1
        <5> QED
          BY <4>1, <5>1
      <4>2. CASE r.pc = 3
        <5>1. page = 4 /\ r.stack = <<3>>
          BY <2>2, <2>3, <4>2
        <5> QED
          BY <4>2, <5>1, BothPages, SMTT(30)
      <4> QED
        BY <2>1, <4>1, <4>2, Zenon
    <3>3. Append(r.stack, page) \in Seq(Val)
      <4>1. page \in Val
        BY <2>4 DEF Val
      <4>2. r.stack \in Seq(Val)
        BY <1>2, Zenon DEF Proc
      <4> QED
        BY <4>1, <4>2
    <3>4. /\ t \in Proc /\ t.prog = "heapgrow" /\ t.pc = r.pc /\ t.parent = r.parent
          /\ t.stack = Append(r.stack, page) /\ t.fds = NoFds /\ t.brk = 5 /\ r.a0 \in Nat
      BY <1>2, <2>1, <2>3, <3>3, Zenon DEF Proc
    <3> HIDE DEF t
    <3>5. NextPc(t, r.a0) = r.pc + 1
      <4>1. Instr(t) = Instr(r)
        BY <2>1, <3>4, ZenonT(60) DEF Instr
      <4> QED
        BY <2>1, <3>4, <4>1, Zenon DEF NextPc, NoJump
    <3>6. /\ u \in Proc /\ u.st = "run" /\ u.prog = "heapgrow" /\ u.pc = r.pc + 1
          /\ u.parent = r.parent /\ u.fds = NoFds /\ u.brk = 5
          /\ u.stack = Append(r.stack, page)
      BY <2>1, <3>4, <3>5, ReturnedFacts, SMTT(30)
    <3> HIDE DEF u
    <3>7. HeapgrowOK(u)
      <4>1. CASE r.pc = 2
        BY <3>2, <3>6, <4>1 DEF HeapgrowOK
      <4>2. CASE r.pc = 3
        BY <3>2, <3>6, <4>2, SMTT(30) DEF HeapgrowOK
      <4> QED
        BY <2>1, <4>1, <4>2, Zenon
    <3>8. ProgOK(u)
      <4>1. Len(Code[u.prog]) = 8
        BY <2>2, <3>6, Zenon
      <4> QED
        BY <2>1, <3>6, <3>7, <4>1 DEF ProgOK
    <3>9. Follows(r, u)
      BY <3>6, <3>8, Zenon DEF Follows, Reader
    <3> QED
      BY <1>2, <3>1, <3>9, NoChildren, SetOK, Zenon
  <2>6. CASE page \notin r.heap
    <3>1. Set(p, mapped)
      <4> HIDE DEF stored, mapped
      <4> QED
        BY <1>1, <2>3, <2>4, <2>6, SMTT(30)
    <3>2. r.heap \cup {page} \in SUBSET {3, 4}
      BY <1>a, <2>4, Zenon
    <3>3. /\ mapped \in Proc /\ mapped.prog = "heapgrow" /\ mapped.pc = r.pc
          /\ mapped.parent = r.parent /\ mapped.stack = r.stack /\ mapped.fds = NoFds
          /\ mapped.brk = 5 /\ mapped.st = r.st
      BY <1>2, <2>1, <2>3, <3>2, Zenon DEF Proc
    <3> HIDE DEF mapped
    <3>4. HeapgrowOK(mapped)
      BY <2>1, <2>3, <3>3 DEF HeapgrowOK
    <3>5. ProgOK(mapped)
      <4>1. Instr(mapped) = Instr(r)
        BY <2>1, <3>3, Zenon DEF Instr
      <4>2. Len(Code[mapped.prog]) = 8
        BY <2>2, <3>3, Zenon
      <4> QED
        BY <1>2, <2>1, <3>3, <3>4, <4>1, <4>2, Zenon DEF ProgOK
    <3>6. Follows(r, mapped)
      BY <3>3, <3>5, Zenon DEF Follows, Reader
    <3> QED
      BY <1>2, <3>1, <3>6, NoChildren, SetOK, Zenon
  <2> QED
    BY <2>5, <2>6, Zenon
<1> QED
  BY <1>2, <1>3, <1>4, Zenon

\* A process that waits goes on when its child has finished, and has then no
\* child alive.
LEMMA sys_wait_OK == ASSUME IInv, NEW p \in Pid, sys_wait(p) PROVE IInv'
<1> DEFINE r == proc[p]
           u == Returned(r, 0)
<1>1. At(p, "wait") /\ r.a0 \notin Live /\ Set(p, u)
  BY Zenon DEF sys_wait
<1>2. /\ p \in Live /\ r \in Proc /\ ProgOK(r) /\ Sites(r) /\ Instr(r).call = "wait"
  BY <1>1, AtFacts, Zenon
<1>3. \A q \in Live : proc[q].parent # p
  BY <1>1, <1>2, Zenon DEF IInv, ParentsWait
<1>4. CASE r.prog \in {"forker", "forkexec"} /\ r.pc = 2
  <2>1. Instr(r).go = NoJump /\ Len(Code[r.prog]) >= 6
    <3>1. CASE r.prog = "forker"
      BY <1>4, <3>1, Programs_, Jumps, SMTT(30) DEF Instr, Op, Jump, forker
    <3>2. CASE r.prog = "forkexec"
      BY <1>4, <3>2, Programs_, Jumps, SMTT(30) DEF Instr, Op, Jump, forkexec
    <3> QED
      BY <1>4, <3>1, <3>2, ZenonT(60)
  <2>2. NextPc(r, 0) = 3
    BY <1>4, <2>1, SMTT(30) DEF NextPc, NoJump
  <2>3. /\ u \in Proc /\ u.st = "run" /\ u.prog = r.prog /\ u.pc = 3
        /\ u.parent = r.parent /\ u.fds = r.fds
    BY <1>2, <2>2, ReturnedFacts
  <2> HIDE DEF u
  <2>4. r.fds = NoFds
    BY <1>2, <1>4, Zenon DEF ProgOK
  <2>5. ProgOK(u)
    BY <1>4, <2>1, <2>3, <2>4, Programs_, SMTT(30) DEF ProgOK
  <2>6. Follows(r, u)
    BY <1>4, <2>3, <2>5, SMTT(30) DEF Follows, Reader
  <2> QED
    BY <1>1, <1>2, <1>3, <2>6, SetOK, Zenon
<1>5. CASE r.prog = "ush" /\ r.pc = 8
  <2>1. Instr(r).go = [zero |-> 1] /\ Len(Code["ush"]) = 8
    BY <1>5, Programs_, Jumps, SMTT(30) DEF Instr, Jump, ush
  <2>2. NextPc(r, 0) = 1
    <3>1. Class(r, 0) = "zero"
      BY PageNumbers, SMTT(30) DEF Class
    <3> QED
      BY <2>1, <3>1 DEF NextPc
  <2>3. /\ u \in Proc /\ u.st = "run" /\ u.prog = "ush" /\ u.pc = 1
        /\ u.parent = r.parent /\ u.fds = r.fds
    BY <1>2, <1>5, <2>2, ReturnedFacts
  <2> HIDE DEF u
  <2>4. r.fds = NoFds
    BY <1>2, <1>5, ZenonT(60) DEF ProgOK
  <2>5. ProgOK(u)
    <3>1. Len(Code[u.prog]) = 8
      BY <2>1, <2>3, Zenon
    <3> QED
      BY <2>3, <2>4, <3>1 DEF ProgOK
  <2>6. Follows(r, u)
    BY <1>5, <2>3, <2>5 DEF Follows, Reader
  <2> QED
    BY <1>1, <1>2, <1>3, <2>6, SetOK, Zenon
<1> QED
  BY <1>2, <1>4, <1>5, Zenon DEF Sites

\* exec puts a program that does not read in the place of the caller, or, for a
\* name that ush does not know, returns.
LEMMA sys_exec_OK == ASSUME IInv, NEW p \in Pid, sys_exec(p) PROVE IInv'
<1> DEFINE r == proc[p]
           named == IF Instr(r).arg = "stack" THEN r.stack[1] ELSE Instr(r).arg
           ptr == IF Instr(r).arg = "stack" THEN Stack ELSE Text
           ok == 1 <= PATH_MAX /\ copy_from_user(Table(r), ptr, 1) /\ named \in lookup
           t == [Image(named) EXCEPT !.fds = r.fds, !.parent = r.parent]
<1>1. /\ At(p, "exec")
      /\ Set(p, IF ok THEN t ELSE Returned(r, ERR))
  BY Zenon DEF sys_exec
<1>2. /\ p \in Live /\ r \in Proc /\ ProgOK(r) /\ Sites(r) /\ Instr(r).call = "exec"
  BY <1>1, AtFacts, Zenon
<1>3. \/ r.prog = "forkexec" /\ r.pc = 5
      \/ r.prog = "ush" /\ r.pc = 4
  BY <1>2, Zenon DEF Sites
<1>4. r.fds = NoFds
  BY <1>2, <1>3, Zenon DEF ProgOK
<1>5. ASSUME named \in lookup PROVE Follows(r, t)
  <2> HIDE DEF named
  <2>1. named \in {"greeter", "uname", "heapgrow", "forker", "catfile"} /\ named \in Program
    BY <1>5, Programs_, Zenon DEF lookup
  <2>2. /\ t \in Proc /\ t.st = "run" /\ t.prog = named /\ t.pc = 1 /\ t.brk = 3
        /\ t.stack = <<>> /\ t.out = <<>> /\ t.fds = NoFds /\ t.parent = r.parent
    <3> DEFINE i == Image(named)
    <3>1. /\ i \in Proc /\ i.st = "run" /\ i.prog = named /\ i.pc = 1 /\ i.brk = 3
          /\ i.stack = <<>> /\ i.out = <<>>
      BY <2>1, Images, Zenon
    <3>2. NoFds \in [Fd -> Entry] /\ r.parent \in Nat
      BY <1>2, <1>4, Zenon DEF Proc
    <3>3. t = [i EXCEPT !.fds = NoFds, !.parent = r.parent]
      BY <1>4, Zenon
    <3> HIDE DEF i, t
    <3> QED
      BY <3>1, <3>2, <3>3, Zenon DEF Proc
  <2> HIDE DEF t
  <2>3. ProgOK(t)
    BY <2>1, <2>2, ImageFacts, Zenon
  <2> QED
    BY <2>1, <2>2, <2>3, Zenon DEF Follows, Reader
<1>6. CASE r.prog = "forkexec" /\ r.pc = 5
  <2>1. Instr(r).arg = "greeter"
    BY <1>6, Programs_, Jumps DEF Instr, Op, Jump
  <2>2. named = "greeter" /\ named \in lookup /\ ptr = Text
    BY <2>1, Zenon DEF lookup
  <2>3. ok
    <3>1. copy_from_user(Table(r), Text, 1)
      BY <1>2, UserRanges, PageNumbers
    <3> QED
      BY <2>2, <3>1, ProgramsAssumption
  <2> HIDE DEF t, ok
  <2> QED
    BY <1>1, <1>2, <1>5, <2>2, <2>3, NoChildren, SetOK, ZenonT(60)
<1>7. CASE r.prog = "ush" /\ r.pc = 4
  <2>1. Instr(r).go = NoJump /\ Len(Code["ush"]) = 8
    BY <1>7, Programs_, Jumps DEF Instr, Op, Jump, ush
  <2> DEFINE u == Returned(r, ERR)
  <2>2. NextPc(r, ERR) = 5 /\ ERR \in Nat
    BY <1>7, <2>1, PageNumbers, SMTT(30) DEF NextPc, NoJump
  <2>3. /\ u \in Proc /\ u.st = "run" /\ u.prog = "ush" /\ u.pc = 5
        /\ u.parent = r.parent /\ u.fds = NoFds
    BY <1>2, <1>4, <1>7, <2>2, ReturnedFacts, SMTT(30)
  <2> HIDE DEF u
  <2>4. ProgOK(u)
    <3>1. Len(Code[u.prog]) = 8
      BY <2>1, <2>3, Zenon
    <3> QED
      BY <2>3, <3>1 DEF ProgOK
  <2>5. Follows(r, u)
    BY <2>3, <2>4 DEF Follows, Reader
  <2>6. (Set(p, t) /\ named \in lookup) \/ Set(p, u)
    BY <1>1, Zenon DEF u
  <2> HIDE DEF t, named
  <2> QED
    BY <1>2, <1>5, <2>5, <2>6, NoChildren, SetOK, ZenonT(60)
<1> QED
  BY <1>3, <1>6, <1>7, Zenon

-----------------------------------------------------------------------------
(* New processes. *)

\* A set of natural numbers has a least element.
LEMMA Least ==
  ASSUME NEW S, S \subseteq Nat, S # {}
  PROVE  \E x \in S : \A y \in S : x <= y
<1>1. PICK x \in S : \A y \in S : <<y, x>> \notin OpToRel(<, Nat)
  BY NatLessThanWellFounded, WFMin, Zenon
<1>2. \A y \in S : ~(y < x)
  BY <1>1, Zenon DEF OpToRel
<1> QED
  BY <1>2

\* The pid of a new process is no live one, and nobody knows it.
LEMMA NewPid ==
  ASSUME Free # {}
  PROVE  /\ pid \in Pid /\ pid \notin Live /\ pid \in Nat /\ pid # 0 /\ pid # ERR
         /\ \A q \in Live : proc[q].parent # pid
<1>1. Pid \subseteq Nat /\ \A x \in Pid : x # 0 /\ x # ERR
  BY ProgramsAssumption, PageNumbers DEF Pid, ERR
<1>2. Free \subseteq Pid /\ \A x \in Free : x \notin Live /\ \A q \in Live : proc[q].parent # x
  BY Zenon DEF Free
<1>3. \E x \in Free : \A y \in Free : x <= y
  BY <1>1, <1>2, Least, Zenon
<1>4. pid \in Free
  BY <1>3, Zenon DEF pid
<1> QED
  BY <1>1, <1>2, <1>4, Zenon

\* fork: the parent goes on to wait for the new pid, the child, which gets
\* zero, to its own part.
LEMMA ForkFacts ==
  ASSUME NEW r \in Proc, ProgOK(r), Sites(r), Instr(r).call = "fork",
         NEW x \in Nat, x # 0, x # ERR, NEW p \in Nat
  PROVE  LET u == Returned(r, x)
             v == Returned([r EXCEPT !.parent = p], 0)
         IN /\ Follows(r, u) /\ u.st = "run" /\ Instr(u).call = "wait" /\ u.a0 = x
            /\ u.parent = r.parent
            /\ v \in Proc /\ v.st = "run" /\ ProgOK(v) /\ ~Reader(v) /\ v.parent = p
<1> DEFINE u == Returned(r, x)
           t == [r EXCEPT !.parent = p]
           v == Returned(t, 0)
<1>1. /\ t \in Proc /\ t.prog = r.prog /\ t.pc = r.pc /\ t.parent = p /\ t.fds = r.fds
  BY Zenon DEF Proc
<1> HIDE DEF t
<1>2. Instr(t) = Instr(r)
  BY <1>1, Zenon DEF Instr
<1>3. Class(r, x) = "pos" /\ Class(t, 0) = "zero"
  <2>1. Class(r, x) = "pos"
    BY Zenon DEF Class
  <2>2. Class(t, 0) = "zero"
    BY PageNumbers DEF Class
  <2> QED
    BY <2>1, <2>2, Zenon
<1>4. CASE r.prog \in {"forker", "forkexec"} /\ r.pc = 1
  <2>1. Instr(r).go = [zero |-> 5] /\ Len(Code[r.prog]) >= 6 /\ Code[r.prog][2].call = "wait"
    <3>1. CASE r.prog = "forker"
      BY <1>4, <3>1, Programs_, Jumps, SMTT(30) DEF Instr, Op, Jump, forker
    <3>2. CASE r.prog = "forkexec"
      BY <1>4, <3>2, Programs_, Jumps, SMTT(30) DEF Instr, Op, Jump, forkexec
    <3> QED
      BY <1>4, <3>1, <3>2, ZenonT(60)
  <2>2. NextPc(r, x) = 2 /\ NextPc(t, 0) = 5
    BY <1>1, <1>2, <1>3, <1>4, <2>1, SMTT(30) DEF NextPc
  <2>3. /\ u \in Proc /\ u.st = "run" /\ u.prog = r.prog /\ u.pc = 2 /\ u.a0 = x
        /\ u.parent = r.parent /\ u.fds = r.fds
    BY <2>2, ReturnedFacts, SMTT(30)
  <2>4. /\ v \in Proc /\ v.st = "run" /\ v.prog = r.prog /\ v.pc = 5
        /\ v.parent = p /\ v.fds = r.fds
    BY <1>1, <2>2, ReturnedFacts
  <2>5. r.fds = NoFds
    BY <1>4, ZenonT(60) DEF ProgOK
  <2> HIDE DEF u, v
  <2>6. ProgOK(u) /\ ~Reader(u) /\ Instr(u).call = "wait"
    BY <1>4, <2>1, <2>3, <2>5, SMTT(30) DEF ProgOK, Reader, Instr
  <2>7. ProgOK(v) /\ ~Reader(v)
    BY <1>4, <2>1, <2>4, <2>5 DEF ProgOK, Reader
  <2> QED
    BY <2>3, <2>4, <2>6, <2>7, Zenon DEF Follows, u, v, t
<1>5. CASE r.prog = "ush" /\ r.pc = 3
  <2>1. /\ Instr(r).go = [zero |-> 4, pos |-> 8] /\ Len(Code["ush"]) = 8
        /\ Code["ush"][8].call = "wait"
    BY <1>5, Programs_, Jumps, SMTT(30) DEF Instr, Jump, ush
  <2>2. NextPc(r, x) = 8 /\ NextPc(t, 0) = 4
    BY <1>2, <1>3, <2>1, SMTT(30) DEF NextPc
  <2>3. /\ u \in Proc /\ u.st = "run" /\ u.prog = "ush" /\ u.pc = 8 /\ u.a0 = x
        /\ u.parent = r.parent /\ u.fds = r.fds
    BY <1>5, <2>2, ReturnedFacts, SMTT(30)
  <2>4. /\ v \in Proc /\ v.st = "run" /\ v.prog = "ush" /\ v.pc = 4
        /\ v.parent = p /\ v.fds = r.fds
    BY <1>1, <1>5, <2>2, ReturnedFacts
  <2>5. r.fds = NoFds
    BY <1>5, Zenon DEF ProgOK
  <2> HIDE DEF u, v
  <2>6. ProgOK(u) /\ Instr(u).call = "wait" /\ Reader(r)
    <3>1. Len(Code[u.prog]) = 8 /\ Instr(u) = Code["ush"][8]
      BY <2>1, <2>3, Zenon DEF Instr
    <3> QED
      BY <1>5, <2>1, <2>3, <2>5, <3>1, SMTT(30) DEF ProgOK, Reader
  <2>7. ProgOK(v) /\ ~Reader(v)
    <3>1. Len(Code[v.prog]) = 8
      BY <2>1, <2>4, Zenon
    <3> QED
      BY <2>4, <2>5, <3>1 DEF ProgOK, Reader
  <2> QED
    BY <2>3, <2>4, <2>6, <2>7, ZenonT(60) DEF Follows, u, v, t
<1> QED
  BY <1>4, <1>5, Zenon DEF Sites

\* fork adds a child to a process that had none alive and now waits for it.
LEMMA fork_OK == ASSUME IInv, NEW p \in Pid, fork(p) PROVE IInv'
<1> DEFINE r == proc[p]
           u == Returned(r, pid)
           v == Returned([r EXCEPT !.parent = p], 0)
<1>1. At(p, "fork") /\ Free # {} /\ shell' = shell
  BY Zenon DEF fork
<1>2. /\ p \in Live /\ r \in Proc /\ ProgOK(r) /\ Sites(r) /\ Instr(r).call = "fork"
  BY <1>1, AtFacts, Zenon
<1>3. /\ pid \in Pid /\ pid \notin Live /\ pid \in Nat /\ pid # 0 /\ pid # ERR
      /\ \A q \in Live : proc[q].parent # pid
  BY <1>1, NewPid, Zenon
<1>4. \A q \in Live : proc[q].parent # p
  BY <1>2, NoChildren, Zenon
<1>5. p # pid /\ p \in Nat /\ proc \in [Pid -> Proc]
  BY <1>2, <1>3, ProgramsAssumption DEF Pid, IInv
<1>6. /\ Follows(r, u) /\ u.st = "run" /\ Instr(u).call = "wait" /\ u.a0 = pid
      /\ u.parent = r.parent
      /\ v \in Proc /\ v.st = "run" /\ ProgOK(v) /\ ~Reader(v) /\ v.parent = p
  BY <1>2, <1>3, <1>5, ForkFacts
<1>7. proc' = [proc EXCEPT ![p] = u, ![pid] = v]
  BY <1>5, Zenon DEF fork
<1> HIDE DEF u, v
<1>8. u \in Proc /\ ProgOK(u) /\ (Reader(u) => Reader(r))
  BY <1>6, Zenon DEF Follows
<1>9. /\ proc' \in [Pid -> Proc] /\ proc'[p] = u /\ proc'[pid] = v
      /\ \A q \in Pid : q # p /\ q # pid => proc'[q] = proc[q]
  BY <1>3, <1>5, <1>6, <1>7, <1>8, Zenon
<1>10. /\ \A q \in Live' : q # p /\ q # pid => q \in Live /\ proc'[q] = proc[q]
  BY <1>9, Zenon DEF Live
<1>11. \A q \in Live' : ProgOK(proc'[q])
  BY <1>6, <1>8, <1>9, <1>10, Zenon DEF IInv
<1>12. ParentsWait'
  <2> SUFFICES ASSUME NEW a \in Live', NEW b \in Live', proc'[b].parent = a
               PROVE  Instr(proc'[a]).call = "wait" /\ proc'[a].a0 = b
    BY Zenon DEF ParentsWait
  <2>1. CASE b = pid
    BY <1>6, <1>9, <2>1, Zenon
  <2>2. CASE b # pid
    <3>1. b \in Live /\ proc[b].parent = a
      BY <1>2, <1>6, <1>9, <1>10, <2>2, Zenon
    <3>2. a # pid /\ a # p
      BY <1>3, <1>4, <3>1, Zenon
    <3> QED
      BY <1>10, <3>1, <3>2 DEF IInv, ParentsWait
  <2> QED
    BY <2>1, <2>2, Zenon
<1>13. ReaderJoined'
  BY <1>1, <1>2, <1>6, <1>8, <1>9, <1>10, Zenon DEF IInv, ReaderJoined
<1>14. ShellOK'
  BY <1>1, Zenon DEF IInv, ShellOK
<1> QED
  BY <1>9, <1>11, <1>12, <1>13, <1>14, Zenon DEF IInv

\* The shell starts a program when no reader is alive.
LEMMA SpawnOK ==
  ASSUME IInv, shell.at = "line", NEW prog \in Program, spawn_user(prog), ShellOK',
         Reader(Image(prog)) => shell'.at = "join" /\ shell'.pid = pid
  PROVE  IInv'
<1> DEFINE t == Image(prog)
<1>1. Free # {}
  <2>1. Cardinality({}) = 0
    BY FS_EmptySet, Zenon
  <2> QED
    BY <2>1 DEF spawn_user
<1>2. /\ pid \in Pid /\ pid \notin Live /\ \A q \in Live : proc[q].parent # pid
  BY <1>1, NewPid, Zenon
<1>3. /\ t \in Proc /\ t.st = "run" /\ t.parent = 0 /\ ProgOK(t)
  BY Images, ImageFacts, Zenon
<1>4. proc' = [proc EXCEPT ![pid] = t] /\ proc \in [Pid -> Proc] /\ 0 \notin Pid
  BY ProgramsAssumption DEF spawn_user, IInv, Pid
<1> HIDE DEF t
<1>5. /\ proc' \in [Pid -> Proc] /\ proc'[pid] = t
      /\ \A q \in Live' : q # pid => q \in Live /\ proc'[q] = proc[q]
  BY <1>2, <1>3, <1>4, Zenon DEF Live
<1>6. \A q \in Live' : ProgOK(proc'[q])
  BY <1>3, <1>5, Zenon DEF IInv
<1>7. ParentsWait'
  <2> SUFFICES ASSUME NEW a \in Live', NEW b \in Live', proc'[b].parent = a
               PROVE  Instr(proc'[a]).call = "wait" /\ proc'[a].a0 = b
    BY Zenon DEF ParentsWait
  <2>1. b # pid
    BY <1>3, <1>4, <1>5, Zenon DEF Live
  <2>2. b \in Live /\ proc[b].parent = a /\ a # pid
    BY <1>2, <1>5, <2>1, Zenon
  <2> QED
    BY <1>5, <2>2 DEF IInv, ParentsWait
<1>8. ReaderJoined'
  <2>1. \A q \in Live : ~Reader(proc[q])
    BY Zenon DEF IInv, ReaderJoined
  <2> QED
    BY <1>5, <2>1, Zenon DEF ReaderJoined, t
<1> QED
  BY <1>5, <1>6, <1>7, <1>8, Zenon DEF IInv

\* A step of the shell alone keeps the invariant if readers stay joined.
LEMMA ShellStep ==
  ASSUME IInv, proc' = proc, ShellOK', shell.at # "join" \/ shell.pid \notin Live
  PROVE  IInv'
<1>1. Live' = Live
  BY Zenon DEF Live
<1>2. \A q \in Live : ~Reader(proc[q])
  BY Zenon DEF IInv, ReaderJoined
<1> QED
  BY <1>1, <1>2 DEF IInv, ParentsWait, ReaderJoined

\* Nothing of a file is the beginning of it.
LEMMA NothingRead == ASSUME NEW file \in Name PROVE IsPrefix_(<<>>, file)
BY RamfsAssumption DEF IsPrefix_

\* The commands of the shell: what reads is joined.
LEMMA run_command_OK == ASSUME IInv, NEW cmd, run_command(cmd) PROVE IInv'
<1>1. shell.at = "line" /\ ShellOK /\ shell.out = <<>>
  BY Zenon DEF run_command, IInv, ShellOK
<1>2. CASE run_joined(cmd)
  <2>1. /\ cmd \in DOMAIN Joined /\ spawn_user(Joined[cmd])
        /\ shell' = [shell EXCEPT !.at = "join", !.pid = pid]
    BY <1>2, Zenon DEF run_joined
  <2>2. Joined[cmd] \in Program
    BY <2>1, Programs_ DEF Joined
  <2>3. pid \in Nat
    <3>1. Free # {}
      <4>1. Cardinality({}) = 0
        BY FS_EmptySet, Zenon
      <4> QED
        BY <2>1, <4>1 DEF spawn_user
    <3> QED
      BY <3>1, NewPid, Zenon
  <2>4. ShellOK' /\ shell'.at = "join" /\ shell'.pid = pid
    BY <1>1, <2>1, <2>3, Zenon DEF ShellOK
  <2> QED
    BY <1>1, <2>1, <2>2, <2>4, SpawnOK, Zenon
<1>3. CASE cmd \in DOMAIN Started /\ spawn_user(Started[cmd]) /\ UNCHANGED shell
  <2>1. Started[cmd] \in {"greeter", "trespasser"} /\ Started[cmd] \in Program
    BY <1>3, Programs_ DEF Started
  <2>2. ~Reader(Image(Started[cmd]))
    BY <2>1, Images, Zenon DEF Reader
  <2>3. ShellOK'
    BY <1>1, <1>3, Zenon DEF ShellOK
  <2> QED
    BY <1>1, <1>3, <2>1, <2>2, <2>3, SpawnOK, Zenon
<1>4. CASE /\ cmd \in Name
           /\ shell' = [shell EXCEPT !.at = "cat", !.file = cmd, !.out = <<>>]
           /\ UNCHANGED proc
  <2>1. IsPrefix_(<<>>, cmd)
    BY <1>4, NothingRead, Zenon
  <2>2. ShellOK'
    BY <1>1, <1>4, <2>1, Zenon DEF ShellOK
  <2> QED
    BY <1>1, <1>4, <2>2, ShellStep, Zenon
<1>5. CASE /\ shell' \in {[shell EXCEPT !.at = at] : at \in {"off", "parked"}}
           /\ UNCHANGED proc
  <2>1. ShellOK'
    BY <1>1, <1>5, Zenon DEF ShellOK
  <2> QED
    BY <1>1, <1>5, <2>1, ShellStep, Zenon
<1> QED
  BY <1>2, <1>3, <1>4, <1>5, Zenon DEF run_command

\* The shell goes on: after boot, after a join, and from part to part of a file.
LEMMA shell_main_OK == ASSUME IInv, shell_main PROVE IInv'
<1>1. ShellOK
  BY Zenon DEF IInv
<1>2. CASE init
  <2>1. ShellOK' /\ shell.at # "join" /\ proc' = proc
    BY <1>1, <1>2, Zenon DEF init, ShellOK
  <2> QED
    BY <2>1, ShellStep, Zenon
<1>3. CASE join
  <2>1. ShellOK' /\ shell.pid \notin Live /\ proc' = proc
    BY <1>1, <1>3, Zenon DEF join, ShellOK
  <2> QED
    BY <2>1, ShellStep, Zenon
<1>4. CASE cat
  <2> DEFINE buf == read_at(shell.file, Len(shell.out), Chunk)
  <2>1. /\ shell.at = "cat" /\ proc' = proc
        /\ shell' = IF buf = <<>>
                    THEN [shell EXCEPT !.at = "line", !.file = "closed", !.out = <<>>]
                    ELSE [shell EXCEPT !.out = @ \o buf]
    BY <1>4, Zenon DEF cat
  <2>2. shell.file \in Name /\ IsPrefix_(shell.out, shell.file)
    BY <1>1, <2>1, Zenon DEF ShellOK
  <2>3. Chunk \in Nat \ {0}
    BY ProgramsAssumption, PageNumbers
  <2>4. IsPrefix_(shell.out \o buf, shell.file)
    BY <2>2, <2>3, ReadAt, Zenon
  <2> HIDE DEF buf
  <2>5. shell.out \o buf \in Seq(Nat)
    BY <2>4, Zenon DEF IsPrefix_
  <2>6. ShellOK'
    <3>1. CASE buf = <<>>
      <4>1. shell' = [shell EXCEPT !.at = "line", !.file = "closed", !.out = <<>>]
        BY <2>1, <3>1, Zenon
      <4>2. <<>> \in Seq(Nat)
        OBVIOUS
      <4>3. /\ shell' \in [at : {"boot", "line", "join", "cat", "off", "parked"}, pid : Nat,
                           file : Name \cup {"closed"}, out : Seq(Nat)]
            /\ shell'.at = "line" /\ shell'.out = <<>>
        BY <1>1, <4>1, <4>2, Zenon DEF ShellOK
      <4> QED
        BY <4>3, Zenon DEF ShellOK
    <3>2. CASE buf # <<>>
      BY <1>1, <2>1, <2>2, <2>4, <2>5, <3>2, Zenon DEF ShellOK
    <3> QED
      BY <3>1, <3>2, Zenon
  <2> QED
    BY <2>1, <2>6, ShellStep, Zenon
<1> QED
  BY <1>2, <1>3, <1>4, Zenon DEF shell_main

-----------------------------------------------------------------------------
(* The results. *)

\* kmain has started the programs of boot, none of which reads.
LEMMA InitOK == Init => IInv
<1> SUFFICES ASSUME Init PROVE IInv
  OBVIOUS
<1>1. /\ Len(Boot) \in Nat /\ MaxPid \in Nat
      /\ \A p \in 1..Len(Boot) : Boot[p] \in Program /\ Boot[p] \notin {"echoline", "ush"}
  BY ProgramsAssumption, SMTT(30)
<1>2. \A p \in Pid : /\ p <= Len(Boot) => p \in 1..Len(Boot) /\ proc[p] = Image(Boot[p])
                     /\ ~(p <= Len(Boot)) => proc[p] = Dead
  BY <1>1 DEF Init, Pid
<1>3. \A p \in Pid : /\ proc[p] \in Proc
                     /\ proc[p].st # "none" => /\ ProgOK(proc[p]) /\ proc[p].parent = 0
                                               /\ ~Reader(proc[p])
  <2> SUFFICES ASSUME NEW p \in Pid
               PROVE  /\ proc[p] \in Proc
                      /\ proc[p].st # "none" => /\ ProgOK(proc[p]) /\ proc[p].parent = 0
                                                /\ ~Reader(proc[p])
    OBVIOUS
  <2>1. CASE p <= Len(Boot)
    <3> DEFINE t == Image(Boot[p])
    <3>1. Boot[p] \in Program /\ Boot[p] \notin {"echoline", "ush"} /\ proc[p] = t
      BY <1>1, <1>2, <2>1, Zenon
    <3>2. t \in Proc /\ t.prog = Boot[p] /\ t.parent = 0 /\ ProgOK(t)
      BY <3>1, Images, ImageFacts, Zenon
    <3> HIDE DEF t
    <3> QED
      BY <3>1, <3>2, Zenon DEF Reader
  <2>2. CASE ~(p <= Len(Boot))
    BY <1>2, <2>2, DeadFollows, Zenon
  <2> QED
    BY <2>1, <2>2, Zenon
<1>4. proc \in [Pid -> Proc]
  BY <1>3, Zenon DEF Init
<1>5. 0 \notin Pid
  BY <1>1 DEF Pid
<1>6. ParentsWait
  BY <1>3, <1>5, Zenon DEF ParentsWait, Live
<1>7. ReaderJoined
  BY <1>3, Zenon DEF ReaderJoined, Live
<1>8. ShellOK
  BY DEF Init, ShellOK
<1> QED
  BY <1>3, <1>4, <1>6, <1>7, <1>8, Zenon DEF IInv, Live

\* Every step of a program and of the shell keeps the invariant.
THEOREM Invariant == Spec => []IInv
<1>1. IInv /\ [Next]_vars => IInv'
  <2> SUFFICES ASSUME IInv, [Next]_vars PROVE IInv'
    OBVIOUS
  <2>1. ASSUME NEW p \in Pid, dispatch(p) PROVE IInv'
    BY <2>1, PlainCalls, exit_OK, sys_read_OK, sys_write_OK, sys_open_OK, sys_fread_OK,
       sbrk_OK, sys_wait_OK, sys_exec_OK, fork_OK, SMTT(30) DEF dispatch
  <2>2. ASSUME NEW p \in Pid, kerneltrap(p) PROVE IInv'
    BY <2>1, <2>2, PlainCalls, page_fault_OK, Zenon DEF kerneltrap
  <2>3. ASSUME NEW p \in Pid, NEW line \in Line, sys_read_return(p, line) PROVE IInv'
    BY <2>3, sys_read_return_OK, ZenonT(60)
  <2>4. CASE UNCHANGED vars
    BY <2>4 DEF vars, IInv, ParentsWait, ReaderJoined, ShellOK, Live
  <2> QED
    BY <2>2, <2>3, <2>4, shell_main_OK, run_command_OK, Zenon DEF Next
<1> QED
  BY <1>1, InitOK, PTL DEF Spec

\* The console has one reader at a time, shell or program, whatever is started
\* and typed, and for any number of processes: echoline and ush read, they are
\* started by the shell alone, which joins them, and what ush starts is never
\* one of them.
THEOREM ProgramsOneReader == Spec => []OneReader
<1>1. IInv => OneReader
  <2> SUFFICES ASSUME IInv PROVE OneReader
    OBVIOUS
  <2> DEFINE S == {p \in Pid : proc[p].st = "read"}
  <2>1. ASSUME NEW p \in S PROVE shell.at = "join" /\ shell.pid = p
    <3>1. p \in Live /\ proc[p] \in Proc /\ ProgOK(proc[p]) /\ proc[p].st = "read"
      BY <2>1, Zenon DEF IInv, Live
    <3>2. /\ proc[p].prog \in Program /\ proc[p].pc \in 1..Len(Code[proc[p].prog])
          /\ Instr(proc[p]).call = "read"
      BY <3>1, Zenon DEF ProgOK, Proc
    <3>3. proc[p].prog \in {"echoline", "ush"} /\ proc[p].pc = 2
      BY <3>2, CallSites, Zenon DEF Sites
    <3>4. Reader(proc[p])
      BY <3>3, SMTT(30) DEF Reader
    <3> QED
      BY <3>1, <3>4, Zenon DEF IInv, ReaderJoined
  <2> HIDE DEF S
  <2>2. CASE S = {}
    <3>1. Cardinality(S) = 0
      BY <2>2, FS_EmptySet, Zenon
    <3> QED
      BY <3>1 DEF OneReader, S
  <2>3. CASE S # {}
    <3>1. S = {shell.pid} /\ shell.at # "line"
      BY <2>1, <2>3, Zenon
    <3>2. Cardinality(S) = 1
      BY <3>1, FS_Singleton, Zenon
    <3> QED
      BY <3>1, <3>2 DEF OneReader, S
  <2> QED
    BY <2>2, <2>3, Zenon
<1> QED
  BY <1>1, Invariant, PTL

\* The demo programs show what they are there to show, whatever runs beside
\* them: no test fails, the trespasser dies at its load, a file is printed as
\* it is, both demand-paged pages are read back, and a parent speaks after its
\* child.
THEOREM ProgramsSelfTestsPass == Spec => []SelfTestsPass
<1>1. IInv => SelfTestsPass
  <2> SUFFICES ASSUME IInv PROVE SelfTestsPass
    OBVIOUS
  <2>1. ASSUME NEW p \in Live
        PROVE  /\ ~Says(p, "FAILED")
               /\ ~(proc[p].prog = "trespasser" /\ proc[p].pc > 2)
               /\ At(p, "close") => proc[p].out = data["motd"]
               /\ Says(p, "demand-paged") => proc[p].stack = <<3, 4>>
               /\ Says(p, "parent") => \A q \in Live : proc[q].parent # p
    <3> DEFINE r == proc[p]
    <3>1. r \in Proc /\ ProgOK(r) /\ r.prog \in Program /\ r.pc \in Nat
      BY Zenon DEF IInv, Live, Proc
    <3>2. Sites(r)
      BY <3>1, CallSites, Zenon DEF ProgOK
    <3>3. \A text : Says(p, text) => Instr(r).call = "write" /\ Instr(r).arg = text
      BY DEF Says, Write, Op, Jump
    <3>4. ~Says(p, "FAILED")
      <4>1. /\ r.prog = "badsys" => r.pc <= 6
            /\ r.prog = "heapgrow" => r.pc <= 6
            /\ r.prog = "catfile" => r.pc <= 5
            /\ r.prog = "forkexec" => r.pc <= 5
        BY <3>1, ZenonT(60) DEF ProgOK, CatfileOK, HeapgrowOK
      <4>2. Instr(r).arg = "FAILED" =>
              \/ r.prog \in {"badsys", "heapgrow"} /\ r.pc = 7
              \/ r.prog \in {"catfile", "forkexec"} /\ r.pc = 6
        BY <3>2, Zenon DEF Sites
      <4>3. Instr(r).arg # "FAILED"
        BY <3>1, <4>1, <4>2, SMTT(30)
      <4> QED
        BY <3>3, <4>3, Zenon
    <3>5. ~(r.prog = "trespasser" /\ r.pc > 2)
      BY <3>1 DEF ProgOK
    <3>6. At(p, "close") => r.out = data["motd"]
      BY <3>1, <3>2, Zenon DEF At, Sites, ProgOK, CatfileOK
    <3>7. Says(p, "demand-paged") => r.stack = <<3, 4>>
      BY <3>1, <3>2, <3>3, Zenon DEF Sites, ProgOK, HeapgrowOK
    <3>8. Says(p, "parent") => \A q \in Live : proc[q].parent # p
      BY <3>3, NoChildren, Zenon
    <3> QED
      BY <3>4, <3>5, <3>6, <3>7, <3>8, Zenon
  <2>2. shell.out # <<>> => shell.out = SubSeq(data[shell.file], 1, Len(shell.out))
    BY Zenon DEF IInv, ShellOK, IsPrefix_
  <2> QED
    BY <2>1, <2>2, Zenon DEF SelfTestsPass
<1> QED
  BY <1>1, Invariant, PTL

=============================================================================
