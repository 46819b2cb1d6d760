------------------------------- MODULE Sched -------------------------------
(***************************************************************************)
(* The processor core of the kernel: one hart, its interrupt-enable bit,   *)
(* push_off/pop_off (spinlock.rs), trap entry and exit (kernelvec.S,       *)
(* trap.rs), the context switch and the thread table (proc.rs), and the    *)
(* blocking calls built directly on them: join (proc.rs) and sleep_ticks   *)
(* (timer.rs).                                                             *)
(*                                                                         *)
(* There is no lock around the thread table: "single hart + interrupts-off *)
(* is the lock".  The model does not assume that; a timer interrupt may be *)
(* taken between any two steps at which the hart would take it (U-mode, or *)
(* S-mode with SIE = 1), and every push_off is two steps, because an       *)
(* interrupt may arrive between reading SIE and clearing it.               *)
(*                                                                         *)
(* A context is the scheduler loop (Boot, on the boot stack) or a thread,  *)
(* named by its pid.  Its kernel stack is a stack of activation frames:    *)
(* the code it runs, and one more per trap taken on top of it.  A frame's  *)
(* `op' is the kernel function it is in and `at' the place in it:          *)
(*   read  about to read SIE in push_off      off   about to clear SIE     *)
(*   body  inside the push_off'd section      back  returned from swtch    *)
(* The other places are named where they occur.                            *)
(***************************************************************************)
EXTENDS Integers, Sequences

CONSTANTS
  MaxPid,     \* pids are 1..MaxPid (NEXT_PID stops there)
  NBoot,      \* threads kmain has spawned when it enters scheduler()
  User,       \* the pids that are user processes; the rest are kernel threads
  Ops,        \* the calls that threads and user processes make
  MaxNap,     \* the longest sleep, in ticks
  MaxDepth    \* activation frames that fit on one kernel stack

Pid == 1..MaxPid
Boot == 0
Ctx == 0..MaxPid
None == 0            \* an empty slot; `current' when no thread runs
KernelRoot == 0      \* the kernel's own page table
AllOps == {"yield", "join", "nap", "spawn", "exec", "exit", "nop"}

ASSUME ConstantsAssumption ==
  /\ MaxPid \in Nat /\ NBoot \in 1..MaxPid
  /\ User \subseteq Pid
  /\ Ops \subseteq AllOps
  /\ MaxNap \in Nat /\ MaxDepth \in Nat /\ MaxDepth >= 2

VARIABLES
  SIE, NOFF, INTENA,        \* sstatus.SIE; spinlock.rs: depth, saved intent
  mode, sscratch, satp,     \* privilege, trap-stack owner, active page table
  on,                       \* the context whose registers the hart has
  procs, current, next_slot, NEXT_PID,   \* struct Scheduler and NEXT_PID
  state,                    \* Process.state; Sleeping(c) is written c
  remaining,                \* ticks left until a sleep_ticks target
  depth, frame              \* the kernel stacks

intr == <<SIE, NOFF, INTENA>>
hart == <<mode, sscratch, satp, on>>
table == <<procs, current, next_slot, state>>
stacks == <<depth, frame>>
vars == <<intr, hart, table, NEXT_PID, remaining, stacks>>

Bit == {0, 1}
Chan == {"EXIT_CHAN", "TICK_CHAN"}
State == {"None", "Runnable", "Running", "Zombie"} \cup Chan
Kind == {"sched", "thread", "timer", "syscall"}
Op == AllOps \cup {"run", "scan", "entry", "load", "tick", "wake", "preempt"}
At == {"none", "loop", "read", "off", "body", "back", "wfi0", "wfi", "fresh",
       "idle", "while", "go", "ret", "enter", "arm", "sret"}
Frame == [kind : Kind, op : Op, at : At, old : Bit, sav : Bit,
          arg : 0..MaxPid, spie : Bit, spp : {"U", "S"}]

NoFrame == [kind |-> "thread", op |-> "run", at |-> "none", old |-> 0,
            sav |-> 0, arg |-> 0, spie |-> 0, spp |-> "S"]
NoStack == [d \in 1..MaxDepth |-> NoFrame]
OneFrame(f) == [NoStack EXCEPT ![1] = f]

\* spawn_with's forged context: the first swtch "returns" to thread_entry.
Forged == [NoFrame EXCEPT !.at = "fresh"]

----------------------------------------------------------------------------
(* The executing frame.                                                    *)

Top == frame[on][depth[on]]

Put(f) ==
  /\ frame' = [frame EXCEPT ![on][depth[on]] = f]
  /\ UNCHANGED depth

Goto(place) == Put([Top EXCEPT !.at = place])

\* The hart executes kernel code of the running context at `place'.
At_(place) == mode = "S" /\ Top.at = place
In(op, place) == At_(place) /\ Top.op = op

\* A call returns: a thread's body goes on, a trap handler goes to its sret.
Done(f) == [f EXCEPT !.op = "run", !.old = 0, !.sav = 0, !.arg = 0,
                     !.at = IF f.kind = "thread" THEN "idle" ELSE "ret"]

Then(f, op) == [f EXCEPT !.op = op, !.at = "read"]

----------------------------------------------------------------------------
(* push_off and pop_off.                                                   *)

push_off_read ==
  /\ At_("read")
  /\ Put([Top EXCEPT !.at = "off", !.old = SIE])
  /\ UNCHANGED <<intr, hart, table, NEXT_PID, remaining>>

\* Mutant: push_off that does not clear SIE.
push_off_open ==
  /\ At_("off")
  /\ INTENA' = IF NOFF = 0 THEN Top.old ELSE INTENA
  /\ NOFF' = NOFF + 1
  /\ Goto("body")
  /\ UNCHANGED <<SIE, hart, table, NEXT_PID, remaining>>

push_off ==
  /\ At_("off")
  /\ SIE' = 0
  /\ INTENA' = IF NOFF = 0 THEN Top.old ELSE INTENA
  /\ NOFF' = NOFF + 1
  /\ Goto("body")
  /\ UNCHANGED <<hart, table, NEXT_PID, remaining>>

\* `intena' is the value INTENA has when pop_off runs.
pop_off(intena) ==
  /\ NOFF' = NOFF - 1
  /\ SIE' = IF NOFF = 1 /\ intena = 1 THEN 1 ELSE SIE

----------------------------------------------------------------------------
(* Context switch: sched() on the way out, its tail on the way back.       *)

cur == procs[current]

\* sched(): remember INTENA on this stack and swtch to the scheduler loop.
sched ==
  /\ Put([Top EXCEPT !.at = "back", !.sav = INTENA])
  /\ on' = Boot
  /\ UNCHANGED <<intr, mode, sscratch, satp>>

\* Mutant: sched() without set_intena after the swtch.
sched_return_shared_intena ==
  /\ At_("back") /\ Top.op \in {"yield", "join", "nap"}
  /\ pop_off(INTENA)
  /\ CASE Top.op = "yield" -> Put(Done(Top))
       [] Top.op = "join"  -> Put(Then(Top, "join"))
       [] Top.op = "nap"   -> Goto("while")
  /\ UNCHANGED <<INTENA, hart, table, NEXT_PID, remaining>>

\* Resumed after sched(): set_intena, then the caller's pop_off.  yield_now
\* returns, join re-checks under a new push_off, sleep_ticks re-checks its
\* `while' first.  exit never comes back ("zombie thread rescheduled").
sched_return ==
  /\ At_("back") /\ Top.op \in {"yield", "join", "nap"}
  /\ INTENA' = Top.sav
  /\ pop_off(Top.sav)
  /\ CASE Top.op = "yield" -> Put(Done(Top))
       [] Top.op = "join"  -> Put(Then(Top, "join"))
       [] Top.op = "nap"   -> Goto("while")
  /\ UNCHANGED <<hart, table, NEXT_PID, remaining>>

\* A section that only reads: release it and continue with frame f.
Leave(f) ==
  /\ pop_off(INTENA)
  /\ Put(f)
  /\ UNCHANGED <<INTENA, hart, table, NEXT_PID, remaining>>

----------------------------------------------------------------------------
(* The push_off'd sections of proc.rs and timer.rs.                        *)

yield_now ==
  /\ In("yield", "body") /\ current # None
  /\ state' = [state EXCEPT ![cur] = "Runnable"]
  /\ sched
  /\ UNCHANGED <<procs, current, next_slot, NEXT_PID, remaining>>

woken(s, chan) == [p \in Pid |-> IF s[p] = chan THEN "Runnable" ELSE s[p]]

\* Mutant: exit without wakeup(EXIT_CHAN).
exit_silent ==
  /\ In("exit", "body") /\ current # None
  /\ state' = [state EXCEPT ![cur] = "Zombie"]
  /\ sched
  /\ UNCHANGED <<procs, current, next_slot, NEXT_PID, remaining>>

\* wakeup nests its own push_off/pop_off inside exit's, with no net effect.
exit ==
  /\ In("exit", "body") /\ current # None
  /\ state' = woken([state EXCEPT ![cur] = "Zombie"], "EXIT_CHAN")
  /\ sched
  /\ UNCHANGED <<procs, current, next_slot, NEXT_PID, remaining>>

sleep(chan) ==
  /\ current # None
  /\ state' = [state EXCEPT ![cur] = chan]
  /\ sched
  /\ UNCHANGED <<procs, current, next_slot, NEXT_PID, remaining>>

still_running(pid) ==
  \E i \in DOMAIN procs :
    procs[i] # None /\ procs[i] = pid /\ state[procs[i]] # "Zombie"

join ==
  /\ In("join", "body")
  /\ \/ ~still_running(Top.arg) /\ Leave(Done(Top))
     \/ still_running(Top.arg) /\ sleep("EXIT_CHAN")

\* `while ticks() < target', evaluated outside the section.
sleep_ticks_while ==
  /\ In("nap", "while")
  /\ Put(IF remaining[on] > 0 THEN Then(Top, "nap") ELSE Done(Top))
  /\ UNCHANGED <<intr, hart, table, NEXT_PID, remaining>>

sleep_ticks ==
  /\ In("nap", "body")
  /\ \/ remaining[on] > 0 /\ sleep("TICK_CHAN")
     \/ remaining[on] = 0 /\ Leave([Top EXCEPT !.at = "while"])

\* spawn_with: the first free slot, else a new one at the end.
Free == {i \in DOMAIN procs : procs[i] = None}

publish(pid) ==
  \/ \E i \in Free : (\A j \in Free : i <= j) /\ procs' = [procs EXCEPT ![i] = pid]
  \/ Free = {} /\ procs' = Append(procs, pid)

spawn_with ==
  /\ In("spawn", "body")
  /\ publish(Top.arg)
  /\ state' = [state EXCEPT ![Top.arg] = "Runnable"]
  /\ frame' = [frame EXCEPT ![Top.arg] = OneFrame(Forged),
                            ![on][depth[on]] = Done(Top)]
  /\ depth' = [depth EXCEPT ![Top.arg] = 1]
  /\ pop_off(INTENA)
  /\ UNCHANGED <<INTENA, hart, current, next_slot, NEXT_PID, remaining>>

----------------------------------------------------------------------------
(* A thread's first steps, and the drop to U-mode.                         *)

\* thread_entry releases the push_off level it was dispatched with.
thread_entry ==
  /\ At_("fresh")
  /\ NOFF' = NOFF - 1
  /\ SIE' = 1
  /\ Put(Then(Top, "entry"))
  /\ UNCHANGED <<INTENA, hart, table, NEXT_PID, remaining>>

\* The section that reads current's `entry'; then the body starts: a kernel
\* thread's own code, or user_thread_body / forkret_body.
thread_entry_lookup ==
  /\ In("entry", "body") /\ current # None /\ cur # None
  /\ Leave(IF cur \in User THEN Then(Top, "load") ELSE Done(Top))

\* with_current in user_thread_body, forkret_body and exec.
user_load ==
  /\ In("load", "body") /\ current # None
  /\ Leave([Top EXCEPT !.op = "run", !.old = 0, !.at = "enter"])

exec ==
  /\ In("exec", "body") /\ current # None
  /\ Leave([Top EXCEPT !.op = "run", !.old = 0, !.at = "enter"])

\* Mutant: enter_user without intr_off.
enter_user_intr_on ==
  /\ At_("enter")
  /\ Goto("arm")
  /\ UNCHANGED <<intr, hart, table, NEXT_PID, remaining>>

enter_user_intr_off ==
  /\ At_("enter")
  /\ SIE' = 0
  /\ Goto("arm")
  /\ UNCHANGED <<NOFF, INTENA, hart, table, NEXT_PID, remaining>>

enter_user_arm ==
  /\ At_("arm")
  /\ sscratch' = on
  /\ Goto("sret")
  /\ UNCHANGED <<intr, mode, satp, on, table, NEXT_PID, remaining>>

\* sret with SPP = U and SPIE = 1; the kernel stack is abandoned.
enter_user_sret ==
  /\ At_("sret")
  /\ mode' = "U" /\ SIE' = 1
  /\ depth' = [depth EXCEPT ![on] = 0]
  /\ frame' = [frame EXCEPT ![on] = NoStack]
  /\ UNCHANGED <<NOFF, INTENA, sscratch, satp, on, table, NEXT_PID, remaining>>

----------------------------------------------------------------------------
(* The scheduler loop, on the boot stack.                                  *)

scheduler_intr_on ==
  /\ At_("loop")
  /\ SIE' = 1
  /\ Goto("read")
  /\ UNCHANGED <<NOFF, INTENA, hart, table, NEXT_PID, remaining>>

Zombies == {p \in Pid : state[p] = "Zombie"}
reaped == [i \in DOMAIN procs |-> IF procs[i] \in Zombies THEN None ELSE procs[i]]

\* The i-th slot of the round-robin scan.
idx(i) == ((next_slot + i) % Len(procs)) + 1
RunnableAt(i) == procs[i] # None /\ state[procs[i]] = "Runnable"

\* Mutant: a scan that starts at the first slot instead of next_slot.
picked_from_zero(slot) ==
  RunnableAt(slot) /\ \A j \in 1..slot - 1 : ~RunnableAt(j)

picked(slot) ==
  \E i \in 0..Len(procs) - 1 :
    /\ slot = idx(i) /\ RunnableAt(slot)
    /\ \A j \in 0..i - 1 : ~RunnableAt(idx(j))

\* Reaping frees the zombies' kernel stacks and page tables.
reap(s) == [p \in Pid |-> IF p \in Zombies THEN "None" ELSE s[p]]
freed(c) == c \in Zombies

scheduler_run(slot) ==
  /\ In("scan", "body") /\ picked(slot)
  /\ procs' = reaped
  /\ next_slot' = slot
  /\ current' = slot
  /\ state' = reap([state EXCEPT ![procs[slot]] = "Running"])
  /\ satp' = IF procs[slot] \in User THEN procs[slot] ELSE KernelRoot
  /\ on' = procs[slot]
  /\ depth' = [c \in Ctx |-> IF freed(c) THEN 0 ELSE depth[c]]
  /\ frame' = [c \in Ctx |->
                IF freed(c) THEN NoStack
                ELSE IF c = Boot
                     THEN [frame[c] EXCEPT ![depth[c]].at = "back"]
                     ELSE frame[c]]
  /\ UNCHANGED <<intr, mode, sscratch, NEXT_PID, remaining>>

\* Mutant: the loop keeps the thread's page table.
scheduler_return_keeps_satp ==
  /\ In("scan", "back")
  /\ current' = None
  /\ pop_off(INTENA)
  /\ Goto("loop")
  /\ UNCHANGED <<INTENA, mode, sscratch, satp, on, procs, next_slot, state,
                 NEXT_PID, remaining>>

\* Mutant: the loop leaves `current' set.
scheduler_return_keeps_current ==
  /\ In("scan", "back")
  /\ satp' = KernelRoot
  /\ pop_off(INTENA)
  /\ Goto("loop")
  /\ UNCHANGED <<INTENA, mode, sscratch, on, table, NEXT_PID, remaining>>

\* Back in the loop: satp to the kernel table, current = None, pop_off.
scheduler_return ==
  /\ In("scan", "back")
  /\ satp' = KernelRoot
  /\ current' = None
  /\ pop_off(INTENA)
  /\ Goto("loop")
  /\ UNCHANGED <<INTENA, mode, sscratch, on, procs, next_slot, state,
                 NEXT_PID, remaining>>

\* Nothing runnable: pop_off, intr_on, then wfi.
scheduler_idle ==
  /\ In("scan", "body") /\ \A i \in DOMAIN procs : ~RunnableAt(i)
  /\ procs' = reaped
  /\ state' = reap(state)
  /\ NOFF' = NOFF - 1
  /\ SIE' = 1
  /\ depth' = [c \in Ctx |-> IF freed(c) THEN 0 ELSE depth[c]]
  /\ frame' = [c \in Ctx |->
                IF freed(c) THEN NoStack
                ELSE IF c = Boot
                     THEN [frame[c] EXCEPT ![depth[c]].at = "wfi0"]
                     ELSE frame[c]]
  /\ UNCHANGED <<INTENA, hart, current, next_slot, NEXT_PID, remaining>>

wfi ==
  /\ At_("wfi0")
  /\ Goto("wfi")
  /\ UNCHANGED <<intr, hart, table, NEXT_PID, remaining>>

----------------------------------------------------------------------------
(* Traps.                                                                  *)

\* Hardware trap entry and kernelvec's save path.  sscratch # 0 means "from
\* U-mode": the frame goes to the top of that kernel stack; otherwise it goes
\* below whatever the interrupted kernel code has on its own stack.
kernelvec(f) ==
  /\ SIE' = 0 /\ mode' = "S" /\ sscratch' = 0
  /\ IF sscratch # 0
       THEN /\ depth' = [depth EXCEPT ![sscratch] = 1]
            /\ frame' = [frame EXCEPT ![sscratch] = OneFrame(f)]
       ELSE /\ depth[on] < MaxDepth
            /\ depth' = [depth EXCEPT ![on] = @ + 1]
            /\ frame' = [frame EXCEPT
                 ![on] = [d \in 1..MaxDepth |->
                    IF d = depth[on] + 1 THEN f
                    ELSE IF d = depth[on] /\ frame[on][d].at = "wfi"
                         THEN [frame[on][d] EXCEPT !.at = "loop"]
                         ELSE frame[on][d]]]
  /\ UNCHANGED <<NOFF, INTENA, satp, on>>

TrapFrame(kind, op, place) ==
  [NoFrame EXCEPT !.kind = kind, !.op = op, !.at = place,
                  !.spie = SIE, !.spp = mode]

\* The timer interrupt: taken in U-mode, or in S-mode when SIE is set.
timer_interrupt ==
  /\ mode = "U" \/ SIE = 1
  /\ kernelvec(TrapFrame("timer", "tick", "go"))
  /\ UNCHANGED <<table, NEXT_PID, remaining>>

\* kernelvec's restore path: re-arm sscratch when returning to U-mode; sret.
kernelvec_return ==
  /\ At_("ret")
  /\ SIE' = Top.spie /\ mode' = Top.spp
  /\ sscratch' = IF Top.spp = "U" THEN on ELSE sscratch
  /\ depth' = [depth EXCEPT ![on] = @ - 1]
  /\ frame' = [frame EXCEPT ![on][depth[on]] = NoFrame]
  /\ UNCHANGED <<NOFF, INTENA, satp, on, table, NEXT_PID, remaining>>

\* kerneltrap, timer arm: on_tick, wakeup(TICK_CHAN), on_tick_preempt.
on_tick ==
  /\ In("tick", "go")
  /\ remaining' = [p \in Pid |-> IF remaining[p] > 0 THEN remaining[p] - 1 ELSE 0]
  /\ Put(Then(Top, "wake"))
  /\ UNCHANGED <<intr, hart, table, NEXT_PID>>

\* Mutant: a tick that wakes nobody.
wakeup_nobody ==
  /\ In("wake", "body")
  /\ pop_off(INTENA)
  /\ Put(Then(Top, "preempt"))
  /\ UNCHANGED <<INTENA, hart, table, NEXT_PID, remaining>>

wakeup ==
  /\ In("wake", "body")
  /\ state' = woken(state, "TICK_CHAN")
  /\ pop_off(INTENA)
  /\ Put(Then(Top, "preempt"))
  /\ UNCHANGED <<INTENA, hart, procs, current, next_slot, NEXT_PID, remaining>>

should_yield == current # None /\ state[cur] = "Running"

\* Mutant: a tick that never preempts.
on_tick_preempt_never == In("preempt", "body") /\ Leave(Done(Top))

on_tick_preempt ==
  /\ In("preempt", "body")
  /\ Leave(IF should_yield THEN Then(Top, "yield") ELSE Done(Top))

----------------------------------------------------------------------------
(* What threads and user processes ask for.                                *)

\* A call with its argument: the pid to join, the pid spawn_with takes from
\* NEXT_PID before its section, or the number of ticks to sleep.
Request(op, arg, naps) ==
  /\ op \in Ops
  /\ arg \in (CASE op = "join" -> Pid
                [] op = "spawn" -> {NEXT_PID} \cap Pid
                [] OTHER -> {0})
  /\ NEXT_PID' = IF op = "spawn" THEN NEXT_PID + 1 ELSE NEXT_PID
  /\ IF op = "nap" THEN \E n \in naps : remaining' = [remaining EXCEPT ![on] = n]
                   ELSE UNCHANGED remaining

Start(op) == CASE op = "nap" -> "while" [] op = "nop" -> "ret" [] OTHER -> "read"

\* A kernel thread's body calls into proc.rs or timer.rs; returning from the
\* body is the call to exit.
thread_call(op, arg) ==
  /\ At_("idle") /\ op \notin {"nop", "exec"}
  /\ Request(op, arg, 0..MaxNap)
  /\ Put([Top EXCEPT !.op = op, !.at = Start(op), !.arg = arg])
  /\ UNCHANGED <<intr, hart, table>>

\* An ecall (or a fault that ends in exit, or a breakpoint that returns).
dispatch(op, arg) ==
  /\ mode = "U"
  /\ op = "spawn" => arg \in User     \* fork
  /\ Request(op, arg, 1..MaxNap)
  /\ kernelvec([TrapFrame("syscall", op, Start(op)) EXCEPT !.arg = arg])
  /\ UNCHANGED table

----------------------------------------------------------------------------
Init ==
  /\ SIE = 1 /\ NOFF = 0 /\ INTENA = 1
  /\ mode = "S" /\ sscratch = 0 /\ satp = KernelRoot /\ on = Boot
  /\ procs = [i \in 1..NBoot |-> i]
  /\ current = None /\ next_slot = 0 /\ NEXT_PID = NBoot + 1
  /\ state = [p \in Pid |-> IF p <= NBoot THEN "Runnable" ELSE "None"]
  /\ remaining = [p \in Pid |-> 0]
  /\ depth = [c \in Ctx |-> IF c <= NBoot THEN 1 ELSE 0]
  /\ frame = [c \in Ctx |->
       IF c = Boot THEN OneFrame([NoFrame EXCEPT !.kind = "sched",
                                    !.op = "scan", !.at = "loop"])
       ELSE IF c <= NBoot THEN OneFrame(Forged) ELSE NoStack]

\* Steps of the code interrupted by a trap, and steps of trap handlers.
Section ==
  \/ push_off_read \/ push_off \/ sched_return
  \/ yield_now \/ exit \/ join \/ sleep_ticks_while \/ sleep_ticks \/ spawn_with
Entry ==
  \/ thread_entry \/ thread_entry_lookup \/ user_load \/ exec
  \/ enter_user_intr_off \/ enter_user_arm \/ enter_user_sret
Scheduler ==
  \/ scheduler_intr_on \/ scheduler_return \/ scheduler_idle \/ wfi
  \/ \E slot \in DOMAIN procs : scheduler_run(slot)
Handler == on_tick \/ wakeup \/ on_tick_preempt \/ kernelvec_return
Call ==
  \E op \in Ops, arg \in Ctx : thread_call(op, arg) \/ dispatch(op, arg)

KernelStep == Section \/ Entry \/ Scheduler \/ Handler
Next == KernelStep \/ Call \/ timer_interrupt

Spec == Init /\ [][Next]_vars

----------------------------------------------------------------------------
(* Correctness.                                                            *)

\* Every variable has its type.
TypeOK ==
  /\ SIE \in Bit /\ NOFF \in Nat /\ INTENA \in Bit
  /\ mode \in {"U", "S"} /\ sscratch \in Ctx /\ satp \in Ctx /\ on \in Ctx
  /\ procs \in Seq(Pid \cup {None}) /\ current \in 0..Len(procs)
  /\ next_slot \in 0..Len(procs) /\ NEXT_PID \in 1..MaxPid + 1
  /\ state \in [Pid -> State] /\ remaining \in [Pid -> Nat]
  /\ depth \in [Ctx -> 0..MaxDepth]
  /\ frame \in [Ctx -> [1..MaxDepth -> Frame]]
  /\ mode = "S" => depth[on] > 0

\* "Scheduler state touched with interrupts on" (sched_data), "sched: push_off
\* depth != 1" and "pop_off with interrupts on" never fire: wherever the hart
\* is inside a push_off'd section, SIE is clear and exactly one level is held,
\* although every section may be entered from thread code that was interrupted
\* inside push_off itself.
SectionsExclusive ==
  mode = "S" /\ Top.at \in {"body", "back", "fresh"} => SIE = 0 /\ NOFF = 1

\* Interrupt intent is per thread although INTENA is one shared cell: code of a
\* thread body always runs (and resumes after any number of switches) with
\* interrupts on, a trap handler with interrupts off, and at most one trap
\* frame ever sits on top of a thread, so kernel stacks cannot fill with traps.
InterruptIntent ==
  /\ mode = "S" /\ Top.at \in {"idle", "while", "read", "off", "ret"} =>
       SIE = (IF Top.kind \in {"thread", "sched"} THEN 1 ELSE 0)
  /\ mode = "U" => SIE = 1
  /\ \A c \in Ctx : depth[c] <= 2

\* The table agrees with the hart: a thread is Running exactly when the hart
\* has its registers, `current' is then its slot, and satp is its page table.
CurrentIsOnHart ==
  /\ \A p \in Pid : state[p] = "Running" <=> on = p
  /\ on # Boot => /\ current \in DOMAIN procs /\ procs[current] = on
                  /\ satp = IF on \in User THEN on ELSE KernelRoot
  /\ on = Boot /\ Top.at # "back" => current = None /\ satp = KernelRoot

\* The scheduler frees only what nothing uses: a pid the hart is executing, or
\* whose page table is in satp, or whose stack is armed in sscratch, still has
\* its slot; and whenever a thread runs, no zombie is left in the table, so
\* whoever returns from join sees its target already reaped.
ReapSafe ==
  /\ \A p \in {on, satp, sscratch} \ {0} :
       state[p] # "None" /\ \E i \in DOMAIN procs : procs[i] = p
  /\ on # Boot => \A p \in Pid : state[p] # "Zombie"

\* The check-then-sleep of join and sleep_ticks loses no wakeup: a thread
\* asleep in join has a live target, and a thread asleep in sleep_ticks has
\* ticks to go, except while the handler that counted the last tick has not
\* reached its wakeup(TICK_CHAN) yet.
NoLostWakeup ==
  \A p \in Pid :
    LET f == frame[p][depth[p]] IN
    /\ state[p] = "EXIT_CHAN" =>
         f.op = "join" /\ f.arg \in Pid /\ state[f.arg] \notin {"None", "Zombie"}
    /\ state[p] = "TICK_CHAN" =>
         f.op = "nap" /\ (remaining[p] > 0 \/ (mode = "S" /\ Top.op = "wake"))

\* kernelvec's U/S test is right whenever a trap can be taken: sscratch names
\* the running process's own kernel stack in U-mode and is 0 in S-mode.
SscratchTellsMode ==
  /\ mode = "U" => on \in User /\ sscratch = on /\ depth[on] = 0
  /\ mode = "S" /\ SIE = 1 => sscratch = 0

\* How many slots the scan passes before it reaches slot i.
Distance(i) == (i - 1 - next_slot) % Len(procs)

\* Round robin: each time the scheduler picks some other thread, a thread that
\* stays Runnable moves strictly nearer to the front of the scan; so nobody
\* overtakes it twice, also when slots were reused or the table grew.
NoOvertaking ==
  [][\A i \in DOMAIN procs :
       /\ current = None /\ current' # None /\ current' # i
       /\ RunnableAt(i)
       => Distance(i)' < Distance(i)]_vars

----------------------------------------------------------------------------
(* Liveness.  Only kernel code is required to make progress: a thread body  *)
(* or a user program may compute for ever between two calls.               *)

InHandler == mode = "S" /\ Top.kind = "timer"

\* A trap handler runs to its end.  Interrupted code gets to execute between
\* two ticks (on_tick re-arms the timer TICK_INTERVAL ahead), so in each
\* context it is not only ever interrupted.  A pending timer interrupt is
\* taken at the first instruction that allows it, and ticks never stop.
Fairness ==
  /\ WF_vars(InHandler /\ KernelStep)
  /\ \A c \in Ctx : SF_vars(on = c /\ ~InHandler /\ KernelStep)
  /\ SF_vars(timer_interrupt)

FairSpec == Spec /\ Fairness

\* No starvation: a Runnable thread is eventually dispatched, even when the
\* threads before it never call into the kernel.
RunnableRuns ==
  \A p \in Pid : state[p] = "Runnable" ~> state[p] = "Running"

InCall(p, op, arg) ==
  \E d \in 1..depth[p] : frame[p][d].op = op /\ frame[p][d].arg = arg

\* Blocking calls end: sleep_ticks returns, also when its tick arrives in one
\* of the windows around push_off, swtch or wfi, and join on a process that has
\* exited returns and finds the zombie reaped.
CallsEnd ==
  /\ \A p \in Pid : InCall(p, "nap", 0) ~> ~InCall(p, "nap", 0)
  /\ \A p, q \in Pid :
       InCall(p, "join", q) /\ state[q] = "Zombie"
         ~> ~InCall(p, "join", q) /\ state[q] = "None"
============================================================================
