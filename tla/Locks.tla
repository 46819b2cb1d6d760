-------------------------------- MODULE Locks --------------------------------
(***************************************************************************)
(* SpinLock (spinlock.rs), the console output under it (console.rs) and    *)
(* the panic path (main.rs): one hart, on which threads, the scheduler     *)
(* loop, system calls and interrupt handlers take locks, nested and inside *)
(* bare push_off sections.                                                 *)
(*                                                                         *)
(* A context has a stack of frames: `top', and `below' it the frames that  *)
(* traps have interrupted.  `held' are the regions a frame is in, the      *)
(* inner last: a lock, or a bare push_off, "wakeup" for the one of that    *)
(* function, else "off".  The places of a frame:                           *)
(*   out   inside of no lock or push_off, or in the innermost of `held'    *)
(*   read  in push_off, has read SIE                                       *)
(*   cas   in the compare_exchange loop of lock                            *)
(*   drop  before the pop_off that leaves the innermost region             *)
(***************************************************************************)
EXTENDS Integers, Sequences, FiniteSets

CONSTANTS
  Thread,
  Lock,          \* the locks of the kernel; CONSOLE is one
  Nest,          \* <<outer, inner>>: the regions entered inside others
  Rank,          \* an order of the regions that Nest follows
  IrqRegion,     \* the regions that interrupt handlers enter
  LoopRegion,    \* those that the scheduler loop enters
  MaxDepth       \* bound: traps on one stack

Bare == {"off", "wakeup"}
Region == Lock \cup Bare
Ctx == Thread \cup {"scheduler"}
Frame(kind, held) == [kind |-> kind, at |-> "out", old |-> 0, want |-> "off", held |-> held]

\* The kernel's locks are ordered: what is entered inside has a higher rank.
ASSUME LocksAssumption ==
  /\ "CONSOLE" \in Lock /\ Lock \cap Bare = {} /\ "scheduler" \notin Thread
  /\ Nest \subseteq Region \X Region
  /\ Rank \in [Region -> Nat] /\ \A x \in Nest : Rank[x[1]] < Rank[x[2]]
  /\ MaxDepth \in Nat

VARIABLES
  SIE, NOFF, INTENA,      \* sstatus.SIE and the statics of spinlock.rs
  locked,                 \* the locks whose SpinLock::locked is true
  on,                     \* the context that has the hart
  top, below,             \* the stacks, by context
  saved,                  \* sched's local intena, by thread
  half,                   \* the frames that have printed part of a message
  panicked                \* "no", "dying" or "said"

intr == <<SIE, NOFF, INTENA>>
vars == <<intr, locked, on, top, below, saved, half, panicked>>

Top == top[on]
Here == <<on, Len(below[on])>>
Put(f) == top' = [top EXCEPT ![on] = f] /\ UNCHANGED below
At(place) == panicked = "no" /\ Top.at = place
Inner(f) == f.held[Len(f.held)]
Outer(f) == SubSeq(f.held, 1, Len(f.held) - 1)

\* kmain has spawned the threads and enters scheduler().  A thread that has
\* not run yet is as after a yield: thread_entry enables interrupts.
Init ==
  /\ SIE = 1 /\ NOFF = 0 /\ INTENA = 0
  /\ locked = {}
  /\ on = "scheduler"
  /\ top = [c \in Ctx |-> IF c = "scheduler" THEN Frame("loop", <<>>)
                          ELSE Frame("thread", <<"off">>)]
  /\ below = [c \in Ctx |-> <<>>]
  /\ saved = [t \in Thread |-> 1]
  /\ half = {}
  /\ panicked = "no"

\* The regions that the code of a frame enters from where it is.
Enters(f) ==
  {r \in CASE f.kind = "irq" -> IrqRegion [] f.kind = "loop" -> LoopRegion [] OTHER -> Region :
     f.held # <<>> => <<Inner(f), r>> \in Nest}

Entered(f) == [f EXCEPT !.at = "out", !.old = 0, !.want = "off", !.held = Append(@, f.want)]

\* push_off, or lock, up to reading SIE.  The scheduler loop has done intr_on.
push_off_read(r) ==
  /\ At("out") /\ r \in Enters(Top)
  /\ Here \notin half
  /\ Top.kind = "loop" /\ Top.held = <<>> => SIE = 1
  /\ Put([Top EXCEPT !.at = "read", !.old = SIE, !.want = r])
  /\ UNCHANGED <<intr, locked, on, saved, half, panicked>>

\* Mutant: taking a lock leaves interrupts as they are.
push_off_bare ==
  /\ At("read")
  /\ SIE' = IF Top.want \in Bare THEN 0 ELSE SIE
  /\ INTENA' = IF NOFF = 0 THEN Top.old ELSE INTENA
  /\ NOFF' = NOFF + 1
  /\ Put(IF Top.want \in Bare THEN Entered(Top) ELSE [Top EXCEPT !.at = "cas", !.old = 0])
  /\ UNCHANGED <<locked, on, saved, half, panicked>>

\* The rest of push_off.
push_off ==
  /\ At("read")
  /\ SIE' = 0
  /\ INTENA' = IF NOFF = 0 THEN Top.old ELSE INTENA
  /\ NOFF' = NOFF + 1
  /\ Put(IF Top.want \in Bare THEN Entered(Top) ELSE [Top EXCEPT !.at = "cas", !.old = 0])
  /\ UNCHANGED <<locked, on, saved, half, panicked>>

\* The compare_exchange that succeeds.  While the lock is taken, it spins.
lock ==
  /\ At("cas") /\ Top.want \notin locked
  /\ locked' = locked \cup {Top.want}
  /\ Put(Entered(Top))
  /\ UNCHANGED <<intr, on, saved, half, panicked>>

\* Mutant: the guard lives for one piece of the message, not for all of it.
drop_early ==
  /\ At("out") /\ Top.held # <<>>
  /\ locked' = locked \ {Inner(Top)}
  /\ Put([Top EXCEPT !.at = "drop"])
  /\ UNCHANGED <<intr, on, saved, half, panicked>>

\* SpinLockGuard::drop, the store; nothing to store at the end of a push_off.
drop ==
  /\ At("out") /\ Top.held # <<>> /\ Here \notin half
  /\ locked' = locked \ {Inner(Top)}
  /\ Put([Top EXCEPT !.at = "drop"])
  /\ UNCHANGED <<intr, on, saved, half, panicked>>

\* SpinLockGuard::drop, the _pop: pop_off.
pop_off ==
  /\ At("drop")
  /\ NOFF' = NOFF - 1
  /\ SIE' = IF NOFF = 1 /\ INTENA = 1 THEN 1 ELSE SIE
  /\ Put([Top EXCEPT !.at = "out", !.held = Outer(Top)])
  /\ UNCHANGED <<INTENA, locked, on, saved, half, panicked>>

\* _print under the lock: a first part of the message is out, then all of it.
print ==
  /\ At("out") /\ Top.held # <<>> /\ Inner(Top) = "CONSOLE"
  /\ half' = IF Here \in half THEN half \ {Here} ELSE half \cup {Here}
  /\ UNCHANGED <<intr, locked, on, top, below, saved, panicked>>

\* A trap: an interrupt, or the system call of a thread that is in U-mode,
\* where it has no frame below.
trap(kind) ==
  /\ panicked = "no" /\ SIE = 1 /\ Len(below[on]) < MaxDepth
  /\ kind = "ecall" => Top.kind = "thread" /\ Top.at = "out"
  /\ SIE' = 0
  /\ top' = [top EXCEPT ![on] = Frame(kind, <<>>)]
  /\ below' = [below EXCEPT ![on] = Append(@, Top)]
  /\ UNCHANGED <<NOFF, INTENA, locked, on, saved, half, panicked>>

\* sret restores SIE from SPIE.
trap_return ==
  /\ At("out") /\ Top.kind \in {"irq", "ecall"} /\ Top.held = <<>>
  /\ SIE' = 1
  /\ top' = [top EXCEPT ![on] = below[on][Len(below[on])]]
  /\ below' = [below EXCEPT ![on] = SubSeq(@, 1, Len(@) - 1)]
  /\ UNCHANGED <<NOFF, INTENA, locked, on, saved, half, panicked>>

\* The places of sched() and of the swtch in scheduler().
MaySwitch == At("out") /\ Top.held = <<"off">>

sched ==
  /\ MaySwitch /\ on \in Thread
  /\ saved' = [saved EXCEPT ![on] = INTENA]
  /\ on' = "scheduler"
  /\ UNCHANGED <<intr, locked, top, below, half, panicked>>

\* Mutant: the thread finds the intent of the one that ran before it.
run_keeps_intena(t) ==
  /\ MaySwitch /\ on = "scheduler" /\ below[on] = <<>>
  /\ on' = t
  /\ UNCHANGED <<intr, locked, top, below, saved, half, panicked>>

run(t) ==
  /\ MaySwitch /\ on = "scheduler" /\ below[on] = <<>>
  /\ on' = t
  /\ INTENA' = saved[t]
  /\ UNCHANGED <<SIE, NOFF, locked, top, below, saved, half, panicked>>

\* The top of the scheduler loop.
intr_on ==
  /\ At("out") /\ Top.kind = "loop" /\ Top.held = <<>> /\ SIE = 0
  /\ SIE' = 1
  /\ UNCHANGED <<NOFF, INTENA, locked, on, top, below, saved, half, panicked>>

\* The panic handler: interrupts off, then the message without the lock.
panic ==
  /\ panicked = "no"
  /\ panicked' = "dying"
  /\ SIE' = 0
  /\ UNCHANGED <<NOFF, INTENA, locked, on, top, below, saved, half>>

\* Mutant: the panic message goes through _print.
print_locking ==
  /\ panicked = "dying" /\ "CONSOLE" \notin locked
  /\ panicked' = "said"
  /\ UNCHANGED <<intr, locked, on, top, below, saved, half>>

print_emergency ==
  /\ panicked = "dying"
  /\ panicked' = "said"
  /\ UNCHANGED <<intr, locked, on, top, below, saved, half>>

KernelStep ==
  \/ \E r \in Region : push_off_read(r)
  \/ push_off \/ lock \/ drop \/ pop_off \/ print
  \/ trap_return \/ sched \/ (\E t \in Thread : run(t)) \/ intr_on
  \/ print_emergency

Next ==
  \/ KernelStep
  \/ \E kind \in {"irq", "ecall"} : trap(kind)
  \/ panic

Spec == Init /\ [][Next]_vars

\* The hart executes the panic handler.
FairSpec == Spec /\ WF_vars(print_emergency)

------------------------------------------------------------------------------
(* Correctness.                                                             *)

\* No lock is ever waited for: whoever comes to the compare_exchange, thread
\* or handler, finds the lock free, so the hart never spins against itself.
NeverSpins == Top.at = "cas" => Top.want \notin locked

\* At most one message is partly out: "concurrent printers (kernel threads,
\* interrupt handlers) don't interleave mid-line" (console.rs).
LinesWhole == Cardinality(half) <= 1

\* push_off and pop_off nest across locks, traps and switches.  The asserts of
\* pop_off and sched hold: interrupts are off and the depth is positive at
\* every pop_off, and a thread that may give up the hart holds one level.
\* Outside of all levels "whatever interrupt state the outermost push_off saw"
\* is back: threads run with interrupts on, handlers with interrupts off.
SectionsNest ==
  /\ Top.at = "drop" => SIE = 0 /\ NOFF > 0
  /\ Top.held = <<"off">> /\ Top.at = "out" => SIE = 0 /\ NOFF = 1
  /\ (panicked = "no" /\ Top.at = "out" /\ Top.held = <<>>) =>
       /\ NOFF = 0
       /\ Top.kind = "thread" => SIE = 1
       /\ Top.kind \in {"irq", "ecall"} => SIE = 0

\* A panic is heard, also when the panicking code holds the console lock.
PanicHeard == (panicked = "dying") ~> (panicked = "said")
==============================================================================
