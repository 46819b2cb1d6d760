------------------------------ MODULE SchedInv ------------------------------
(***************************************************************************)
(* The inductive invariant of Sched: what each activation frame may look   *)
(* like, what the hart's registers are at each place, and how the thread   *)
(* table follows the stacks.                                               *)
(***************************************************************************)
EXTENDS Sched

\* The places of each kind of code.
PlaceOK(f) ==
  /\ f.kind = "sched" =>
       f.at \in {"loop", "read", "off", "body", "back", "wfi0", "wfi"}
  /\ f.kind = "thread" =>
       f.at \in {"fresh", "idle", "read", "off", "body", "back", "while",
                 "enter", "arm", "sret"}
  /\ f.kind = "timer" =>
       f.at \in {"go", "read", "off", "body", "back", "ret"}
  /\ f.kind = "syscall" =>
       f.at \in {"read", "off", "body", "back", "while", "ret", "enter",
                 "arm", "sret"}

\* The interrupt state code of this kind runs in outside its sections.
Intent(f) == IF f.kind \in {"sched", "thread"} THEN 1 ELSE 0

\* Frame f at level d of context c's stack.
FrameOK(c, d, f) ==
  /\ f.kind = "sched" <=> (c = Boot /\ d = 1)
  /\ f.kind = "sched" <=> f.op = "scan"
  /\ d = 2 => f.kind = "timer" /\ f.spp = "S"
  /\ f.kind \in {"timer", "syscall"} => f.spie = 1
  /\ f.kind \in {"timer", "syscall"} /\ d = 1 => c \in User /\ f.spp = "U"
  /\ PlaceOK(f)
  /\ f.kind = "timer" => f.op \in {"tick", "wake", "preempt", "yield", "run"}
  /\ f.op \in {"tick", "wake", "preempt"} => f.kind = "timer"
  /\ f.at \in {"off", "body"} => f.old = Intent(f)
  /\ f.at = "back" /\ f.op # "scan" => f.sav = Intent(f)
  /\ f.at \in {"enter", "arm", "sret"} \/ f.op \in {"load", "exec"} =>
       c \in User /\ f.kind \in {"thread", "syscall"}
  /\ f.at = "fresh" => f.kind = "thread" /\ f.op = "run"
  /\ f.at = "back" /\ c = Boot => f.kind = "sched"
  /\ f.at = "go" => f.op = "tick"
  /\ f.at = "while" => f.op = "nap"
  /\ f.at = "ret" => f.op \in {"run", "nop"}
  /\ f.at = "back" => f.op \in {"scan", "yield", "join", "nap", "exit"}

\* Places at which a trap may have been taken on top of a frame.
Interrupted(f) ==
  /\ f.kind \in {"sched", "thread"}
  /\ f.at \in {"loop", "idle", "read", "off", "while", "wfi0", "enter"}

StacksOK ==
  \A c \in Ctx :
    /\ depth[c] <= 2
    /\ \A d \in 1..depth[c] : FrameOK(c, d, frame[c][d])
    /\ depth[c] = 2 => Interrupted(frame[c][1])

\* SIE, NOFF, INTENA and sscratch while context c executes frame f.
RegsOK(f, c, sie, noff, intena, scratch) ==
  /\ f.kind \in {"timer", "syscall"} => sie = 0
  /\ f.at \in {"body", "back", "fresh", "arm", "sret"} => sie = 0
  /\ f.kind \in {"thread", "sched"} /\
       f.at \notin {"body", "back", "fresh", "arm", "sret", "loop"} => sie = 1
  /\ noff = IF f.at \in {"body", "back", "fresh"} THEN 1 ELSE 0
  /\ f.at = "body" => intena = f.old
  /\ scratch = IF f.at = "sret" THEN c ELSE 0

HartOK ==
  /\ mode = "U" => /\ SIE = 1 /\ NOFF = 0
                   /\ on \in User /\ sscratch = on /\ depth[on] = 0
  /\ mode = "S" =>
       depth[on] > 0 /\ RegsOK(Top, on, SIE, NOFF, INTENA, sscratch)

\* The contexts the hart is not executing wait in swtch.
WaitingOK ==
  /\ on # Boot => depth[Boot] = 1 /\ frame[Boot][1].at = "back"
  /\ on = Boot => depth[Boot] > 0 /\ mode = "S"
  /\ \A p \in Pid : p # on =>
       /\ state[p] = "None" <=> depth[p] = 0
       /\ depth[p] > 0 =>
            LET f == frame[p][depth[p]] IN
            f.at = "back" \/ (f.at = "fresh" /\ state[p] = "Runnable")

TableOK ==
  /\ \A p \in Pid : state[p] = "Running" <=> on = p
  /\ on # Boot => current \in DOMAIN procs /\ procs[current] = on
  /\ on # Boot => satp = IF on \in User THEN on ELSE KernelRoot
  /\ on # Boot => \A p \in Pid : state[p] # "Zombie"
  /\ on = Boot /\ frame[Boot][1].at # "back" => current = None /\ satp = KernelRoot
  /\ on = Boot /\ satp # KernelRoot => state[satp] # "None"

SlotsOK ==
  /\ \A i, j \in DOMAIN procs : procs[i] = procs[j] /\ procs[i] # None => i = j
  /\ \A p \in Pid : state[p] # "None" <=> \E i \in DOMAIN procs : procs[i] = p
  /\ \A p \in Pid : p >= NEXT_PID => state[p] = "None"

\* A spawn in progress owns a pid that is not in the table yet.
SpawnsOK ==
  /\ \A c \in Ctx : \A d \in 1..depth[c] : frame[c][d].op = "spawn" =>
       /\ frame[c][d].arg \in Pid /\ frame[c][d].arg < NEXT_PID
       /\ state[frame[c][d].arg] = "None"
  /\ \A c1, c2 \in Ctx : \A d1 \in 1..depth[c1], d2 \in 1..depth[c2] :
       /\ frame[c1][d1].op = "spawn" /\ frame[c2][d2].op = "spawn"
       /\ frame[c1][d1].arg = frame[c2][d2].arg
       => c1 = c2 /\ d1 = d2

IInv ==
  /\ TypeOK /\ StacksOK /\ HartOK /\ WaitingOK /\ TableOK /\ SlotsOK
  /\ SpawnsOK /\ NoLostWakeup
============================================================================
