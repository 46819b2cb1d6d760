------------------------------ MODULE SchedSteps -----------------------------
(* Steps of Sched preserve the invariant IInv, for every number of threads:
   those in which the executing context goes on, and those that give up the
   hart, call into the kernel or publish a new thread. *)
EXTENDS SchedInv, TLAPS

\* The contexts: the scheduler's and one for each pid.
LEMMA Contexts ==
  /\ Boot \in Ctx /\ Boot \notin Pid /\ Pid \subseteq Ctx /\ Ctx = Pid \cup {Boot}
  /\ User \subseteq Pid /\ None \notin Pid /\ 1 \in 1..MaxDepth /\ 0 \in Ctx
BY ConstantsAssumption DEF Boot, Ctx, Pid, None

\* The levels of a stack are frames.
LEMMA Levels ==
  ASSUME TypeOK
  PROVE  /\ depth \in [Ctx -> 0..MaxDepth]
         /\ \A c \in Ctx : 1..depth[c] \subseteq 1..MaxDepth
         /\ \A c \in Ctx : depth[c] # 0 => depth[c] \in 1..MaxDepth
         /\ \A c \in Ctx : depth[c] # 0 => depth[c] \in 1..depth[c]
         /\ \A c \in Ctx : depth[c] > 0 => depth[c] # 0
<1>1. depth \in [Ctx -> 0..MaxDepth]
  BY Zenon DEF TypeOK
<1> QED
  BY <1>1, ConstantsAssumption

\* What IInv says of the spawns in progress.
LEMMA SpawnPid ==
  ASSUME IInv, NEW c \in Ctx, NEW d \in 1..depth[c], frame[c][d].op = "spawn"
  PROVE  /\ frame[c][d].arg \in Pid /\ frame[c][d].arg < NEXT_PID
         /\ state[frame[c][d].arg] = "None"
BY Zenon DEF IInv, SpawnsOK

LEMMA SpawnOne ==
  ASSUME IInv, NEW c1 \in Ctx, NEW c2 \in Ctx,
         NEW d1 \in 1..depth[c1], NEW d2 \in 1..depth[c2],
         frame[c1][d1].op = "spawn", frame[c2][d2].op = "spawn",
         frame[c1][d1].arg = frame[c2][d2].arg
  PROVE  c1 = c2 /\ d1 = d2
BY DEF IInv, SpawnsOK

\* What IInv says of the stacks.
LEMMA Stacks ==
  ASSUME IInv
  PROVE  \A c \in Ctx : /\ depth[c] \in 0..2
                        /\ \A d \in 1..depth[c] : FrameOK(c, d, frame[c][d])
                        /\ depth[c] = 2 => Interrupted(frame[c][1])
<1>1. \A c \in Ctx : /\ depth[c] <= 2 /\ depth[c] \in 0..MaxDepth
                     /\ \A d \in 1..depth[c] : FrameOK(c, d, frame[c][d])
                     /\ depth[c] = 2 => Interrupted(frame[c][1])
  BY Zenon DEF IInv, StacksOK, TypeOK
<1>2. \A n \in 0..MaxDepth : n <= 2 => n \in 0..2
  BY ConstantsAssumption
<1> QED
  BY <1>1, <1>2, Zenon

\* Writing the executing frame changes that frame and no other.
LEMMA PutFacts ==
  ASSUME TypeOK, mode = "S", NEW f \in Frame, Put(f)
  PROVE  /\ depth' = depth
         /\ frame' \in [Ctx -> [1..MaxDepth -> Frame]]
         /\ \A c \in Ctx, d \in 1..MaxDepth :
              frame'[c][d] = IF c = on /\ d = depth[on] THEN f ELSE frame[c][d]
BY ConstantsAssumption, Zenon DEF TypeOK, Put

\* The executing context has an executing frame.
LEMMA TopFacts ==
  ASSUME TypeOK, mode = "S"
  PROVE  /\ on \in Ctx /\ depth[on] \in 1..MaxDepth
         /\ Top \in Frame
BY ConstantsAssumption DEF TypeOK, Top

\* Two values of `state' that differ at most in who sleeps and who was woken.
Alike(s, t) ==
  \A p \in Pid : /\ s[p] = "None" <=> t[p] = "None"
                 /\ s[p] = "Running" <=> t[p] = "Running"
                 /\ s[p] = "Zombie" <=> t[p] = "Zombie"
                 /\ s[p] = "Runnable" => t[p] = "Runnable"

\* A step of the executing code that stays in its context, and at most wakes
\* sleepers, keeps the stacks and the table in order if its new frame is.
LEMMA StayStacks ==
  ASSUME IInv, mode = "S", NEW f \in Frame, Put(f),
         FrameOK(on, depth[on], f), f.at # "back", Top.at = "back" => on # Boot,
         on' = on, mode' = mode, satp' = satp, procs' = procs,
         current' = current, Alike(state, state')
  PROVE  StacksOK' /\ WaitingOK' /\ TableOK'
<1> USE ConstantsAssumption DEF IInv
<1>1. /\ depth' = depth
      /\ \A c \in Ctx, d \in 1..MaxDepth :
           frame'[c][d] = IF c = on /\ d = depth[on] THEN f ELSE frame[c][d]
  BY PutFacts, Zenon
<1>2. on \in Ctx /\ depth[on] \in 1..MaxDepth
  BY TopFacts, Zenon
<1>3. depth \in [Ctx -> 0..MaxDepth] /\ Boot \in Ctx /\ Pid \subseteq Ctx
  BY Contexts, Zenon DEF TypeOK
<1>4. StacksOK'
  BY <1>1, <1>2, <1>3 DEF StacksOK
<1>5. WaitingOK'
  BY <1>1, <1>2, <1>3 DEF WaitingOK, Alike
<1>6. TableOK'
  <2>1. satp # KernelRoot => satp \in Pid
    BY DEF TypeOK, KernelRoot, Ctx, Pid
  <2> QED
    BY <1>1, <1>2, <1>3, <2>1 DEF TableOK, Top, Alike
<1> QED
  BY <1>4, <1>5, <1>6, Zenon

\* It keeps the slots and the spawns in progress if it starts no spawn.
LEMMA StaySlots ==
  ASSUME IInv, mode = "S", NEW f \in Frame, Put(f), on' = on,
         f.op = "spawn" => Top.op = "spawn" /\ f.arg = Top.arg,
         procs' = procs, NEXT_PID' = NEXT_PID, Alike(state, state')
  PROVE  SlotsOK' /\ SpawnsOK'
<1>1. /\ depth' = depth
      /\ \A c \in Ctx, d \in 1..MaxDepth :
           frame'[c][d] = IF c = on /\ d = depth[on] THEN f ELSE frame[c][d]
  BY PutFacts, Zenon DEF IInv
<1>2. SlotsOK'
  BY Zenon DEF IInv, SlotsOK, Alike
<1>3. \A c \in Ctx, d \in 1..MaxDepth : frame'[c][d].op = "spawn" =>
        frame[c][d].op = "spawn" /\ frame'[c][d].arg = frame[c][d].arg
  BY <1>1 DEF Top
<1>4. \A c \in Ctx : 1..depth[c] \subseteq 1..MaxDepth
  BY Levels, Zenon DEF IInv
<1>5. SpawnsOK'
  BY <1>1, <1>3, <1>4 DEF IInv, SpawnsOK, Alike
<1> QED
  BY <1>2, <1>5, Zenon

\* Sleepers' frames are not the executing one.
LEMMA AsleepUntouched ==
  ASSUME IInv, mode = "S", NEW f \in Frame, Put(f),
         NEW p \in Pid, state[p] \in Chan
  PROVE  p # on /\ frame'[p][depth'[p]] = frame[p][depth[p]]
<1>1. p # on
  BY Zenon DEF IInv, TableOK, Chan
<1>2. p \in Ctx
  BY Contexts, Zenon
<1>3. depth[p] # 0
  BY <1>1, Zenon DEF IInv, WaitingOK, Chan
<1>4. depth[p] \in 1..MaxDepth
  BY <1>2, <1>3, Levels, Zenon DEF IInv
<1> QED
  BY <1>1, <1>2, <1>4, PutFacts DEF IInv

\* Such a step loses no wakeup if it leaves the nap counters alone and is not
\* the end of wakeup(TICK_CHAN).
LEMMA StayAwake ==
  ASSUME IInv, mode = "S", NEW f \in Frame, Put(f),
         on' = on, mode' = mode, state' = state, remaining' = remaining,
         Top.op = "wake" => f.op = "wake"
  PROVE  NoLostWakeup'
<1>1. \A p \in Pid : state[p] \in Chan => frame'[p][depth'[p]] = frame[p][depth[p]]
  BY AsleepUntouched, Zenon
<1>2. Top' = f
  BY PutFacts, TopFacts DEF Top, IInv
<1> QED
  BY <1>1, <1>2, Zenon DEF NoLostWakeup, IInv, Chan

\* A step that stays in its context, touches no table entry and leaves the
\* registers as its new frame expects them preserves IInv.
LEMMA StepInPlace ==
  ASSUME IInv, mode = "S", NEW f \in Frame, Put(f),
         FrameOK(on, depth[on], f),
         f.op = "spawn" => Top.op = "spawn" /\ f.arg = Top.arg,
         f.at # "back", Top.at = "back" => on # Boot,
         Top.op = "wake" => f.op = "wake",
         on' = on, mode' = mode, satp' = satp, procs' = procs,
         current' = current, next_slot' = next_slot, state' = state,
         NEXT_PID' = NEXT_PID, remaining' = remaining,
         SIE' \in Bit, INTENA' \in Bit, sscratch' \in Ctx,
         RegsOK(f, on, SIE', NOFF', INTENA', sscratch')
  PROVE  IInv'
<1>1. StacksOK' /\ WaitingOK' /\ TableOK' /\ SlotsOK' /\ SpawnsOK'
  <2>1. Alike(state, state')
    BY Zenon DEF Alike
  <2> QED
    BY <2>1, StayStacks, StaySlots, Zenon
<1>2. NoLostWakeup'
  BY StayAwake, Zenon
<1>3. Top' = f /\ depth' = depth /\ frame' \in [Ctx -> [1..MaxDepth -> Frame]]
  BY PutFacts, TopFacts DEF Top, IInv
<1>4. HartOK'
  BY <1>3, TopFacts, Zenon DEF HartOK, IInv
<1>5. TypeOK'
  BY <1>3, TopFacts, Zenon DEF TypeOK, IInv, RegsOK
<1> QED
  BY <1>1, <1>2, <1>4, <1>5, Zenon DEF IInv

\* What IInv says of the executing frame.
LEMMA TopOK ==
  ASSUME IInv, mode = "S"
  PROVE  /\ FrameOK(on, depth[on], Top) /\ Top \in Frame
         /\ RegsOK(Top, on, SIE, NOFF, INTENA, sscratch)
         /\ SIE \in Bit /\ INTENA \in Bit /\ on \in Ctx /\ sscratch \in Ctx
<1>1. on \in Ctx /\ depth[on] > 0 /\ Top \in Frame
  BY TopFacts, Zenon DEF IInv, TypeOK
<1>2. depth[on] \in 1..depth[on]
  BY <1>1, Levels, Zenon DEF IInv
<1> QED
  BY <1>1, <1>2, Zenon DEF IInv, StacksOK, HartOK, Top, TypeOK

\* push_off reads SIE: the value it keeps is the intent of the code it is in.
LEMMA push_off_read_OK == IInv /\ push_off_read => IInv'
<1> SUFFICES ASSUME IInv, push_off_read PROVE IInv'
  OBVIOUS
<1> DEFINE f == [Top EXCEPT !.at = "off", !.old = SIE]
<1>1. Put(f) /\ mode = "S" /\ Top.at = "read"
  BY Zenon DEF push_off_read, At_
<1>2. /\ f \in Frame /\ f.at = "off" /\ f.old = SIE
      /\ f.kind = Top.kind /\ f.op = Top.op /\ f.arg = Top.arg
      /\ f.spie = Top.spie /\ f.spp = Top.spp
  BY <1>1, TopOK, Zenon DEF Frame, At
<1> HIDE DEF f
<1>3. FrameOK(on, depth[on], f)
  BY <1>1, <1>2, TopOK DEF FrameOK, PlaceOK, Intent, RegsOK, Frame, Kind
<1>4. RegsOK(f, on, SIE, NOFF, INTENA, sscratch)
  BY <1>1, <1>2, TopOK, Zenon DEF RegsOK
<1> QED
  BY <1>1, <1>2, <1>3, <1>4, TopOK, StepInPlace, Zenon
     DEF push_off_read, hart, intr, table

\* push_off clears SIE and counts a level; INTENA is the value read before.
LEMMA push_off_OK == IInv /\ push_off => IInv'
<1> SUFFICES ASSUME IInv, push_off PROVE IInv'
  OBVIOUS
<1> DEFINE f == [Top EXCEPT !.at = "body"]
<1>1. Put(f) /\ mode = "S" /\ Top.at = "off"
  BY Zenon DEF push_off, At_, Goto
<1>2. /\ f \in Frame /\ f.at = "body" /\ f.old = Top.old
      /\ f.kind = Top.kind /\ f.op = Top.op /\ f.arg = Top.arg
      /\ f.spie = Top.spie /\ f.spp = Top.spp
  BY <1>1, TopOK, Zenon DEF Frame, At
<1> HIDE DEF f
<1>3. FrameOK(on, depth[on], f)
  BY <1>1, <1>2, TopOK DEF FrameOK, PlaceOK, Intent, Frame, Kind
<1>4. RegsOK(f, on, SIE', NOFF', INTENA', sscratch) /\ SIE' \in Bit /\ INTENA' \in Bit
  BY <1>1, <1>2, TopOK DEF RegsOK, push_off, Frame, Bit
<1> QED
  BY <1>1, <1>2, <1>3, <1>4, TopOK, StepInPlace, Zenon DEF push_off, hart, table

\* The frames that calls continue with.
LEMMA GotoFrame ==
  ASSUME NEW g \in Frame, NEW place \in At
  PROVE  LET f == [g EXCEPT !.at = place] IN
         /\ f \in Frame /\ f.at = place /\ f.op = g.op /\ f.kind = g.kind
         /\ f.old = g.old /\ f.sav = g.sav /\ f.arg = g.arg
         /\ f.spie = g.spie /\ f.spp = g.spp
BY Zenon DEF Frame

\* Going on to the next section keeps the frame's kind, argument and trap state.
LEMMA ThenFrame ==
  ASSUME NEW g \in Frame, NEW op \in Op
  PROVE  LET f == Then(g, op) IN
         /\ f \in Frame /\ f.at = "read" /\ f.op = op /\ f.kind = g.kind
         /\ f.arg = g.arg /\ f.spie = g.spie /\ f.spp = g.spp
BY Zenon DEF Then, Frame, At

\* Returning from a call keeps the frame's kind and trap state.
LEMMA DoneFrame ==
  ASSUME NEW g \in Frame
  PROVE  LET f == Done(g) IN
         /\ f \in Frame /\ f.op = "run" /\ f.kind = g.kind
         /\ f.at = (IF g.kind = "thread" THEN "idle" ELSE "ret")
         /\ f.spie = g.spie /\ f.spp = g.spp
<1>1. 0 \in Bit /\ 0 \in 0..MaxPid /\ "run" \in Op /\ {"idle", "ret"} \subseteq At
  BY ConstantsAssumption DEF Bit, Op, At
<1> QED
  BY <1>1, Zenon DEF Done, Frame

\* Leaving a read-only section.
LEMMA LeaveStep ==
  ASSUME IInv, mode = "S", Top.at = "body", Top.kind # "sched",
         Top.op # "wake", NEW f \in Frame, Leave(f),
         FrameOK(on, depth[on], f), f.kind = Top.kind, f.op # "spawn",
         f.at \in {"idle", "ret", "read", "while", "enter"}
  PROVE  IInv'
<1>1. RegsOK(f, on, SIE', NOFF', INTENA', sscratch) /\ SIE' \in Bit
  BY TopOK DEF RegsOK, Leave, pop_off, FrameOK, Intent, Frame, Kind, Bit
<1> QED
  BY <1>1, TopOK, StepInPlace, Zenon DEF Leave, hart, table

\* join returns: its target is gone.
LEMMA join_return_OK ==
  ASSUME IInv, In("join", "body"), Leave(Done(Top))
  PROVE  IInv'
<1> DEFINE f == Done(Top)
<1>1. mode = "S" /\ Top.at = "body" /\ Top.op = "join" /\ Leave(f)
  BY Zenon DEF In, At_
<1>2. /\ f \in Frame /\ f.op = "run" /\ f.kind = Top.kind
      /\ f.at = (IF Top.kind = "thread" THEN "idle" ELSE "ret")
      /\ f.spie = Top.spie /\ f.spp = Top.spp
  BY <1>1, TopOK, DoneFrame, Zenon
<1> HIDE DEF f
<1>3. FrameOK(on, depth[on], f) /\ Top.kind # "sched"
  BY <1>1, <1>2, TopOK, Zenon DEF FrameOK, PlaceOK, Frame, Kind
<1> QED
  BY <1>1, <1>2, <1>3, LeaveStep, Zenon

\* sleep_ticks leaves its section: the target tick has come meanwhile.
LEMMA sleep_ticks_leave_OK ==
  ASSUME IInv, In("nap", "body"), Leave([Top EXCEPT !.at = "while"])
  PROVE  IInv'
<1> DEFINE f == [Top EXCEPT !.at = "while"]
<1>1. mode = "S" /\ Top.at = "body" /\ Top.op = "nap" /\ Leave(f)
  BY Zenon DEF In, At_
<1>2. /\ f \in Frame /\ f.at = "while" /\ f.op = Top.op /\ f.kind = Top.kind
      /\ f.spie = Top.spie /\ f.spp = Top.spp
  <2>1. "while" \in At /\ Top \in Frame
    BY <1>1, TopOK, Zenon DEF At
  <2> QED
    BY <2>1, GotoFrame, Zenon
<1> HIDE DEF f
<1>3. FrameOK(on, depth[on], f) /\ Top.kind # "sched"
  BY <1>1, <1>2, TopOK, Zenon DEF FrameOK, PlaceOK, Frame, Kind
<1> QED
  BY <1>1, <1>2, <1>3, LeaveStep, Zenon

\* A context that executes thread or system-call code is a thread, and then
\* `current' is its slot.
LEMMA OnThread ==
  ASSUME IInv, mode = "S", Top.kind \in {"thread", "syscall"}
  PROVE  on \in Pid /\ current # None /\ current \in DOMAIN procs /\ cur = on
<1>1. on # Boot /\ on \in Pid
  <2>1. FrameOK(on, depth[on], Top) /\ on \in Ctx
    BY TopOK, Zenon
  <2>2. depth[on] \in {1, 2}
    BY <2>1, TopFacts DEF IInv, StacksOK
  <2>3. on # Boot
    BY <2>1, <2>2, Zenon DEF FrameOK
  <2> QED
    BY <2>1, <2>3 DEF Boot, Ctx, Pid
<1>2. current \in DOMAIN procs /\ procs[current] = on
  BY <1>1, Zenon DEF IInv, TableOK
<1>3. current # 0
  BY <1>2 DEF IInv, TypeOK
<1> QED
  BY <1>1, <1>2, <1>3, Zenon DEF cur, None

\* thread_entry looks up the entry of the thread it runs on.
LEMMA thread_entry_lookup_OK == IInv /\ thread_entry_lookup => IInv'
<1> SUFFICES ASSUME IInv, thread_entry_lookup PROVE IInv'
  OBVIOUS
<1>1. mode = "S" /\ Top.at = "body" /\ Top.op = "entry"
  BY Zenon DEF thread_entry_lookup, In, At_
<1>2. Top.kind \in {"thread", "syscall"} /\ Top \in Frame /\ FrameOK(on, depth[on], Top)
  BY <1>1, TopOK, Zenon DEF FrameOK, Frame, Kind
<1>3. CASE cur \in User
  <2> DEFINE f == Then(Top, "load")
  <2>1. /\ f \in Frame /\ f.at = "read" /\ f.op = "load" /\ f.kind = Top.kind
        /\ f.spie = Top.spie /\ f.spp = Top.spp
    BY <1>2, ThenFrame, Zenon DEF Op
  <2>2. Leave(f) /\ on \in User
    BY <1>1, <1>2, <1>3, OnThread, Zenon DEF thread_entry_lookup
  <2> HIDE DEF f
  <2>3. FrameOK(on, depth[on], f)
    BY <1>1, <1>2, <2>1, <2>2, Zenon DEF FrameOK, PlaceOK
  <2> QED
    BY <1>1, <1>2, <2>1, <2>2, <2>3, LeaveStep, Zenon
<1>4. CASE cur \notin User
  <2> DEFINE f == Done(Top)
  <2>1. /\ f \in Frame /\ f.op = "run" /\ f.kind = Top.kind
        /\ f.at = (IF Top.kind = "thread" THEN "idle" ELSE "ret")
        /\ f.spie = Top.spie /\ f.spp = Top.spp
    BY <1>2, DoneFrame, Zenon
  <2>2. Leave(f)
    BY <1>4, Zenon DEF thread_entry_lookup
  <2> HIDE DEF f
  <2>3. FrameOK(on, depth[on], f)
    BY <1>1, <1>2, <2>1, Zenon DEF FrameOK, PlaceOK
  <2> QED
    BY <1>1, <1>2, <2>1, <2>2, <2>3, LeaveStep, Zenon
<1> QED
  BY <1>3, <1>4, Zenon

\* user_load and exec leave their section on the way to enter_user.
LEMMA user_load_OK == IInv /\ (user_load \/ exec) => IInv'
<1> SUFFICES ASSUME IInv, user_load \/ exec PROVE IInv'
  OBVIOUS
<1> DEFINE f == [Top EXCEPT !.op = "run", !.old = 0, !.at = "enter"]
<1>1. /\ mode = "S" /\ Top.at = "body" /\ Top.op \in {"load", "exec"}
      /\ Leave(f)
  BY Zenon DEF user_load, exec, In, At_
<1>2. /\ f \in Frame /\ f.at = "enter" /\ f.op = "run" /\ f.kind = Top.kind
      /\ f.spie = Top.spie /\ f.spp = Top.spp
  BY <1>1, TopOK, Zenon DEF Frame, Op, At, Bit
<1> HIDE DEF f
<1>3. FrameOK(on, depth[on], f) /\ Top.kind # "sched"
  BY <1>1, <1>2, TopOK, Zenon DEF FrameOK, PlaceOK, Frame, Kind
<1> QED
  BY <1>1, <1>2, <1>3, LeaveStep, Zenon

\* on_tick_preempt decides whether to yield.
LEMMA on_tick_preempt_OK == IInv /\ on_tick_preempt => IInv'
<1> SUFFICES ASSUME IInv, on_tick_preempt PROVE IInv'
  OBVIOUS
<1>1. mode = "S" /\ Top.at = "body" /\ Top.op = "preempt"
  BY Zenon DEF on_tick_preempt, In, At_
<1>2. Top.kind = "timer" /\ Top \in Frame /\ FrameOK(on, depth[on], Top)
  BY <1>1, TopOK, Zenon DEF FrameOK
<1>3. CASE should_yield
  <2> DEFINE f == Then(Top, "yield")
  <2>1. /\ f \in Frame /\ f.at = "read" /\ f.op = "yield" /\ f.kind = Top.kind
        /\ f.spie = Top.spie /\ f.spp = Top.spp
    BY <1>2, ThenFrame, Zenon DEF Op, AllOps
  <2>2. Leave(f)
    BY <1>3, Zenon DEF on_tick_preempt
  <2> HIDE DEF f
  <2>3. FrameOK(on, depth[on], f)
    BY <1>1, <1>2, <2>1, Zenon DEF FrameOK, PlaceOK
  <2> QED
    BY <1>1, <1>2, <2>1, <2>2, <2>3, LeaveStep, Zenon
<1>4. CASE ~should_yield
  <2> DEFINE f == Done(Top)
  <2>1. /\ f \in Frame /\ f.op = "run" /\ f.kind = Top.kind /\ f.at = "ret"
        /\ f.spie = Top.spie /\ f.spp = Top.spp
    BY <1>2, DoneFrame, Zenon
  <2>2. Leave(f)
    BY <1>4, Zenon DEF on_tick_preempt
  <2> HIDE DEF f
  <2>3. FrameOK(on, depth[on], f)
    BY <1>1, <1>2, <2>1, Zenon DEF FrameOK, PlaceOK
  <2> QED
    BY <1>1, <1>2, <2>1, <2>2, <2>3, LeaveStep, Zenon
<1> QED
  BY <1>3, <1>4, Zenon

\* A thread resumes in sched: set_intena gives it back its own intent.
LEMMA sched_return_OK == IInv /\ sched_return => IInv'
<1> SUFFICES ASSUME IInv, sched_return PROVE IInv'
  OBVIOUS
<1>1. mode = "S" /\ Top.at = "back" /\ Top.op \in {"yield", "join", "nap"}
  BY Zenon DEF sched_return, At_
<1>2. Top \in Frame /\ FrameOK(on, depth[on], Top) /\ Top.kind # "sched" /\ on # Boot
  BY <1>1, TopOK, Zenon DEF FrameOK
<1>3. PICK f \in Frame :
        /\ Put(f) /\ f.kind = Top.kind /\ f.spie = Top.spie /\ f.spp = Top.spp
        /\ \/ f.op = "run" /\ f.at = (IF Top.kind = "thread" THEN "idle" ELSE "ret")
           \/ f.op = "join" /\ f.at = "read" /\ Top.op = "join"
           \/ f.op = "nap" /\ f.at = "while" /\ Top.op = "nap"
  <2>1. CASE Top.op = "yield"
    <3>1. Put(Done(Top))
      BY <2>1, Zenon DEF sched_return
    <3> QED
      BY <1>2, <3>1, DoneFrame, Zenon
  <2>2. CASE Top.op = "join"
    BY <1>1, <1>2, <2>2, ThenFrame DEF sched_return, Op, AllOps
  <2>3. CASE Top.op = "nap"
    <3> DEFINE f == [Top EXCEPT !.at = "while"]
    <3>1. Put(f)
      BY <2>3, SMTT(20) DEF sched_return, Goto
    <3>2. /\ f \in Frame /\ f.op = Top.op /\ f.kind = Top.kind
          /\ f.at = "while" /\ f.spie = Top.spie /\ f.spp = Top.spp
      <4>1. "while" \in At
        BY Zenon DEF At
      <4> QED
        BY <1>2, <4>1, GotoFrame, Zenon
    <3> HIDE DEF f
    <3> QED
      BY <2>3, <3>1, <3>2, Zenon
  <2> QED
    BY <1>1, <2>1, <2>2, <2>3, Zenon
<1>4. FrameOK(on, depth[on], f)
  BY <1>1, <1>2, <1>3, Zenon DEF FrameOK, PlaceOK, Frame, Kind
<1>5. RegsOK(f, on, SIE', NOFF', INTENA', sscratch) /\ SIE' \in Bit /\ INTENA' \in Bit
  BY <1>1, <1>2, <1>3, TopOK
     DEF RegsOK, FrameOK, Intent, sched_return, pop_off, Frame, Kind, Bit
<1> QED
  BY <1>1, <1>2, <1>3, <1>4, <1>5, TopOK, StepInPlace, Zenon
     DEF sched_return, hart, table

\* sleep_ticks tests its target outside the section.
LEMMA sleep_ticks_while_OK == IInv /\ sleep_ticks_while => IInv'
<1> SUFFICES ASSUME IInv, sleep_ticks_while PROVE IInv'
  OBVIOUS
<1>1. mode = "S" /\ Top.at = "while" /\ Top.op = "nap"
  BY Zenon DEF sleep_ticks_while, In, At_
<1>2. Top \in Frame /\ FrameOK(on, depth[on], Top)
  BY <1>1, TopOK, Zenon
<1>3. PICK f \in Frame :
        /\ Put(f) /\ f.kind = Top.kind /\ f.spie = Top.spie /\ f.spp = Top.spp
        /\ \/ f.op = "run" /\ f.at = (IF Top.kind = "thread" THEN "idle" ELSE "ret")
           \/ f.op = "nap" /\ f.at = "read"
  BY <1>2, DoneFrame, ThenFrame DEF sleep_ticks_while, Op, AllOps
<1>4. FrameOK(on, depth[on], f)
  BY <1>1, <1>2, <1>3, Zenon DEF FrameOK, PlaceOK, Frame, Kind
<1>5. RegsOK(f, on, SIE, NOFF, INTENA, sscratch)
  BY <1>1, <1>2, <1>3, TopOK, Zenon DEF RegsOK
<1> QED
  BY <1>1, <1>2, <1>3, <1>4, <1>5, TopOK, StepInPlace, Zenon
     DEF sleep_ticks_while, hart, table, intr

\* thread_entry releases the level the scheduler holds for a new thread.
LEMMA thread_entry_OK == IInv /\ thread_entry => IInv'
<1> SUFFICES ASSUME IInv, thread_entry PROVE IInv'
  OBVIOUS
<1> DEFINE f == Then(Top, "entry")
<1>1. Put(f) /\ mode = "S" /\ Top.at = "fresh"
  BY Zenon DEF thread_entry, At_
<1>2. /\ f \in Frame /\ f.at = "read" /\ f.op = "entry" /\ f.kind = Top.kind
      /\ f.spie = Top.spie /\ f.spp = Top.spp
  BY <1>1, TopOK, ThenFrame, Zenon DEF Op
<1> HIDE DEF f
<1>3. FrameOK(on, depth[on], f) /\ Top.op = "run"
  BY <1>1, <1>2, TopOK, Zenon DEF FrameOK, PlaceOK
<1>4. RegsOK(f, on, SIE', NOFF', INTENA, sscratch) /\ SIE' \in Bit
  <2>1. Top.kind = "thread"
    BY <1>1, TopOK, Zenon DEF FrameOK
  <2> QED
    BY <1>1, <1>2, <2>1, TopOK DEF RegsOK, thread_entry, Bit
<1> QED
  BY <1>1, <1>2, <1>3, <1>4, TopOK, StepInPlace, Zenon DEF thread_entry, hart, table

\* The steps that only move to another place: the two windows of enter_user,
\* the head of the scheduler loop and wfi.
LEMMA goto_OK ==
  IInv /\ (enter_user_intr_off \/ enter_user_arm \/ scheduler_intr_on \/ wfi) => IInv'
<1> SUFFICES ASSUME IInv,
                    enter_user_intr_off \/ enter_user_arm \/ scheduler_intr_on \/ wfi
             PROVE  IInv'
  OBVIOUS
<1>1. mode = "S" /\ Top.at \in {"enter", "arm", "loop", "wfi0"}
  BY Zenon DEF enter_user_intr_off, enter_user_arm, scheduler_intr_on, wfi, At_
<1>2. Top \in Frame /\ FrameOK(on, depth[on], Top)
  BY <1>1, TopOK, Zenon
<1>3. PICK f \in Frame :
        /\ Put(f) /\ f.kind = Top.kind /\ f.op = Top.op /\ f.spie = Top.spie
        /\ f.spp = Top.spp /\ f.arg = Top.arg
        /\ \/ enter_user_intr_off /\ f.at = "arm"
           \/ enter_user_arm /\ f.at = "sret"
           \/ scheduler_intr_on /\ f.at = "read"
           \/ wfi /\ f.at = "wfi"
  <2>1. PICK place \in {"arm", "sret", "read", "wfi"} :
          /\ Goto(place)
          /\ \/ enter_user_intr_off /\ place = "arm"
             \/ enter_user_arm /\ place = "sret"
             \/ scheduler_intr_on /\ place = "read"
             \/ wfi /\ place = "wfi"
    BY Zenon DEF enter_user_intr_off, enter_user_arm, scheduler_intr_on, wfi
  <2> DEFINE g == [Top EXCEPT !.at = place]
  <2>2. /\ g \in Frame /\ g.op = Top.op /\ g.kind = Top.kind /\ g.at = place
        /\ g.spie = Top.spie /\ g.spp = Top.spp /\ g.arg = Top.arg
    <3>1. place \in At
      BY <2>1, Zenon DEF At
    <3> QED
      BY <1>2, <3>1, GotoFrame, Zenon
  <2>3. Put(g)
    BY <2>1, Zenon DEF Goto
  <2> HIDE DEF g
  <2> QED
    BY <2>1, <2>2, <2>3, Zenon
<1>4. FrameOK(on, depth[on], f)
  <2>1. /\ enter_user_intr_off => Top.at = "enter"
        /\ enter_user_arm => Top.at = "arm"
        /\ scheduler_intr_on => Top.at = "loop"
        /\ wfi => Top.at = "wfi0"
    BY Zenon DEF enter_user_intr_off, enter_user_arm, scheduler_intr_on, wfi, At_
  <2>2. \/ /\ on \in User /\ Top.kind \in {"thread", "syscall"}
           /\ f.at \in {"arm", "sret"} /\ Top.at \in {"enter", "arm"}
        \/ Top.kind = "sched" /\ f.at \in {"read", "wfi"}
    BY <1>1, <1>2, <1>3, <2>1, Zenon DEF FrameOK, PlaceOK, Frame, Kind
  <2> QED
    BY <1>1, <1>2, <1>3, <2>2 DEF FrameOK, PlaceOK
<1>5. /\ RegsOK(f, on, SIE', NOFF', INTENA', sscratch')
      /\ SIE' \in Bit /\ INTENA' \in Bit /\ sscratch' \in Ctx
  BY <1>1, <1>2, <1>3, TopOK
     DEF RegsOK, FrameOK, PlaceOK, Bit, Frame, Kind, At_, intr, hart,
         enter_user_intr_off, enter_user_arm, scheduler_intr_on, wfi
<1> QED
  BY <1>1, <1>2, <1>3, <1>4, <1>5, TopOK, StepInPlace, Zenon
     DEF enter_user_intr_off, enter_user_arm, scheduler_intr_on, wfi, hart,
         intr, table

----------------------------------------------------------------------------
(* The timer handler's own steps.                                          *)

\* on_tick counts a tick; the sleepers it frees are woken by the same handler.
LEMMA on_tick_OK == IInv /\ on_tick => IInv'
<1> SUFFICES ASSUME IInv, on_tick PROVE IInv'
  OBVIOUS
<1> DEFINE f == Then(Top, "wake")
<1>1. Put(f) /\ mode = "S" /\ Top.at = "go" /\ Top.op = "tick"
  BY Zenon DEF on_tick, In, At_
<1>2. /\ f \in Frame /\ f.at = "read" /\ f.op = "wake" /\ f.kind = Top.kind
      /\ f.spie = Top.spie /\ f.spp = Top.spp
  BY <1>1, TopOK, ThenFrame DEF Op
<1> HIDE DEF f
<1>3. FrameOK(on, depth[on], f) /\ Top.kind = "timer"
  BY <1>1, <1>2, TopOK, Zenon DEF FrameOK, PlaceOK
<1>4. RegsOK(f, on, SIE, NOFF, INTENA, sscratch)
  BY <1>1, <1>2, <1>3, TopOK, Zenon DEF RegsOK
<1>5. Top' = f /\ depth' = depth /\ frame' \in [Ctx -> [1..MaxDepth -> Frame]]
  BY <1>1, <1>2, PutFacts, TopFacts DEF Top, IInv, on_tick, hart
<1>6. StacksOK' /\ WaitingOK' /\ TableOK' /\ SlotsOK' /\ SpawnsOK'
  <2>1. Alike(state, state')
    BY SMTT(20) DEF Alike, on_tick, table
  <2> QED
    BY <1>1, <1>2, <1>3, <2>1, StayStacks, StaySlots, Zenon DEF on_tick, hart, table
<1>7. NoLostWakeup'
  <2>1. \A p \in Pid : state[p] \in Chan => frame'[p][depth'[p]] = frame[p][depth[p]]
    BY <1>1, <1>2, AsleepUntouched, Zenon DEF on_tick, hart
  <2> QED
    BY <1>1, <1>2, <1>5, <2>1 DEF NoLostWakeup, IInv, on_tick, hart, table, Chan
<1>8. HartOK'
  BY <1>1, <1>4, <1>5, TopFacts, Zenon DEF HartOK, IInv, on_tick, hart, intr
<1>9. TypeOK'
  BY <1>1, <1>5 DEF TypeOK, IInv, on_tick, hart, intr, table
<1> QED
  BY <1>6, <1>7, <1>8, <1>9, Zenon DEF IInv

\* wakeup(TICK_CHAN) wakes the sleepers in sleep_ticks.
LEMMA wakeup_OK == IInv /\ wakeup => IInv'
<1> SUFFICES ASSUME IInv, wakeup PROVE IInv'
  OBVIOUS
<1> DEFINE f == Then(Top, "preempt")
<1>1. Put(f) /\ mode = "S" /\ Top.at = "body" /\ Top.op = "wake"
  BY Zenon DEF wakeup, In, At_
<1>2. /\ f \in Frame /\ f.at = "read" /\ f.op = "preempt" /\ f.kind = Top.kind
      /\ f.spie = Top.spie /\ f.spp = Top.spp
  BY <1>1, TopOK, ThenFrame DEF Op
<1> HIDE DEF f
<1>3. FrameOK(on, depth[on], f) /\ Top.kind = "timer" /\ Top.old = 0
  BY <1>1, <1>2, TopOK, Zenon DEF FrameOK, PlaceOK, Intent
<1>4. RegsOK(f, on, SIE', NOFF', INTENA, sscratch) /\ SIE' \in Bit
  BY <1>1, <1>2, <1>3, TopOK DEF RegsOK, wakeup, pop_off, Bit
<1>5. Top' = f /\ depth' = depth /\ frame' \in [Ctx -> [1..MaxDepth -> Frame]]
  BY <1>1, <1>2, PutFacts, TopFacts DEF Top, IInv, wakeup, hart
<1>6. /\ state' \in [Pid -> State]
      /\ \A p \in Pid : state'[p] = IF state[p] = "TICK_CHAN" THEN "Runnable" ELSE state[p]
  BY Zenon DEF wakeup, woken, IInv, TypeOK, State
<1>7. StacksOK' /\ WaitingOK' /\ TableOK' /\ SlotsOK' /\ SpawnsOK'
  <2>1. Alike(state, state')
    BY <1>6, Zenon DEF Alike
  <2> QED
    BY <1>1, <1>2, <1>3, <2>1, StayStacks, StaySlots, Zenon DEF wakeup, hart
<1>8. NoLostWakeup'
  <2>1. \A p \in Pid : state[p] \in Chan => frame'[p][depth'[p]] = frame[p][depth[p]]
    BY <1>1, <1>2, AsleepUntouched, Zenon DEF wakeup, hart
  <2> QED
    BY <1>6, <2>1, ConstantsAssumption, SMTT(20) DEF NoLostWakeup, IInv, Chan
<1>9. HartOK'
  BY <1>1, <1>4, <1>5, TopFacts, Zenon DEF HartOK, IInv, wakeup, hart
<1>10. TypeOK'
  BY <1>1, <1>4, <1>5, <1>6, Zenon DEF TypeOK, IInv, wakeup, hart, RegsOK
<1> QED
  BY <1>7, <1>8, <1>9, <1>10, Zenon DEF IInv

----------------------------------------------------------------------------
(* Giving up the hart.                                                     *)

\* Code that may call sched() runs in a thread whose slot is `current'.
LEMMA OnCurrent ==
  ASSUME IInv, mode = "S", current # None,
         Top.op \in {"yield", "exit", "join", "nap"}
  PROVE  on \in Pid /\ on # Boot /\ cur = on
<1>1. Top.kind # "sched" /\ FrameOK(on, depth[on], Top) /\ on \in Ctx
  BY TopOK, Zenon DEF FrameOK
<1>2. on # Boot
  <2> SUFFICES ASSUME on = Boot PROVE FALSE
    OBVIOUS
  <2>1. depth[on] \in 1..MaxDepth /\ depth[on] <= 2
    BY TopFacts, Zenon DEF IInv, StacksOK
  <2>2. depth[on] = 2
    BY <1>1, <2>1, ConstantsAssumption DEF FrameOK
  <2>3. frame[Boot][1].at # "back"
    BY <1>1, <2>2, Zenon DEF IInv, StacksOK, Interrupted
  <2> QED
    BY <2>3, Zenon DEF IInv, TableOK
<1> QED
  BY <1>1, <1>2 DEF IInv, TableOK, cur, Ctx, Pid, Boot

\* sched() leaves everything but the sleepers in order, provided the thread
\* gives up Running and nobody else is made Running, None or non-Runnable.
LEMMA SwitchOut ==
  ASSUME IInv, mode = "S", Top.at = "body", current # None,
         Top.op \in {"yield", "exit", "join", "nap"}, sched,
         state' \in [Pid -> State], state'[on] \notin {"None", "Running"},
         \A p \in Pid \ {on} : /\ state[p] = "None" <=> state'[p] = "None"
                               /\ state'[p] # "Running"
                               /\ state[p] = "Runnable" => state'[p] = "Runnable",
         UNCHANGED <<procs, current, next_slot, NEXT_PID, remaining>>
  PROVE  /\ TypeOK' /\ StacksOK' /\ HartOK' /\ WaitingOK' /\ TableOK'
         /\ SlotsOK' /\ SpawnsOK' /\ on' = Boot /\ mode' = "S"
         /\ depth' = depth
         /\ frame'[on][depth[on]].op = Top.op
         /\ frame'[on][depth[on]].arg = Top.arg
         /\ \A p \in Pid \ {on}, d \in 1..MaxDepth : frame'[p][d] = frame[p][d]
<1> DEFINE f == [Top EXCEPT !.at = "back", !.sav = INTENA]
<1>1. Put(f) /\ on' = Boot /\ UNCHANGED <<intr, mode, sscratch, satp>>
  BY Zenon DEF sched
<1>2. /\ f \in Frame /\ f.at = "back" /\ f.sav = INTENA /\ f.op = Top.op
      /\ f.kind = Top.kind /\ f.arg = Top.arg /\ f.spie = Top.spie /\ f.spp = Top.spp
  BY TopOK, Zenon DEF Frame, At
<1> HIDE DEF f
<1>3. on \in Pid /\ on # Boot /\ cur = on
  BY OnCurrent, Zenon
<1>4. FrameOK(on, depth[on], f)
  BY <1>2, <1>3, TopOK DEF FrameOK, PlaceOK, Intent, RegsOK
<1>5. /\ depth' = depth
      /\ frame' \in [Ctx -> [1..MaxDepth -> Frame]]
      /\ \A c \in Ctx, d \in 1..MaxDepth :
           frame'[c][d] = IF c = on /\ d = depth[on] THEN f ELSE frame[c][d]
  BY <1>1, <1>2, PutFacts, Zenon DEF IInv
<1>6. on \in Ctx /\ depth[on] \in 1..MaxDepth
  BY TopFacts, Zenon DEF IInv
<1>7. depth \in [Ctx -> 0..MaxDepth] /\ Boot \in Ctx /\ Pid \subseteq Ctx /\ 1 \in 1..MaxDepth
  BY Contexts, Zenon DEF IInv, TypeOK
<1>8. depth[Boot] = 1 /\ frame[Boot][1].at = "back" /\ frame'[Boot][1] = frame[Boot][1]
  BY <1>3, <1>5, <1>7, Zenon DEF IInv, WaitingOK
<1>9. TypeOK'
  <2>1. depth'[on'] > 0
    BY <1>1, <1>5, <1>8
  <2> QED
    BY <1>1, <1>5, <1>7, <2>1, Zenon DEF IInv, TypeOK, intr
<1>10. StacksOK'
  <2>1. \A c \in Ctx : /\ depth[c] \in 0..2
                       /\ \A d \in 1..depth[c] : FrameOK(c, d, frame[c][d])
                       /\ depth[c] = 2 => Interrupted(frame[c][1])
    BY Stacks, Zenon
  <2>2. \A c \in Ctx : 1..depth[c] \subseteq 1..MaxDepth
    BY Levels, Zenon DEF IInv
  <2>3. \A c \in Ctx : depth[c] = 2 => frame'[c][1] = frame[c][1]
    BY <1>5, <1>7, SMTT(30)
  <2>4. \A c \in Ctx : \A d \in 1..depth[c] : FrameOK(c, d, frame'[c][d])
    BY <1>4, <1>5, <2>1, <2>2, ZenonT(60)
  <2>5. \A c \in Ctx : depth[c] <= 2
    BY <2>1
  <2> QED
    BY <1>5, <2>1, <2>3, <2>4, <2>5, Zenon DEF StacksOK
<1>11. HartOK'
  <2>1. Top' = frame[Boot][1]
    BY <1>1, <1>5, <1>8, Zenon DEF Top
  <2>2. FrameOK(Boot, 1, frame[Boot][1])
    <3>1. 1 \in 1..depth[Boot]
      BY <1>8
    <3> QED
      BY <1>7, <3>1, Zenon DEF IInv, StacksOK
  <2>3. frame[Boot][1].kind = "sched" /\ frame[Boot][1].at = "back"
    BY <1>8, <2>2, Zenon DEF FrameOK
  <2>4. SIE = 0 /\ NOFF = 1 /\ sscratch = 0
    <3>1. Top.at = "body" /\ RegsOK(Top, on, SIE, NOFF, INTENA, sscratch)
      BY TopOK, Zenon DEF At
    <3> QED
      BY <3>1, Zenon DEF RegsOK
  <2>5. RegsOK(frame[Boot][1], Boot, 0, 1, INTENA, 0)
    BY <2>3, Zenon DEF RegsOK
  <2>6. mode' = "S" /\ depth'[on'] > 0
    BY <1>1, <1>5, <1>8, SMTT(30)
  <2>7. RegsOK(Top', on', SIE', NOFF', INTENA', sscratch')
    BY <1>1, <2>1, <2>4, <2>5, Zenon DEF intr
  <2> QED
    BY <2>6, <2>7, Zenon DEF HartOK
<1>12. WaitingOK'
  <2>1. on' = Boot => depth'[Boot] > 0
    BY <1>5, <1>8
  <2>2. \A p \in Pid \ {on} : depth[p] > 0 => frame'[p][depth[p]] = frame[p][depth[p]]
    BY <1>5, <1>7, Levels, ZenonT(60) DEF IInv
  <2>3. frame'[on][depth'[on]] = f /\ f.at = "back"
    BY <1>2, <1>5, <1>6, Zenon
  <2>4. state[on] # "None" /\ depth[on] # 0
    BY <1>3, <1>6, ConstantsAssumption DEF IInv, TableOK
  <2> QED
    BY <1>1, <1>2, <1>3, <1>5, <2>1, <2>2, <2>3, <2>4, ZenonT(60) DEF IInv, WaitingOK
<1>13. TableOK'
  <2>1. \A p \in Pid : state'[p] = "Running" <=> on' = p
    BY <1>1, <1>3 DEF IInv, TableOK, Boot, Pid
  <2>2. satp # KernelRoot => satp = on
    BY <1>3, Zenon DEF IInv, TableOK
  <2> QED
    BY <1>1, <1>3, <1>8, <2>1, <2>2, Zenon DEF TableOK
<1>14. SlotsOK'
  BY <1>3, ZenonT(60) DEF IInv, SlotsOK, TableOK
<1>15. SpawnsOK'
  <2>1. \A c \in Ctx, d \in 1..MaxDepth : frame'[c][d].op = "spawn" =>
          frame[c][d].op = "spawn" /\ frame'[c][d] = frame[c][d]
    BY <1>2, <1>5, Zenon
  <2>2. \A c \in Ctx : 1..depth[c] \subseteq 1..MaxDepth
    BY Levels, Zenon DEF IInv
  <2>3. state[on] # "None"
    BY <1>3, Zenon DEF IInv, TableOK
  <2> QED
    <3>1. \A c \in Ctx : \A d \in 1..depth'[c] : frame'[c][d].op = "spawn" =>
            /\ frame'[c][d] = frame[c][d] /\ d \in 1..depth[c]
            /\ frame[c][d].op = "spawn"
      BY <1>5, <2>1, <2>2, Zenon
    <3>2. \A p \in Pid : state[p] = "None" => state'[p] = "None"
      BY <2>3, Zenon
    <3>3. NEXT_PID' = NEXT_PID
      OBVIOUS
    <3>4. \A c \in Ctx : \A d \in 1..depth'[c] : frame'[c][d].op = "spawn" =>
            /\ frame'[c][d].arg \in Pid /\ frame'[c][d].arg < NEXT_PID'
            /\ state'[frame'[c][d].arg] = "None"
      BY <3>1, <3>2, <3>3, SpawnPid, SMTT(30)
    <3>5. ASSUME NEW c1 \in Ctx, NEW c2 \in Ctx,
                 NEW d1 \in 1..depth'[c1], NEW d2 \in 1..depth'[c2],
                 frame'[c1][d1].op = "spawn", frame'[c2][d2].op = "spawn",
                 frame'[c1][d1].arg = frame'[c2][d2].arg
          PROVE  c1 = c2 /\ d1 = d2
      BY <3>1, <3>5, SpawnOne, SMTT(30)
    <3> QED
      BY <3>4, <3>5, SMTT(30) DEF SpawnsOK
<1> QED
  BY <1>1, <1>2, <1>5, <1>6, <1>7, <1>9, <1>10, <1>11, <1>12, <1>13, <1>14, <1>15

\* After a switch, the sleepers are those that slept before and perhaps the
\* thread that gave up the hart.
LEMMA SwitchAwake ==
  ASSUME IInv, mode = "S", on \in Pid, Top.op # "wake", depth' = depth,
         frame'[on][depth[on]].op = Top.op, frame'[on][depth[on]].arg = Top.arg,
         \A p \in Pid \ {on}, d \in 1..MaxDepth : frame'[p][d] = frame[p][d],
         remaining' = remaining,
         state'[on] = "EXIT_CHAN" =>
           /\ Top.op = "join" /\ Top.arg \in Pid
           /\ state'[Top.arg] \notin {"None", "Zombie"},
         state'[on] = "TICK_CHAN" => Top.op = "nap" /\ remaining[on] > 0,
         \A p \in Pid \ {on} : /\ state'[p] = "TICK_CHAN" => state[p] = "TICK_CHAN"
                               /\ state'[p] = "EXIT_CHAN" =>
                                    /\ state[p] = "EXIT_CHAN"
                                    /\ state'[frame[p][depth[p]].arg] \notin {"None", "Zombie"}
  PROVE  NoLostWakeup'
<1>1. ASSUME NEW p \in Pid \ {on}, state'[p] \in Chan
      PROVE  frame'[p][depth[p]] = frame[p][depth[p]]
  <2>1. state[p] # "None" /\ p \in Ctx
    BY <1>1, ConstantsAssumption DEF Chan, Pid, Ctx
  <2>2. depth[p] # 0 /\ depth[p] \in 0..MaxDepth
    BY <1>1, <2>1, ZenonT(60) DEF IInv, WaitingOK, TypeOK
  <2> QED
    BY <1>1, <2>2, ConstantsAssumption
<1>2. ASSUME NEW p \in Pid \ {on}, state'[p] = "EXIT_CHAN"
      PROVE  LET g == frame'[p][depth'[p]] IN
             g.op = "join" /\ g.arg \in Pid /\ state'[g.arg] \notin {"None", "Zombie"}
  BY <1>1, <1>2, SMTT(30) DEF IInv, NoLostWakeup, Chan
<1>3. ASSUME NEW p \in Pid \ {on}, state'[p] = "TICK_CHAN"
      PROVE  frame'[p][depth'[p]].op = "nap" /\ remaining'[p] > 0
  BY <1>1, <1>3 DEF IInv, NoLostWakeup, Chan
<1> QED
  BY <1>2, <1>3, SMTT(30) DEF NoLostWakeup

\* yield_now.
LEMMA yield_now_OK == IInv /\ yield_now => IInv'
<1> SUFFICES ASSUME IInv, yield_now PROVE IInv'
  OBVIOUS
<1>1. mode = "S" /\ Top.at = "body" /\ Top.op = "yield" /\ current # None /\ sched
  BY Zenon DEF yield_now, In, At_
<1>2. on \in Pid /\ cur = on
  BY <1>1, OnCurrent, Zenon
<1>3. /\ state' \in [Pid -> State] /\ state'[on] = "Runnable"
      /\ \A p \in Pid \ {on} : state'[p] = state[p] /\ state[p] # "Running"
  BY <1>2, Zenon DEF yield_now, IInv, TypeOK, State, TableOK
<1>4. /\ TypeOK' /\ StacksOK' /\ HartOK' /\ WaitingOK' /\ TableOK'
      /\ SlotsOK' /\ SpawnsOK' /\ depth' = depth
      /\ frame'[on][depth[on]].op = Top.op
      /\ frame'[on][depth[on]].arg = Top.arg
      /\ \A p \in Pid \ {on}, d \in 1..MaxDepth : frame'[p][d] = frame[p][d]
  BY <1>1, <1>3, SwitchOut, Zenon DEF yield_now
<1>5. NoLostWakeup'
  <2>1. \A p \in Pid \ {on} : state'[p] = "EXIT_CHAN" =>
          state'[frame[p][depth[p]].arg] \notin {"None", "Zombie"}
    BY <1>3, Zenon DEF IInv, NoLostWakeup
  <2> QED
    BY <1>1, <1>2, <1>3, <1>4, <2>1, SwitchAwake, Zenon DEF yield_now
<1> QED
  BY <1>4, <1>5, Zenon DEF IInv

\* exit: the joiners are woken in the section that makes the zombie.
LEMMA exit_OK == IInv /\ exit => IInv'
<1> SUFFICES ASSUME IInv, exit PROVE IInv'
  OBVIOUS
<1>1. mode = "S" /\ Top.at = "body" /\ Top.op = "exit" /\ current # None /\ sched
  BY Zenon DEF exit, In, At_
<1>2. on \in Pid /\ cur = on
  BY <1>1, OnCurrent, Zenon
<1>3. /\ state' \in [Pid -> State] /\ state'[on] = "Zombie"
      /\ \A p \in Pid \ {on} :
           /\ state'[p] = IF state[p] = "EXIT_CHAN" THEN "Runnable" ELSE state[p]
           /\ state[p] # "Running"
  BY <1>2, Zenon DEF exit, woken, IInv, TypeOK, State, TableOK
<1>4. /\ TypeOK' /\ StacksOK' /\ HartOK' /\ WaitingOK' /\ TableOK'
      /\ SlotsOK' /\ SpawnsOK' /\ depth' = depth
      /\ frame'[on][depth[on]].op = Top.op
      /\ frame'[on][depth[on]].arg = Top.arg
      /\ \A p \in Pid \ {on}, d \in 1..MaxDepth : frame'[p][d] = frame[p][d]
  BY <1>1, <1>3, SwitchOut, Zenon DEF exit
<1>5. NoLostWakeup'
  BY <1>1, <1>2, <1>3, <1>4, SwitchAwake, Zenon DEF exit
<1> QED
  BY <1>4, <1>5, Zenon DEF IInv

\* The check of join and the check of sleep_ticks still hold when they sleep.
LEMMA sleep_OK ==
  ASSUME IInv, mode = "S", Top.at = "body",
         NEW chan \in Chan, sleep(chan),
         chan = "EXIT_CHAN" => Top.op = "join" /\ still_running(Top.arg),
         chan = "TICK_CHAN" => Top.op = "nap" /\ remaining[on] > 0
  PROVE  IInv'
<1>1. current # None /\ sched /\ Top.op \in {"join", "nap"}
  BY Zenon DEF sleep, Chan
<1>2. on \in Pid /\ cur = on
  BY <1>1, OnCurrent, Zenon
<1>3. /\ state' \in [Pid -> State] /\ state'[on] = chan
      /\ \A p \in Pid \ {on} : state'[p] = state[p] /\ state[p] # "Running"
  BY <1>2, Zenon DEF sleep, IInv, TypeOK, State, TableOK
<1>4. /\ TypeOK' /\ StacksOK' /\ HartOK' /\ WaitingOK' /\ TableOK'
      /\ SlotsOK' /\ SpawnsOK' /\ depth' = depth
      /\ frame'[on][depth[on]].op = Top.op
      /\ frame'[on][depth[on]].arg = Top.arg
      /\ \A p \in Pid \ {on}, d \in 1..MaxDepth : frame'[p][d] = frame[p][d]
  BY <1>1, <1>3, SwitchOut, Zenon DEF sleep, Chan
<1>5. chan = "EXIT_CHAN" => Top.arg \in Pid /\ state[Top.arg] \notin {"None", "Zombie"}
  BY SMTT(20) DEF still_running, IInv, SlotsOK, TypeOK, None, Pid
<1>6. NoLostWakeup'
  <2>1. \A p \in Pid \ {on} : state'[p] = "EXIT_CHAN" =>
          state'[frame[p][depth[p]].arg] \notin {"None", "Zombie"}
    BY <1>3, Zenon DEF IInv, NoLostWakeup, Chan
  <2>2. state'[on] = "EXIT_CHAN" =>
          /\ Top.op = "join" /\ Top.arg \in Pid
          /\ state'[Top.arg] \notin {"None", "Zombie"}
    BY <1>3, <1>5, Zenon DEF Chan
  <2> QED
    BY <1>1, <1>2, <1>3, <1>4, <2>1, <2>2, SwitchAwake, Zenon DEF sleep
<1> QED
  BY <1>4, <1>6, Zenon DEF IInv

\* join: check and sleep are one section.
LEMMA join_OK == IInv /\ join => IInv'
<1> SUFFICES ASSUME IInv, join PROVE IInv'
  OBVIOUS
<1>1. mode = "S" /\ Top.at = "body" /\ Top.op = "join" /\ In("join", "body")
  BY Zenon DEF join, In, At_
<1> QED
  BY <1>1, join_return_OK, sleep_OK, Zenon DEF join, Chan

\* sleep_ticks: check and sleep are one section.
LEMMA sleep_ticks_OK == IInv /\ sleep_ticks => IInv'
<1> SUFFICES ASSUME IInv, sleep_ticks PROVE IInv'
  OBVIOUS
<1>1. mode = "S" /\ Top.at = "body" /\ Top.op = "nap" /\ In("nap", "body")
  BY Zenon DEF sleep_ticks, In, At_
<1> QED
  BY <1>1, sleep_ticks_leave_OK, sleep_OK, Zenon DEF sleep_ticks, Chan

----------------------------------------------------------------------------
(* Calls, and publishing a new thread.                                     *)

\* A call's argument is in range; a spawn takes a pid nobody has.
LEMMA RequestFacts ==
  ASSUME IInv, NEW op \in Ops, NEW arg \in Ctx, NEW naps \in SUBSET Nat,
         on \in Pid, Request(op, arg, naps)
  PROVE  /\ NEXT_PID' \in 1..MaxPid + 1 /\ NEXT_PID' >= NEXT_PID
         /\ op # "spawn" => NEXT_PID' = NEXT_PID
         /\ op = "spawn" => /\ arg = NEXT_PID /\ arg \in Pid /\ arg < NEXT_PID'
                            /\ state[arg] = "None"
         /\ remaining' \in [Pid -> Nat]
         /\ \A p \in Pid \ {on} : remaining'[p] = remaining[p]
<1>1. op = "spawn" => arg = NEXT_PID /\ arg \in Pid /\ NEXT_PID' = NEXT_PID + 1
  BY Zenon DEF Request
<1>2. op # "spawn" => NEXT_PID' = NEXT_PID
  BY Zenon DEF Request
<1>3. NEXT_PID \in 1..MaxPid + 1
  BY Zenon DEF IInv, TypeOK
<1>4. /\ remaining' \in [Pid -> Nat]
      /\ \A p \in Pid \ {on} : remaining'[p] = remaining[p]
  BY Zenon DEF Request, IInv, TypeOK
<1>5. op = "spawn" => state[arg] = "None"
  BY <1>1, <1>3, ConstantsAssumption DEF IInv, SlotsOK, Pid
<1> QED
  BY <1>1, <1>2, <1>3, <1>4, <1>5, ConstantsAssumption DEF Pid

\* A kernel thread calls into proc.rs or timer.rs.
LEMMA thread_call_OK ==
  ASSUME IInv, NEW op \in Ops, NEW arg \in Ctx, thread_call(op, arg)
  PROVE  IInv'
<1> DEFINE f == [Top EXCEPT !.op = op, !.at = Start(op), !.arg = arg]
<1>1. /\ mode = "S" /\ Top.at = "idle" /\ Put(f) /\ Request(op, arg, 0..MaxNap)
      /\ op \notin {"nop", "exec"}
  BY Zenon DEF thread_call, At_
<1>2. Top.kind = "thread" /\ Top \in Frame /\ FrameOK(on, depth[on], Top)
  BY <1>1, TopOK, Zenon DEF FrameOK, PlaceOK, Frame, Kind
<1>3. on \in Pid
  BY <1>1, <1>2, OnThread, Zenon
<1>4. op \in AllOps /\ Start(op) \in {"read", "while"} /\ (Start(op) = "while" => op = "nap")
  BY <1>1, ConstantsAssumption, Zenon DEF Start
<1>5. /\ f \in Frame /\ f.at = Start(op) /\ f.op = op /\ f.kind = "thread" /\ f.arg = arg
      /\ f.spie = Top.spie /\ f.spp = Top.spp
  BY <1>2, <1>4, ZenonT(60) DEF Frame, Op, At, Ctx
<1> HIDE DEF f
<1>6. FrameOK(on, depth[on], f)
  BY <1>1, <1>2, <1>4, <1>5, Zenon DEF FrameOK, PlaceOK, AllOps
<1>7. RegsOK(f, on, SIE, NOFF, INTENA, sscratch)
  BY <1>1, <1>2, <1>4, <1>5, TopOK, Zenon DEF RegsOK
<1>8. /\ NEXT_PID' \in 1..MaxPid + 1 /\ NEXT_PID' >= NEXT_PID
      /\ op = "spawn" => /\ arg = NEXT_PID /\ arg \in Pid /\ arg < NEXT_PID'
                         /\ state[arg] = "None"
      /\ remaining' \in [Pid -> Nat]
      /\ \A p \in Pid \ {on} : remaining'[p] = remaining[p]
  BY <1>1, <1>3, RequestFacts, ConstantsAssumption
<1>9. /\ Top' = f /\ depth' = depth /\ frame' \in [Ctx -> [1..MaxDepth -> Frame]]
      /\ \A c \in Ctx, d \in 1..MaxDepth :
           frame'[c][d] = IF c = on /\ d = depth[on] THEN f ELSE frame[c][d]
  BY <1>1, <1>5, PutFacts, TopFacts DEF Top, IInv, thread_call, hart
<1>10. StacksOK' /\ WaitingOK' /\ TableOK'
  <2>1. Alike(state, state')
    BY Zenon DEF Alike, thread_call, table
  <2> QED
    BY <1>1, <1>4, <1>5, <1>6, <2>1, StayStacks, Zenon DEF thread_call, hart, table
<1>11. SlotsOK'
  <2>1. \A p \in Pid : p >= NEXT_PID' => p >= NEXT_PID
    BY <1>8, ConstantsAssumption DEF Pid, IInv, TypeOK
  <2> QED
    BY <2>1, Zenon DEF thread_call, table, IInv, SlotsOK
<1>12. SpawnsOK'
  <2>1. \A c \in Ctx : 1..depth[c] \subseteq 1..MaxDepth
    BY Levels, Zenon DEF IInv
  <2>2. \A c \in Ctx : \A d \in 1..depth[c] : frame[c][d].op = "spawn" =>
          /\ frame[c][d].arg \in Pid /\ frame[c][d].arg < NEXT_PID
          /\ frame[c][d].arg < NEXT_PID' /\ state[frame[c][d].arg] = "None"
    <3>1. \A q \in Pid : q < NEXT_PID => q < NEXT_PID'
      <4>1. NEXT_PID \in 1..MaxPid + 1
        BY Zenon DEF IInv, TypeOK
      <4> QED
        BY <1>8, <4>1, ConstantsAssumption DEF Pid
    <3> QED
      BY <3>1, Zenon DEF IInv, SpawnsOK
  <2>3. \A c \in Ctx : \A d \in 1..depth[c] : frame'[c][d].op = "spawn" =>
          /\ frame'[c][d].arg \in Pid /\ frame'[c][d].arg < NEXT_PID'
          /\ state[frame'[c][d].arg] = "None"
    <3> SUFFICES ASSUME NEW c \in Ctx, NEW d \in 1..depth[c], frame'[c][d].op = "spawn"
                 PROVE  /\ frame'[c][d].arg \in Pid /\ frame'[c][d].arg < NEXT_PID'
                        /\ state[frame'[c][d].arg] = "None"
      BY Zenon
    <3>1. frame'[c][d] = IF c = on /\ d = depth[on] THEN f ELSE frame[c][d]
      BY <1>9, <2>1, Zenon
    <3>2. CASE frame'[c][d] = f
      BY <1>5, <1>8, <3>2, SMTT(30)
    <3>3. CASE frame'[c][d] = frame[c][d]
      BY <2>2, <3>3
    <3> QED
      BY <3>1, <3>2, <3>3, Zenon
  <2>4. ASSUME NEW c1 \in Ctx, NEW c2 \in Ctx,
               NEW d1 \in 1..depth[c1], NEW d2 \in 1..depth[c2],
               frame'[c1][d1].op = "spawn", frame'[c2][d2].op = "spawn",
               frame'[c1][d1].arg = frame'[c2][d2].arg
        PROVE  c1 = c2 /\ d1 = d2
    <3>1. CASE (c1 = on /\ d1 = depth[on]) /\ ~(c2 = on /\ d2 = depth[on])
      <4>1. frame'[c1][d1] = f /\ frame'[c2][d2] = frame[c2][d2]
        BY <1>9, <2>1, <3>1, Zenon
      <4>2. f.op = "spawn" /\ f.arg = NEXT_PID /\ f.arg \in Pid
        BY <1>5, <1>8, <2>4, <4>1, Zenon
      <4>3. frame[c2][d2].arg < NEXT_PID /\ frame[c2][d2].arg = NEXT_PID
        BY <2>2, <2>4, <4>1, <4>2, Zenon
      <4> QED
        BY <4>2, <4>3 DEF Pid
    <3>2. CASE ~(c1 = on /\ d1 = depth[on]) /\ (c2 = on /\ d2 = depth[on])
      <4>1. frame'[c2][d2] = f /\ frame'[c1][d1] = frame[c1][d1]
        BY <1>9, <2>1, <3>2, Zenon
      <4>2. f.op = "spawn" /\ f.arg = NEXT_PID /\ f.arg \in Pid
        BY <1>5, <1>8, <2>4, <4>1, Zenon
      <4>3. frame[c1][d1].arg < NEXT_PID /\ frame[c1][d1].arg = NEXT_PID
        BY <2>2, <2>4, <4>1, <4>2, Zenon
      <4> QED
        BY <4>2, <4>3 DEF Pid
    <3>3. CASE ~(c1 = on /\ d1 = depth[on]) /\ ~(c2 = on /\ d2 = depth[on])
      <4>1. frame'[c1][d1] = frame[c1][d1] /\ frame'[c2][d2] = frame[c2][d2]
        BY <1>9, <2>1, <3>3, Zenon
      <4> QED
        BY <2>4, <4>1, SpawnOne, SMTT(30)
    <3> QED
      BY <3>1, <3>2, <3>3, Zenon
  <2> QED
    BY <1>9, <2>3, <2>4 DEF SpawnsOK, thread_call, table
<1>13. NoLostWakeup'
  <2>1. \A p \in Pid : state[p] \in Chan =>
          p # on /\ frame'[p][depth'[p]] = frame[p][depth[p]]
    BY <1>1, <1>5, AsleepUntouched, Zenon
  <2>2. Top.op # "wake"
    BY <1>2, Zenon DEF FrameOK
  <2> QED
    BY <1>8, <2>1, <2>2 DEF NoLostWakeup, IInv, thread_call, table, Chan
<1>14. HartOK'
  BY <1>1, <1>7, <1>9, TopFacts, Zenon DEF HartOK, IInv, thread_call, hart, intr
<1>15. TypeOK'
  BY <1>1, <1>8, <1>9, Zenon DEF TypeOK, IInv, thread_call, hart, intr, table
<1> QED
  BY <1>10, <1>11, <1>12, <1>13, <1>14, <1>15, Zenon DEF IInv

\* spawn_with puts the pid into one slot that was free or did not exist, and
\* disturbs no other.
LEMMA PublishFacts ==
  ASSUME TypeOK, NEW pid \in Pid, publish(pid)
  PROVE  /\ procs' \in Seq(Pid \cup {None})
         /\ Len(procs') >= Len(procs)
         /\ \A i \in DOMAIN procs : i \in DOMAIN procs'
         /\ \A i \in DOMAIN procs : procs[i] # None => procs'[i] = procs[i]
         /\ \E k \in DOMAIN procs' :
              /\ procs'[k] = pid
              /\ \A i \in DOMAIN procs' : i # k => i \in DOMAIN procs /\ procs'[i] = procs[i]
<1>1. CASE \E i \in Free : procs' = [procs EXCEPT ![i] = pid]
  <2>1. PICK k \in Free : procs' = [procs EXCEPT ![k] = pid]
    BY <1>1, Zenon
  <2>2. k \in DOMAIN procs /\ procs[k] = None
    BY <2>1, Zenon DEF Free
  <2>3. procs' \in Seq(Pid \cup {None}) /\ Len(procs') = Len(procs)
    BY <2>1, <2>2 DEF TypeOK
  <2>4. DOMAIN procs' = DOMAIN procs
    BY <2>1, Zenon
  <2> QED
    BY <2>1, <2>2, <2>3, <2>4 DEF TypeOK
<1>2. CASE procs' = Append(procs, pid)
  <2>1. procs' \in Seq(Pid \cup {None}) /\ Len(procs') = Len(procs) + 1
    BY <1>2 DEF TypeOK
  <2>2. procs'[Len(procs) + 1] = pid /\ \A i \in 1..Len(procs) : procs'[i] = procs[i]
    BY <1>2 DEF TypeOK
  <2>3. DOMAIN procs = 1..Len(procs) /\ DOMAIN procs' = 1..Len(procs) + 1 /\ Len(procs) \in Nat
    BY <2>1 DEF TypeOK
  <2> QED
    BY <2>1, <2>2, <2>3
<1> QED
  BY <1>1, <1>2, Zenon DEF publish

\* spawn_with publishes a thread with a forged context.
LEMMA spawn_with_OK == IInv /\ spawn_with => IInv'
<1> SUFFICES ASSUME IInv, spawn_with PROVE IInv'
  OBVIOUS
<1> DEFINE f == Done(Top)  pid == Top.arg
<1>1. mode = "S" /\ Top.at = "body" /\ Top.op = "spawn" /\ publish(pid)
  BY Zenon DEF spawn_with, In, At_
<1>2. /\ f \in Frame /\ f.op = "run" /\ f.kind = Top.kind
      /\ f.at = (IF Top.kind = "thread" THEN "idle" ELSE "ret")
      /\ f.spie = Top.spie /\ f.spp = Top.spp
  BY <1>1, TopOK, DoneFrame, Zenon
<1>3. Top.kind \in {"thread", "syscall"} /\ FrameOK(on, depth[on], Top)
  BY <1>1, TopOK, Zenon DEF FrameOK, Frame, Kind
<1>4. on \in Pid /\ on \in Ctx /\ depth[on] \in 1..MaxDepth /\ current \in DOMAIN procs /\ on # Boot
  BY <1>1, <1>3, OnThread, TopFacts, Contexts, Zenon DEF IInv
<1>5. pid \in Pid /\ pid < NEXT_PID /\ state[pid] = "None"
  <2>1. depth[on] \in 1..depth[on]
    BY <1>4, ConstantsAssumption
  <2> QED
    BY <1>1, <1>4, <2>1, Zenon DEF IInv, SpawnsOK, Top
<1>6. pid # on /\ pid \in Ctx /\ state[on] = "Running" /\ Boot \notin Pid
  <2>1. state[on] = "Running"
    BY <1>4, Zenon DEF IInv, TableOK
  <2> QED
    BY <1>5, <2>1, Contexts, Zenon
<1>7. /\ Forged \in Frame /\ Forged.at = "fresh" /\ Forged.kind = "thread" /\ Forged.op = "run"
      /\ NoFrame \in Frame /\ FrameOK(pid, 1, Forged)
  BY <1>5, <1>6, ConstantsAssumption
     DEF Forged, NoFrame, Frame, Kind, Op, At, Bit, FrameOK, PlaceOK
<1>8. OneFrame(Forged) \in [1..MaxDepth -> Frame] /\ OneFrame(Forged)[1] = Forged
  BY <1>7, ConstantsAssumption DEF OneFrame, NoStack
<1> HIDE DEF f, pid
<1>9. /\ frame' = [frame EXCEPT ![pid] = OneFrame(Forged), ![on][depth[on]] = f]
      /\ depth' = [depth EXCEPT ![pid] = 1]
      /\ state' = [state EXCEPT ![pid] = "Runnable"]
  BY Zenon DEF spawn_with, f, pid
<1>10. /\ frame' \in [Ctx -> [1..MaxDepth -> Frame]] /\ depth' \in [Ctx -> 0..MaxDepth]
       /\ depth'[pid] = 1 /\ frame'[pid][1] = Forged
       /\ \A c \in Ctx \ {pid} : depth'[c] = depth[c]
       /\ \A c \in Ctx \ {pid}, d \in 1..MaxDepth :
            frame'[c][d] = IF c = on /\ d = depth[on] THEN f ELSE frame[c][d]
  <2>1. frame \in [Ctx -> [1..MaxDepth -> Frame]] /\ depth \in [Ctx -> 0..MaxDepth]
    BY Zenon DEF IInv, TypeOK
  <2>2. /\ frame'[pid] = OneFrame(Forged)
        /\ frame'[on] = [frame[on] EXCEPT ![depth[on]] = f]
        /\ \A c \in Ctx \ {pid, on} : frame'[c] = frame[c]
    BY <1>4, <1>6, <1>9, <2>1, Zenon
  <2>3. frame' \in [Ctx -> [1..MaxDepth -> Frame]]
    <3>1. \A c \in Ctx : frame'[c] \in [1..MaxDepth -> Frame]
      <4>1. frame'[on] \in [1..MaxDepth -> Frame]
        BY <1>2, <1>4, <2>1, <2>2
      <4> QED
        BY <1>8, <2>1, <2>2, <4>1, Zenon
    <3>2. frame' = [c \in Ctx |-> frame'[c]]
      BY <1>9, <2>1, Zenon
    <3> QED
      BY <3>1, <3>2, Zenon
  <2>4. depth' \in [Ctx -> 0..MaxDepth] /\ depth'[pid] = 1
        /\ \A c \in Ctx \ {pid} : depth'[c] = depth[c]
    BY <1>6, <1>9, <2>1, ConstantsAssumption
  <2>5. \A c \in Ctx \ {pid}, d \in 1..MaxDepth :
          frame'[c][d] = IF c = on /\ d = depth[on] THEN f ELSE frame[c][d]
    BY <1>4, <1>6, <2>1, <2>2, ZenonT(60)
  <2> QED
    BY <1>8, <2>2, <2>3, <2>4, <2>5, Zenon
<1>11. /\ state' \in [Pid -> State] /\ state'[pid] = "Runnable"
       /\ \A p \in Pid \ {pid} : state'[p] = state[p]
  BY <1>5, <1>9, Zenon DEF IInv, TypeOK, State
<1>12. UNCHANGED <<INTENA, hart, current, next_slot, NEXT_PID, remaining>> /\ pop_off(INTENA)
  BY Zenon DEF spawn_with
<1>13. Top' = f /\ depth'[on] = depth[on]
  BY <1>4, <1>6, <1>10, <1>12, Zenon DEF Top, hart
<1>14. RegsOK(f, on, SIE', NOFF', INTENA', sscratch) /\ SIE' \in Bit /\ FrameOK(on, depth[on], f)
  BY <1>1, <1>2, <1>3, <1>12, TopOK
     DEF RegsOK, pop_off, FrameOK, PlaceOK, Intent, Bit
<1>15. PICK k \in DOMAIN procs' :
         /\ procs' \in Seq(Pid \cup {None}) /\ Len(procs') >= Len(procs)
         /\ \A i \in DOMAIN procs : i \in DOMAIN procs'
         /\ \A i \in DOMAIN procs : procs[i] # None => procs'[i] = procs[i]
         /\ procs'[k] = pid
         /\ \A i \in DOMAIN procs' : i # k => i \in DOMAIN procs /\ procs'[i] = procs[i]
  BY <1>1, <1>5, PublishFacts, Zenon DEF IInv
<1>16. TypeOK'
  <2>1. /\ INTENA' = INTENA /\ NEXT_PID' = NEXT_PID /\ remaining' = remaining
        /\ mode' = mode /\ sscratch' = sscratch /\ satp' = satp /\ on' = on
        /\ current' = current /\ next_slot' = next_slot
    BY <1>12, Zenon DEF hart
  <2>2. NOFF' \in Nat
    BY <1>14, SMTT(30) DEF RegsOK
  <2>3. current' \in 0..Len(procs') /\ next_slot' \in 0..Len(procs')
    <3>1. /\ procs \in Seq(Pid \cup {None}) /\ current \in 0..Len(procs)
          /\ next_slot \in 0..Len(procs)
      BY Zenon DEF IInv, TypeOK
    <3> QED
      BY <1>15, <2>1, <3>1
  <2>4. depth'[on'] > 0
    BY <1>4, <1>13, <2>1, ConstantsAssumption
  <2> QED
    BY <1>10, <1>11, <1>14, <1>15, <2>1, <2>2, <2>3, <2>4, ZenonT(30) DEF IInv, TypeOK
<1>17. StacksOK'
  <2>1. \A c \in Ctx : /\ depth[c] \in 0..2 /\ 1..depth[c] \subseteq 1..MaxDepth
                       /\ \A d \in 1..depth[c] : FrameOK(c, d, frame[c][d])
                       /\ depth[c] = 2 => Interrupted(frame[c][1])
    BY Stacks, Levels, Zenon DEF IInv
  <2>2. \A c \in Ctx \ {pid} : depth[c] = 2 => frame'[c][1] = frame[c][1]
    BY <1>10, Contexts, SMTT(30)
  <2>3. \A c \in Ctx \ {pid} : \A d \in 1..depth[c] : FrameOK(c, d, frame'[c][d])
    BY <1>10, <1>14, <2>1
  <2>4. FrameOK(pid, 1, Forged)
    BY <1>7, Zenon DEF pid
  <2>5. \A n \in 0..2 : n <= 2
    OBVIOUS
  <2>6. 1 # 2 /\ 1 <= 2 /\ \A d \in 1..1 : d = 1
    OBVIOUS
  <2> QED
    BY <1>10, <2>1, <2>2, <2>3, <2>4, <2>5, <2>6, ZenonT(30) DEF StacksOK
<1>18. HartOK'
  BY <1>1, <1>4, <1>12, <1>13, <1>14, SMTT(30) DEF HartOK, hart
<1>19. WaitingOK'
  <2>1. depth[Boot] = 1 /\ frame[Boot][1].at = "back" /\ Boot \in Ctx /\ Boot # pid
    BY <1>4, <1>5, Contexts, Zenon DEF IInv, WaitingOK
  <2>2. depth'[Boot] = 1 /\ frame'[Boot][1].at = "back"
    <3>1. ~(Boot = on)
      BY <1>4, Zenon
    <3>2. frame'[Boot][1] = IF Boot = on /\ 1 = depth[on] THEN f ELSE frame[Boot][1]
      BY <1>10, <2>1, Contexts, SMTT(30)
    <3>3. depth'[Boot] = depth[Boot]
      BY <1>10, <2>1, Zenon
    <3> QED
      BY <2>1, <3>1, <3>2, <3>3, Zenon
  <2>3. \A p \in Pid \ {on, pid} : p \in Ctx /\ depth[p] \in 0..MaxDepth
    BY Contexts, Zenon DEF IInv, TypeOK
  <2>4. \A p \in Pid \ {on, pid} :
          /\ state'[p] = state[p] /\ depth'[p] = depth[p]
          /\ depth[p] > 0 => frame'[p][depth[p]] = frame[p][depth[p]]
    <3>1. \A n \in 0..MaxDepth : n > 0 => n \in 1..MaxDepth
      BY ConstantsAssumption
    <3> QED
      BY <1>10, <1>11, <2>3, <3>1, ZenonT(60)
  <2>5. on' = on /\ mode' = mode
    BY <1>12, Zenon DEF hart
  <2>6. 1 # 0
    OBVIOUS
  <2>7. \A p \in Pid \ {on, pid} :
          /\ state'[p] = "None" <=> depth'[p] = 0
          /\ depth'[p] > 0 =>
               LET g == frame'[p][depth'[p]] IN
               g.at = "back" \/ (g.at = "fresh" /\ state'[p] = "Runnable")
    <3> SUFFICES ASSUME NEW p \in Pid \ {on, pid}
                 PROVE  /\ state'[p] = "None" <=> depth'[p] = 0
                        /\ depth'[p] > 0 =>
                             LET g == frame'[p][depth'[p]] IN
                             g.at = "back" \/ (g.at = "fresh" /\ state'[p] = "Runnable")
      BY Zenon
    <3>1. /\ state[p] = "None" <=> depth[p] = 0
          /\ depth[p] > 0 =>
               \/ frame[p][depth[p]].at = "back"
               \/ frame[p][depth[p]].at = "fresh" /\ state[p] = "Runnable"
      BY Zenon DEF IInv, WaitingOK
    <3>2. /\ state'[p] = state[p] /\ depth'[p] = depth[p]
          /\ depth[p] > 0 => frame'[p][depth[p]] = frame[p][depth[p]]
      BY <2>4, Zenon
    <3> QED
      BY <3>1, <3>2, Zenon
  <2>8. /\ state'[pid] # "None" /\ depth'[pid] # 0
        /\ frame'[pid][depth'[pid]].at = "fresh" /\ state'[pid] = "Runnable"
    BY <1>7, <1>10, <1>11, <2>6, Zenon
  <2> QED
    BY <1>4, <2>2, <2>5, <2>7, <2>8, ZenonT(30) DEF WaitingOK
<1>20. TableOK'
  <2>1. procs[current] = on /\ on # None
    BY <1>4, Zenon DEF IInv, TableOK, None, Boot
  <2> QED
    BY <1>4, <1>6, <1>11, <1>12, <1>15, <2>1, ZenonT(30) DEF IInv, TableOK, hart
<1>21. SlotsOK'
  <2>1. \A i \in DOMAIN procs : procs[i] # pid
    BY <1>5, Zenon DEF IInv, SlotsOK, pid
  <2>2. \A i, j \in DOMAIN procs' : procs'[i] = procs'[j] /\ procs'[i] # None => i = j
    BY <1>15, <2>1, Zenon DEF IInv, SlotsOK
  <2>3. ASSUME NEW p \in Pid
        PROVE  state'[p] # "None" <=> \E i \in DOMAIN procs' : procs'[i] = p
    <3>1. CASE p = pid
      BY <1>11, <1>15, <3>1, Zenon
    <3>2. CASE p # pid
      <4>1. p # None
        BY Contexts, Zenon
      <4>2. state[p] # "None" <=> \E i \in DOMAIN procs : procs[i] = p
        BY Zenon DEF IInv, SlotsOK
      <4> QED
        BY <1>11, <1>15, <3>2, <4>1, <4>2, SMTT(30)
    <3> QED
      BY <3>1, <3>2, Zenon
  <2>4. \A p \in Pid : p >= NEXT_PID => p # pid
    <3>1. NEXT_PID \in 1..MaxPid + 1
      BY Zenon DEF IInv, TypeOK
    <3> QED
      BY <1>5, <3>1, ConstantsAssumption DEF Pid
  <2> QED
    BY <1>11, <1>12, <2>2, <2>3, <2>4, Zenon DEF IInv, SlotsOK
<1>22. SpawnsOK'
  <2>1. \A c \in Ctx : depth[c] \in 0..MaxDepth
    BY Zenon DEF IInv, TypeOK
  <2>2. \A c \in Ctx : \A d \in 1..depth'[c] : frame'[c][d].op = "spawn" =>
          /\ frame'[c][d] = frame[c][d] /\ d \in 1..depth[c] /\ c # pid
          /\ ~(c = on /\ d = depth[on])
    BY <1>2, <1>7, <1>10, <2>1, ConstantsAssumption
  <2>3. depth[on] \in 1..depth[on]
    <3>1. \A n \in 1..MaxDepth : n \in 1..n
      BY ConstantsAssumption, SMTT(30)
    <3> QED
      BY <1>4, <3>1, Zenon
  <2>4. \A c \in Ctx : \A d \in 1..depth'[c] : frame'[c][d].op = "spawn" =>
          frame[c][d].arg # pid
    <3>1. frame[on][depth[on]].op = "spawn" /\ frame[on][depth[on]].arg = pid
      BY <1>1, Zenon DEF Top, pid
    <3> QED
      BY <1>4, <2>2, <2>3, <3>1, SpawnOne, SMTT(30)
  <2>5. \A c \in Ctx : \A d \in 1..depth'[c] : frame'[c][d].op = "spawn" =>
          /\ frame'[c][d].arg \in Pid /\ frame'[c][d].arg < NEXT_PID'
          /\ state'[frame'[c][d].arg] = "None"
    <3>1. NEXT_PID' = NEXT_PID
      BY <1>12, Zenon
    <3> QED
      BY <1>11, <2>2, <2>4, <3>1, SpawnPid, SMTT(30)
  <2>6. ASSUME NEW c1 \in Ctx, NEW c2 \in Ctx,
               NEW d1 \in 1..depth'[c1], NEW d2 \in 1..depth'[c2],
               frame'[c1][d1].op = "spawn", frame'[c2][d2].op = "spawn",
               frame'[c1][d1].arg = frame'[c2][d2].arg
        PROVE  c1 = c2 /\ d1 = d2
    <3>1. /\ frame'[c1][d1] = frame[c1][d1] /\ d1 \in 1..depth[c1]
          /\ frame'[c2][d2] = frame[c2][d2] /\ d2 \in 1..depth[c2]
      BY <2>2, <2>6, Zenon
    <3> QED
      BY <2>6, <3>1, SpawnOne, SMTT(30)
  <2> QED
    BY <2>5, <2>6, SMTT(30) DEF SpawnsOK
<1>23. NoLostWakeup'
  <2>1. \A p \in Pid : state'[p] \in Chan => p \notin {pid, on} /\ state'[p] = state[p]
    BY <1>4, <1>6, <1>11, ZenonT(60) DEF Chan
  <2>2. \A p \in Pid : state'[p] \in Chan =>
          depth'[p] = depth[p] /\ frame'[p][depth[p]] = frame[p][depth[p]]
    <3>1. \A p \in Pid : state'[p] \in Chan => p \in Ctx /\ depth[p] \in 1..MaxDepth
      BY <2>1, ConstantsAssumption, SMTT(30) DEF IInv, WaitingOK, TypeOK, Chan, Pid, Ctx
    <3> QED
      BY <1>10, <2>1, <3>1, ZenonT(60)
  <2>3. ASSUME NEW p \in Pid, state'[p] = "EXIT_CHAN"
        PROVE  LET caller == frame'[p][depth'[p]] IN
               caller.op = "join" /\ caller.arg \in Pid /\ state'[caller.arg] \notin {"None", "Zombie"}
    <3> DEFINE j == frame[p][depth[p]]
    <3>1. j.op = "join" /\ j.arg \in Pid /\ state[j.arg] \notin {"None", "Zombie"}
      BY <2>1, <2>3, Zenon DEF IInv, NoLostWakeup, Chan
    <3>2. frame'[p][depth'[p]] = j
      BY <2>2, <2>3, Zenon DEF Chan
    <3> HIDE DEF j
    <3> QED
      BY <1>5, <1>11, <3>1, <3>2, Zenon
  <2>4. ASSUME NEW p \in Pid, state'[p] = "TICK_CHAN"
        PROVE  frame'[p][depth'[p]].op = "nap" /\ remaining'[p] > 0
    <3>1. state[p] = "TICK_CHAN" /\ frame'[p][depth'[p]] = frame[p][depth[p]]
      BY <2>1, <2>2, <2>4, Zenon DEF Chan
    <3>2. frame[p][depth[p]].op = "nap" /\ remaining[p] > 0
      BY <1>1, <3>1, Zenon DEF IInv, NoLostWakeup
    <3> QED
      BY <1>12, <3>1, <3>2, Zenon
  <2> QED
    BY <2>3, <2>4, Zenon DEF NoLostWakeup
<1> QED
  BY <1>16, <1>17, <1>18, <1>19, <1>20, <1>21, <1>22, <1>23, Zenon DEF IInv
=============================================================================
