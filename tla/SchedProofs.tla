----------------------------- MODULE SchedProofs -----------------------------
(* Trap entry and exit, U-mode and the scheduler loop preserve the invariant
   IInv; with SchedSteps every step of Sched does, for every number of threads,
   and the correctness properties follow. *)
EXTENDS SchedSteps

----------------------------------------------------------------------------
(* Trap entry and exit.                                                    *)

\* enter_user leaves the kernel: the stack is abandoned, sscratch names it.
LEMMA enter_user_sret_OK == IInv /\ enter_user_sret => IInv'
<1> SUFFICES ASSUME IInv, enter_user_sret PROVE IInv'
  OBVIOUS
<1>1. mode = "S" /\ Top.at = "sret"
  BY Zenon DEF enter_user_sret, At_
<1>2. /\ on \in User /\ Top.kind \in {"thread", "syscall"} /\ sscratch = on /\ NOFF = 0
      /\ Top.op # "wake"
  BY <1>1, TopOK, Zenon DEF FrameOK, RegsOK
<1>3. on \in Pid /\ on \in Ctx /\ on # Boot
  BY <1>1, <1>2, OnThread, ConstantsAssumption DEF Pid, Ctx, Boot
<1>4. NoStack \in [1..MaxDepth -> Frame]
  BY ConstantsAssumption DEF NoStack, NoFrame, Frame, Kind, Op, At, Bit
<1>5. /\ mode' = "U" /\ SIE' = 1 /\ depth' = [depth EXCEPT ![on] = 0]
      /\ frame' = [frame EXCEPT ![on] = NoStack]
      /\ UNCHANGED <<NOFF, INTENA, sscratch, satp, on, table, NEXT_PID, remaining>>
  BY Zenon DEF enter_user_sret
<1>6. /\ frame' \in [Ctx -> [1..MaxDepth -> Frame]] /\ depth' \in [Ctx -> 0..MaxDepth]
      /\ depth'[on] = 0
      /\ \A c \in Ctx \ {on} : depth'[c] = depth[c] /\ frame'[c] = frame[c]
  BY <1>3, <1>4, <1>5, ConstantsAssumption, SMTT(30) DEF IInv, TypeOK
<1>7. TypeOK'
  BY <1>5, <1>6, Zenon DEF IInv, TypeOK, table, Bit
<1>8. StacksOK'
  BY <1>6, ConstantsAssumption DEF IInv, StacksOK
<1>9. HartOK'
  BY <1>2, <1>5, <1>6, Zenon DEF HartOK
<1>10. Boot \in Ctx /\ Pid \subseteq Ctx
  BY ConstantsAssumption DEF Boot, Ctx, Pid
<1>11. WaitingOK'
  BY <1>3, <1>5, <1>6, <1>10, Zenon DEF IInv, WaitingOK, table
<1>12. TableOK'
  BY <1>3, <1>5, Zenon DEF IInv, TableOK, table
<1>13. SlotsOK'
  BY <1>5, Zenon DEF IInv, SlotsOK, table
<1>14. SpawnsOK'
  <2>1. \A c \in Ctx : \A d \in 1..depth'[c] : c # on
    BY <1>6
  <2> QED
    BY <1>5, <1>6, <2>1, SMTT(30) DEF IInv, SpawnsOK, table
<1>15. NoLostWakeup'
  <2>1. \A p \in Pid : state[p] \in Chan => p # on
    BY Zenon DEF IInv, TableOK, Chan
  <2> QED
    BY <1>1, <1>2, <1>5, <1>6, <1>10, <2>1, Zenon DEF IInv, NoLostWakeup, table, Chan
<1> QED
  BY <1>7, <1>8, <1>9, <1>11, <1>12, <1>13, <1>14, <1>15, Zenon DEF IInv

\* Where kernelvec puts a trap frame: at the top of the kernel stack in
\* U-mode, on top of the one frame there is in S-mode.
LEMMA TrapFacts ==
  ASSUME IInv, mode = "U" \/ SIE = 1, NEW f \in Frame, kernelvec(f)
  PROVE  /\ on \in Ctx /\ NOFF = 0
         /\ SIE' = 0 /\ mode' = "S" /\ sscratch' = 0
         /\ UNCHANGED <<NOFF, INTENA, satp, on>>
         /\ depth[on] = (IF mode = "U" THEN 0 ELSE 1)
         /\ mode = "U" => on \in User /\ SIE = 1
         /\ mode = "S" => /\ Top.kind \in {"thread", "sched"} /\ SIE = 1
                          /\ Interrupted(frame'[on][1])
                          /\ FrameOK(on, 1, frame'[on][1])
                          /\ frame'[on][1].op = frame[on][1].op
                          /\ frame'[on][1].arg = frame[on][1].arg
         /\ depth' \in [Ctx -> 0..MaxDepth] /\ depth'[on] = depth[on] + 1
         /\ frame' \in [Ctx -> [1..MaxDepth -> Frame]]
         /\ frame'[on][depth'[on]] = f
         /\ \A c \in Ctx \ {on} : depth'[c] = depth[c] /\ frame'[c] = frame[c]
<1>1. /\ on \in Ctx /\ mode \in {"U", "S"} /\ depth \in [Ctx -> 0..MaxDepth]
      /\ frame \in [Ctx -> [1..MaxDepth -> Frame]]
  BY Zenon DEF IInv, TypeOK
<1>2. /\ SIE' = 0 /\ mode' = "S" /\ sscratch' = 0
      /\ UNCHANGED <<NOFF, INTENA, satp, on>>
  BY Zenon DEF kernelvec
<1>3. CASE mode = "U"
  <2>1. on \in User /\ sscratch = on /\ depth[on] = 0 /\ SIE = 1 /\ NOFF = 0 /\ on # 0
    BY <1>3, ConstantsAssumption DEF IInv, HartOK, Pid
  <2>2. /\ depth' = [depth EXCEPT ![on] = 1]
        /\ frame' = [frame EXCEPT ![on] = OneFrame(f)]
    BY <2>1, Zenon DEF kernelvec
  <2>3. OneFrame(f) \in [1..MaxDepth -> Frame] /\ OneFrame(f)[1] = f
    BY ConstantsAssumption DEF OneFrame, NoStack, NoFrame, Frame, Kind, Op, At, Bit
  <2>4. depth' \in [Ctx -> 0..MaxDepth] /\ depth'[on] = 1
    BY <1>1, <2>2, ConstantsAssumption
  <2>5. /\ frame' \in [Ctx -> [1..MaxDepth -> Frame]] /\ frame'[on] = OneFrame(f)
        /\ \A c \in Ctx \ {on} : depth'[c] = depth[c] /\ frame'[c] = frame[c]
    BY <1>1, <2>2, <2>3, Zenon
  <2> QED
    BY <1>1, <1>2, <1>3, <2>1, <2>3, <2>4, <2>5
<1>4. CASE mode = "S"
  <2>1. SIE = 1 /\ FrameOK(on, depth[on], Top) /\ Top \in Frame
        /\ RegsOK(Top, on, SIE, NOFF, INTENA, sscratch)
        /\ depth[on] \in 1..MaxDepth /\ depth[on] <= 2
    BY <1>4, TopOK, TopFacts, Zenon DEF IInv, StacksOK
  <2>2. /\ Top.kind \in {"thread", "sched"} /\ NOFF = 0 /\ sscratch = 0
        /\ Top.at \notin {"body", "back", "fresh", "arm", "sret"}
    BY <2>1, SMTT(30) DEF RegsOK, Frame, Kind
  <2>3. depth[on] = 1
    BY <2>1, <2>2, ConstantsAssumption DEF FrameOK
  <2> DEFINE g == IF Top.at = "wfi" THEN [Top EXCEPT !.at = "loop"] ELSE Top
  <2>4. /\ g \in Frame /\ g.kind = Top.kind /\ g.op = Top.op /\ g.arg = Top.arg
        /\ g.spie = Top.spie /\ g.spp = Top.spp /\ g.old = Top.old /\ g.sav = Top.sav
        /\ g.at = (IF Top.at = "wfi" THEN "loop" ELSE Top.at)
    BY <2>1 DEF Frame, At
  <2>5. frame' = [frame EXCEPT ![on] = [d \in 1..MaxDepth |->
           IF d = 2 THEN f ELSE IF d = 1 THEN g ELSE frame[on][d]]]
        /\ depth' = [depth EXCEPT ![on] = 2]
    BY <2>2, <2>3, ConstantsAssumption DEF kernelvec, Top
  <2> HIDE DEF g
  <2>6. [d \in 1..MaxDepth |-> IF d = 2 THEN f ELSE IF d = 1 THEN g ELSE frame[on][d]]
          \in [1..MaxDepth -> Frame]
    BY <1>1, <2>4, Zenon
  <2>7. /\ frame' \in [Ctx -> [1..MaxDepth -> Frame]]
        /\ frame'[on] = [d \in 1..MaxDepth |->
             IF d = 2 THEN f ELSE IF d = 1 THEN g ELSE frame[on][d]]
        /\ \A c \in Ctx \ {on} : depth'[c] = depth[c] /\ frame'[c] = frame[c]
    BY <1>1, <2>5, <2>6, Zenon
  <2>8. depth' \in [Ctx -> 0..MaxDepth] /\ depth'[on] = 2
    BY <1>1, <2>5, ConstantsAssumption
  <2>9. frame'[on][1] = g /\ frame'[on][2] = f /\ Top = frame[on][1]
    BY <2>3, <2>7, ConstantsAssumption, SMTT(30) DEF Top
  <2>10. Interrupted(g) /\ FrameOK(on, 1, g)
    BY <2>1, <2>2, <2>3, <2>4 DEF FrameOK, PlaceOK, Interrupted, Intent
  <2> QED
    BY <1>1, <1>2, <1>4, <2>1, <2>2, <2>3, <2>4, <2>7, <2>8, <2>9, <2>10, SMTT(30)
<1> QED
  BY <1>1, <1>3, <1>4, Zenon

\* Taking a trap preserves the invariant when its frame is well formed.
LEMMA TrapStep ==
  ASSUME IInv, mode = "U" \/ SIE = 1, NEW f \in Frame, kernelvec(f),
         FrameOK(on, depth[on] + 1, f), f.kind \in {"timer", "syscall"},
         f.at \in {"go", "read", "while", "ret"}, UNCHANGED table,
         NEXT_PID' \in 1..MaxPid + 1, NEXT_PID' >= NEXT_PID,
         f.op = "spawn" => /\ f.arg = NEXT_PID /\ f.arg \in Pid
                           /\ f.arg < NEXT_PID' /\ state[f.arg] = "None",
         remaining' \in [Pid -> Nat],
         \A p \in Pid \ {on} : remaining'[p] = remaining[p]
  PROVE  IInv'
<1>1. /\ on \in Ctx /\ NOFF = 0 /\ on' = on /\ NOFF' = NOFF /\ satp' = satp
      /\ SIE' = 0 /\ mode' = "S" /\ sscratch' = 0 /\ INTENA' = INTENA
      /\ depth[on] = (IF mode = "U" THEN 0 ELSE 1)
  BY TrapFacts, Zenon
<1>2. /\ mode = "U" => on \in User
      /\ mode = "S" => /\ Top.kind \in {"thread", "sched"}
                       /\ Interrupted(frame'[on][1])
                       /\ FrameOK(on, 1, frame'[on][1])
                       /\ frame'[on][1].op = frame[on][1].op
                       /\ frame'[on][1].arg = frame[on][1].arg
  BY TrapFacts, Zenon
<1>3. /\ depth' \in [Ctx -> 0..MaxDepth] /\ depth'[on] = depth[on] + 1
      /\ frame' \in [Ctx -> [1..MaxDepth -> Frame]]
      /\ frame'[on][depth'[on]] = f
      /\ \A c \in Ctx \ {on} : depth'[c] = depth[c] /\ frame'[c] = frame[c]
  BY TrapFacts, Zenon
<1>4. UNCHANGED <<procs, current, next_slot, state>>
  BY Zenon DEF table
<1>5. Boot \in Ctx /\ Pid \subseteq Ctx /\ mode \in {"U", "S"} /\ Boot \notin User
  BY ConstantsAssumption DEF Boot, Ctx, Pid, IInv, TypeOK
<1>6. TypeOK'
  <2>1. depth'[on'] > 0
    BY <1>1, <1>3
  <2>2. 0 \in Ctx /\ 0 \in Bit
    BY <1>5, ZenonT(60) DEF Boot, Bit
  <2> QED
    BY <1>1, <1>3, <1>4, <2>1, <2>2, ZenonT(60) DEF IInv, TypeOK
<1>7. StacksOK'
  <2>1. \A d \in 1..depth'[on] : FrameOK(on, d, frame'[on][d])
    BY <1>1, <1>2, <1>3, <1>5, SMTT(60)
  <2>2. depth'[on] = 2 => Interrupted(frame'[on][1])
    BY <1>1, <1>2, <1>3, <1>5
  <2>3. \A c \in Ctx \ {on} : /\ depth'[c] <= 2
                              /\ \A d \in 1..depth'[c] : FrameOK(c, d, frame'[c][d])
                              /\ depth'[c] = 2 => Interrupted(frame'[c][1])
    BY <1>3, ZenonT(60) DEF IInv, StacksOK
  <2> QED
    BY <1>1, <1>3, <2>1, <2>2, <2>3, SMTT(60) DEF StacksOK
<1>8. HartOK'
  BY <1>1, <1>3, SMTT(30) DEF HartOK, RegsOK, Top
<1>9. WaitingOK'
  <2>1. on' # Boot => depth'[Boot] = 1 /\ frame'[Boot][1].at = "back"
    BY <1>1, <1>3, <1>5, ZenonT(60) DEF IInv, WaitingOK
  <2>2. on' = Boot => depth'[Boot] > 0 /\ mode' = "S"
    BY <1>1, <1>3, SMTT(60)
  <2>3. \A p \in Pid : p # on' =>
          depth'[p] = depth[p] /\ frame'[p] = frame[p] /\ state'[p] = state[p]
    BY <1>1, <1>3, <1>4, <1>5, Zenon
  <2> QED
    BY <1>1, <2>1, <2>2, <2>3, SMTT(60) DEF IInv, WaitingOK
<1>10. TableOK'
  <2>1. on = Boot => frame[Boot][1].at # "back"
    <3> SUFFICES ASSUME on = Boot PROVE frame[Boot][1].at # "back"
      OBVIOUS
    <3>1. mode = "S" /\ SIE = 1
      BY <1>2, <1>5, Zenon
    <3>2. RegsOK(Top, on, SIE, NOFF, INTENA, sscratch) /\ depth[on] = 1
      BY <1>1, <3>1, TopOK, Zenon
    <3> QED
      BY <3>1, <3>2 DEF RegsOK, Top
  <2> QED
    BY <1>1, <1>4, <2>1, Zenon DEF IInv, TableOK
<1>11. SlotsOK'
  <2>1. \A p \in Pid : p >= NEXT_PID' => p >= NEXT_PID
    BY ConstantsAssumption, SMTT(30) DEF Pid, IInv, TypeOK
  <2> QED
    BY <1>4, <2>1, SMTT(30) DEF IInv, SlotsOK
<1>12. SpawnsOK'
  <2>0. \A c1, c2 \in Ctx : \A d1 \in 1..depth[c1], d2 \in 1..depth[c2] :
          /\ frame[c1][d1].op = "spawn" /\ frame[c2][d2].op = "spawn"
          /\ frame[c1][d1].arg = frame[c2][d2].arg
          => c1 = c2 /\ d1 = d2
    BY ZenonT(60) DEF IInv, SpawnsOK
  <2>1. ASSUME NEW c \in Ctx, NEW d \in 1..depth'[c], frame'[c][d].op = "spawn",
               ~(c = on /\ d = depth'[on])
        PROVE  /\ d \in 1..depth[c] /\ frame[c][d].op = "spawn"
               /\ frame'[c][d].arg = frame[c][d].arg
    BY <1>1, <1>2, <1>3, <1>5, <2>1, SMTT(30)
  <2>2. \A c \in Ctx : \A d \in 1..depth[c] : frame[c][d].op = "spawn" =>
          /\ frame[c][d].arg \in Pid /\ frame[c][d].arg < NEXT_PID
          /\ frame[c][d].arg < NEXT_PID' /\ state[frame[c][d].arg] = "None"
    BY ConstantsAssumption, SMTT(30) DEF IInv, SpawnsOK, Pid, TypeOK
  <2>3. \A c \in Ctx : \A d \in 1..depth'[c] : frame'[c][d].op = "spawn" =>
          /\ frame'[c][d].arg \in Pid /\ frame'[c][d].arg < NEXT_PID'
          /\ state[frame'[c][d].arg] = "None"
    BY <1>3, <2>1, <2>2, SMTT(30)
  <2>4. ASSUME NEW c \in Ctx, NEW d \in 1..depth'[c], frame'[c][d].op = "spawn",
               ~(c = on /\ d = depth'[on]), f.op = "spawn"
        PROVE  frame'[c][d].arg # f.arg
    <3>1. frame'[c][d].arg \in Pid /\ frame'[c][d].arg < NEXT_PID
      BY <2>1, <2>2, <2>4, Zenon
    <3> QED
      BY <2>4, <3>1 DEF Pid
  <2>5. ASSUME NEW c1 \in Ctx, NEW c2 \in Ctx,
               NEW d1 \in 1..depth'[c1], NEW d2 \in 1..depth'[c2],
               frame'[c1][d1].op = "spawn", frame'[c2][d2].op = "spawn",
               frame'[c1][d1].arg = frame'[c2][d2].arg
        PROVE  c1 = c2 /\ d1 = d2
    <3>1. CASE c1 = on /\ d1 = depth'[on]
      BY <1>3, <2>4, <2>5, <3>1, Zenon
    <3>2. CASE c2 = on /\ d2 = depth'[on]
      BY <1>3, <2>4, <2>5, <3>2, ZenonT(60)
    <3>3. CASE ~(c1 = on /\ d1 = depth'[on]) /\ ~(c2 = on /\ d2 = depth'[on])
      <4>1. /\ d1 \in 1..depth[c1] /\ frame[c1][d1].op = "spawn"
            /\ frame'[c1][d1].arg = frame[c1][d1].arg
        BY <2>1, <2>5, <3>3, Zenon
      <4>2. /\ d2 \in 1..depth[c2] /\ frame[c2][d2].op = "spawn"
            /\ frame'[c2][d2].arg = frame[c2][d2].arg
        BY <2>1, <2>5, <3>3, Zenon
      <4>3. frame[c1][d1].arg = frame[c2][d2].arg
        BY <2>5, <4>1, <4>2, ZenonT(60)
      <4> QED
        BY <2>0, <4>1, <4>2, <4>3, ZenonT(60)
    <3> QED
      BY <3>1, <3>2, <3>3, Zenon
  <2> QED
    BY <1>4, <2>3, <2>5 DEF SpawnsOK
<1>13. NoLostWakeup'
  <2>1. \A p \in Pid : state[p] \in Chan => p # on /\ p \in Ctx
    BY <1>5, SMTT(60) DEF IInv, TableOK, Chan
  <2>2. mode = "S" => Top.op # "wake"
    BY <1>2, TopOK, Zenon DEF FrameOK
  <2> QED
    BY <1>3, <1>4, <1>5, <2>1, <2>2, SMTT(60) DEF IInv, NoLostWakeup, Chan
<1> QED
  BY <1>6, <1>7, <1>8, <1>9, <1>10, <1>11, <1>12, <1>13, Zenon DEF IInv

\* The empty frame is a frame.
LEMMA NoFrameOK == NoFrame \in Frame
BY ConstantsAssumption DEF NoFrame, Frame, Kind, Op, At, Bit

\* What kernelvec saves: the interrupted SIE and privilege.
LEMMA TrapFrameFacts ==
  ASSUME IInv, NEW kind \in Kind, NEW op \in Op, NEW place \in At
  PROVE  LET f == TrapFrame(kind, op, place) IN
         /\ f \in Frame /\ f.kind = kind /\ f.op = op /\ f.at = place
         /\ f.spie = SIE /\ f.spp = mode
<1>1. NoFrame \in Frame
  BY NoFrameOK, Zenon
<1>2. SIE \in Bit /\ mode \in {"U", "S"}
  BY Zenon DEF IInv, TypeOK
<1> QED
  BY <1>1, <1>2, Zenon DEF TrapFrame, Frame

\* A timer interrupt, wherever it may be taken.
LEMMA timer_interrupt_OK == IInv /\ timer_interrupt => IInv'
<1> SUFFICES ASSUME IInv, timer_interrupt PROVE IInv'
  OBVIOUS
<1> DEFINE f == TrapFrame("timer", "tick", "go")
<1>1. (mode = "U" \/ SIE = 1) /\ kernelvec(f) /\ UNCHANGED <<table, NEXT_PID, remaining>>
  BY Zenon DEF timer_interrupt
<1>2. /\ f \in Frame /\ f.kind = "timer" /\ f.op = "tick" /\ f.at = "go"
      /\ f.spie = SIE /\ f.spp = mode
  BY TrapFrameFacts DEF Kind, Op, At
<1> HIDE DEF f
<1>3. /\ depth[on] = (IF mode = "U" THEN 0 ELSE 1) /\ mode \in {"U", "S"}
      /\ mode = "U" => on \in User /\ SIE = 1
      /\ mode = "S" => SIE = 1
  BY <1>1, <1>2, TrapFacts, ZenonT(60) DEF IInv, TypeOK
<1>4. FrameOK(on, depth[on] + 1, f)
  BY <1>2, <1>3, ConstantsAssumption, SMTT(30) DEF FrameOK, PlaceOK, Boot, Pid
<1>5. /\ NEXT_PID' \in 1..MaxPid + 1 /\ NEXT_PID' >= NEXT_PID
      /\ remaining' \in [Pid -> Nat]
      /\ \A p \in Pid \ {on} : remaining'[p] = remaining[p]
  BY <1>1 DEF IInv, TypeOK
<1> QED
  BY <1>1, <1>2, <1>4, <1>5, TrapStep, Zenon

\* A system call from U-mode.
LEMMA dispatch_OK ==
  ASSUME IInv, NEW op \in Ops, NEW arg \in Ctx, dispatch(op, arg)
  PROVE  IInv'
<1> DEFINE f == [TrapFrame("syscall", op, Start(op)) EXCEPT !.arg = arg]
<1>1. mode = "U" /\ Request(op, arg, 1..MaxNap) /\ kernelvec(f) /\ UNCHANGED table
  BY Zenon DEF dispatch
<1>2. /\ op \in AllOps /\ Start(op) \in {"read", "while", "ret"}
      /\ Start(op) = "while" => op = "nap"
      /\ Start(op) = "ret" => op = "nop"
  BY ConstantsAssumption, Zenon DEF Start
<1>3. /\ f \in Frame /\ f.kind = "syscall" /\ f.op = op /\ f.at = Start(op)
      /\ f.spie = SIE /\ f.spp = mode /\ f.arg = arg
  <2>1. "syscall" \in Kind /\ op \in Op /\ Start(op) \in At /\ arg \in 0..MaxPid
    BY <1>2, Zenon DEF Kind, Op, At, Ctx
  <2> DEFINE g == TrapFrame("syscall", op, Start(op))
  <2>2. /\ g \in Frame /\ g.kind = "syscall" /\ g.op = op /\ g.at = Start(op)
        /\ g.spie = SIE /\ g.spp = mode
    BY <2>1, TrapFrameFacts
  <2> HIDE DEF g
  <2>3. f = [g EXCEPT !.arg = arg]
    BY Zenon DEF g
  <2> QED
    BY <2>1, <2>2, <2>3, Zenon DEF Frame
<1> HIDE DEF f
<1>4. on \in User /\ depth[on] = 0 /\ SIE = 1 /\ on \in Pid /\ on # Boot
  <2>1. on \in User /\ depth[on] = 0 /\ SIE = 1
    BY <1>1, Zenon DEF IInv, HartOK
  <2>2. on \in Pid
    BY <2>1, ConstantsAssumption, ZenonT(60)
  <2> QED
    BY <2>1, <2>2 DEF Pid, Boot
<1>5. FrameOK(on, depth[on] + 1, f)
  BY <1>1, <1>2, <1>3, <1>4, SMTT(30) DEF FrameOK, PlaceOK, AllOps
<1>6. /\ NEXT_PID' \in 1..MaxPid + 1 /\ NEXT_PID' >= NEXT_PID
      /\ op = "spawn" => /\ arg = NEXT_PID /\ arg \in Pid /\ arg < NEXT_PID'
                         /\ state[arg] = "None"
      /\ remaining' \in [Pid -> Nat]
      /\ \A p \in Pid \ {on} : remaining'[p] = remaining[p]
  BY <1>1, <1>4, RequestFacts, ConstantsAssumption
<1> QED
  BY <1>1, <1>2, <1>3, <1>5, <1>6, TrapStep, Zenon
\* kernelvec's restore path: the code below the trap, or U-mode, finds the
\* registers it was interrupted with.
LEMMA kernelvec_return_OK == IInv /\ kernelvec_return => IInv'
<1> SUFFICES ASSUME IInv, kernelvec_return PROVE IInv'
  OBVIOUS
<1>1. /\ mode = "S" /\ Top.at = "ret"
      /\ SIE' = Top.spie /\ mode' = Top.spp
      /\ sscratch' = (IF Top.spp = "U" THEN on ELSE sscratch)
      /\ depth' = [depth EXCEPT ![on] = @ - 1]
      /\ frame' = [frame EXCEPT ![on][depth[on]] = NoFrame]
      /\ UNCHANGED <<NOFF, INTENA, satp, on, procs, current, next_slot, state,
                     NEXT_PID, remaining>>
  BY Zenon DEF kernelvec_return, At_, table
<1>2. /\ FrameOK(on, depth[on], Top) /\ Top \in Frame /\ on \in Ctx
      /\ RegsOK(Top, on, SIE, NOFF, INTENA, sscratch)
  BY <1>1, TopOK, Zenon
<1>3. /\ Top.kind \in {"timer", "syscall"} /\ Top.spie = 1 /\ Top.op \in {"run", "nop"}
      /\ NOFF = 0 /\ sscratch = 0
  BY <1>1, <1>2, Zenon DEF FrameOK, PlaceOK, RegsOK, Frame, Kind
<1>4. depth[on] \in {1, 2}
  BY <1>1, TopFacts DEF IInv, StacksOK
<1>5. /\ depth[on] = 1 => on \in User /\ Top.spp = "U"
      /\ depth[on] = 2 => Top.spp = "S"
  BY <1>2, <1>3, <1>4, Zenon DEF FrameOK
<1>6. /\ depth \in [Ctx -> 0..MaxDepth] /\ frame \in [Ctx -> [1..MaxDepth -> Frame]]
      /\ Boot \in Ctx /\ Pid \subseteq Ctx /\ Boot \notin User /\ NoFrame \in Frame
  BY NoFrameOK, ConstantsAssumption, SMTT(30) DEF IInv, TypeOK, Boot, Ctx, Pid
<1>7. /\ depth' \in [Ctx -> 0..MaxDepth] /\ depth'[on] = depth[on] - 1
      /\ \A c \in Ctx \ {on} : depth'[c] = depth[c]
  BY <1>1, <1>2, <1>4, <1>6, ConstantsAssumption, SMTT(30)
<1>8. /\ frame' \in [Ctx -> [1..MaxDepth -> Frame]]
      /\ \A c \in Ctx \ {on} : frame'[c] = frame[c]
      /\ depth[on] = 2 => frame'[on][1] = frame[on][1]
  <2>1. [frame[on] EXCEPT ![depth[on]] = NoFrame] \in [1..MaxDepth -> Frame]
    BY <1>2, <1>4, <1>6, ZenonT(60)
  <2> QED
    BY <1>1, <1>2, <1>4, <1>6, <2>1, ConstantsAssumption
<1>9. \A c \in Ctx : \A d \in 1..depth'[c] :
         d \in 1..depth[c] /\ frame'[c][d] = frame[c][d]
  BY <1>2, <1>4, <1>7, <1>8, SMTT(30)
<1>10. TypeOK'
  <2>1. mode' = "S" => depth'[on'] > 0
    BY <1>1, <1>4, <1>5, <1>7, SMTT(30)
  <2>2. SIE' \in Bit /\ sscratch' \in Ctx /\ mode' \in {"U", "S"}
    BY <1>1, <1>2, <1>3, <1>4, <1>5, SMTT(20) DEF Bit, IInv, TypeOK
  <2> QED
    BY <1>1, <1>7, <1>8, <2>1, <2>2, ZenonT(60) DEF IInv, TypeOK
<1>11. StacksOK'
  BY <1>4, <1>7, <1>8, <1>9 DEF IInv, StacksOK
<1>12. HartOK'
  <2>1. CASE depth[on] = 1
    BY <1>1, <1>3, <1>5, <1>7, <2>1, SMTT(30) DEF HartOK
  <2>2. CASE depth[on] = 2
    <3>1. /\ Top' = frame[on][1] /\ depth'[on] = 1 /\ mode' = "S"
          /\ SIE' = 1 /\ NOFF' = 0 /\ sscratch' = 0
      BY <1>1, <1>3, <1>5, <1>7, <1>8, <2>2 DEF Top
    <3>2. Interrupted(frame[on][1])
      BY <1>2, <2>2, Zenon DEF IInv, StacksOK
    <3> QED
      BY <1>1, <3>1, <3>2, SMTT(30) DEF HartOK, RegsOK, Interrupted
  <2> QED
    BY <1>4, <2>1, <2>2, Zenon
<1>13. WaitingOK'
  <2>1. on' # Boot => depth'[Boot] = 1 /\ frame'[Boot][1].at = "back"
    BY <1>1, <1>6, <1>7, <1>8, SMTT(30) DEF IInv, WaitingOK
  <2>2. on' = Boot => depth'[Boot] > 0 /\ mode' = "S"
    BY <1>1, <1>4, <1>5, <1>6, <1>7
  <2>3. \A p \in Pid : p # on' =>
          depth'[p] = depth[p] /\ frame'[p] = frame[p] /\ state'[p] = state[p]
    BY <1>1, <1>6, <1>7, <1>8, Zenon
  <2> QED
    BY <1>1, <2>1, <2>2, <2>3, SMTT(30) DEF IInv, WaitingOK
<1>14. TableOK'
  <2>1. on = Boot => frame'[Boot][1] = frame[Boot][1]
    BY <1>4, <1>5, <1>6, <1>8, ZenonT(60)
  <2> QED
    BY <1>1, <2>1, Zenon DEF IInv, TableOK
<1>15. SlotsOK' /\ SpawnsOK'
  BY <1>1, <1>9, SMTT(20) DEF IInv, SlotsOK, SpawnsOK
<1>16. NoLostWakeup'
  <2>1. \A p \in Pid : state[p] \in Chan => p # on /\ p \in Ctx
    BY <1>6, Zenon DEF IInv, TableOK, Chan
  <2> QED
    BY <1>1, <1>3, <1>7, <1>8, <2>1, SMTT(30) DEF IInv, NoLostWakeup, Chan
<1> QED
  BY <1>10, <1>11, <1>12, <1>13, <1>14, <1>15, <1>16, Zenon DEF IInv

----------------------------------------------------------------------------
(* The scheduler loop.                                                     *)

\* Writing one frame of a stack gives a stack.
LEMMA StackPut ==
  ASSUME NEW s \in [1..MaxDepth -> Frame], NEW g \in Frame, NEW d \in 1..MaxDepth
  PROVE  [s EXCEPT ![d] = g] \in [1..MaxDepth -> Frame]
OBVIOUS

\* A section of the scheduler loop runs on the boot stack, outside any trap.
LEMMA OnBoot ==
  ASSUME IInv, mode = "S", Top.op = "scan"
  PROVE  /\ on = Boot /\ depth[Boot] = 1 /\ Top = frame[Boot][1]
         /\ Top.kind = "sched"
<1>1. FrameOK(on, depth[on], Top)
  BY TopOK, SMTT(20)
<1> QED
  BY <1>1, Zenon DEF FrameOK, Top

\* Reaping: the zombies' stacks and slots go, every other context and slot is
\* left as it was, and no sleeper waited for a zombie.
LEMMA ReapStep ==
  ASSUME IInv, In("scan", "body"), NEW place \in {"back", "wfi0"},
         depth' = [c \in Ctx |-> IF freed(c) THEN 0 ELSE depth[c]],
         frame' = [c \in Ctx |->
                IF freed(c) THEN NoStack
                ELSE IF c = Boot
                     THEN [frame[c] EXCEPT ![depth[c]].at = place]
                     ELSE frame[c]],
         procs' = reaped, UNCHANGED <<NEXT_PID, remaining>>,
         \A p \in Pid : /\ state'[p] = "None" <=> state[p] \in {"None", "Zombie"}
                        /\ state'[p] \in Chan => state'[p] = state[p]
                        /\ state'[p] # "Zombie"
  PROVE  /\ on = Boot /\ depth[Boot] = 1 /\ frame[Boot][1].at = "body"
         /\ FrameOK(Boot, 1, frame'[Boot][1]) /\ frame'[Boot][1].at = place
         /\ depth' \in [Ctx -> 0..MaxDepth] /\ depth'[Boot] = 1
         /\ frame' \in [Ctx -> [1..MaxDepth -> Frame]]
         /\ \A p \in Pid : IF state[p] = "Zombie" THEN depth'[p] = 0
                           ELSE depth'[p] = depth[p] /\ frame'[p] = frame[p]
         /\ procs' \in Seq(Pid \cup {None}) /\ Len(procs') = Len(procs)
         /\ DOMAIN procs' = DOMAIN procs
         /\ \A i \in DOMAIN procs : procs'[i] =
              IF \E p \in Pid : procs[i] = p /\ state[p] = "Zombie" THEN None ELSE procs[i]
         /\ SIE = 0 /\ NOFF = 1 /\ INTENA = 1 /\ sscratch = 0
         /\ StacksOK' /\ SlotsOK' /\ SpawnsOK' /\ NoLostWakeup'
<1>1. mode = "S" /\ Top.at = "body" /\ Top.op = "scan"
  BY Zenon DEF In, At_
<1>2. on = Boot /\ depth[Boot] = 1 /\ Top = frame[Boot][1] /\ Top.kind = "sched"
  BY <1>1, OnBoot, Zenon
<1>3. /\ FrameOK(Boot, 1, Top) /\ Top \in Frame
      /\ RegsOK(Top, on, SIE, NOFF, INTENA, sscratch)
  BY <1>1, <1>2, TopOK, Zenon
<1>4. SIE = 0 /\ NOFF = 1 /\ INTENA = 1 /\ sscratch = 0
  BY <1>1, <1>2, <1>3, Zenon DEF RegsOK, FrameOK, Intent
<1>5. /\ Boot \in Ctx /\ Pid \subseteq Ctx /\ Boot \notin Pid /\ Ctx = Pid \cup {Boot}
      /\ depth \in [Ctx -> 0..MaxDepth] /\ frame \in [Ctx -> [1..MaxDepth -> Frame]]
  <2>1. Boot \in Ctx /\ Pid \subseteq Ctx /\ Boot \notin Pid /\ Ctx = Pid \cup {Boot}
    BY ConstantsAssumption DEF Boot, Ctx, Pid
  <2> QED
    BY <2>1, Zenon DEF IInv, TypeOK
<1>6. ~freed(Boot) /\ \A p \in Pid : freed(p) <=> state[p] = "Zombie"
  BY <1>5, Zenon DEF freed, Zombies
<1> DEFINE g == [Top EXCEPT !.at = place]
<1>7. /\ g \in Frame /\ g.at = place /\ g.op = Top.op /\ g.kind = Top.kind
      /\ g.old = Top.old /\ g.sav = Top.sav /\ g.arg = Top.arg
      /\ g.spie = Top.spie /\ g.spp = Top.spp
  <2>1. place \in At
    BY Zenon DEF At
  <2> QED
    BY <1>3, <2>1, GotoFrame, Zenon
<1>8. FrameOK(Boot, 1, g)
  <2> HIDE DEF g
  <2> QED
    BY <1>1, <1>2, <1>3, <1>7 DEF FrameOK, PlaceOK
<1>9. frame'[Boot] = [frame[Boot] EXCEPT ![1] = g] /\ frame'[Boot][1] = g
  <2>1. frame'[Boot] = [frame[Boot] EXCEPT ![1].at = place]
    BY <1>2, <1>5, <1>6, Zenon
  <2>2. frame'[Boot] = [frame[Boot] EXCEPT ![1] = g]
    BY <1>2, <2>1, Zenon
  <2>3. 1 \in 1..MaxDepth /\ DOMAIN frame[Boot] = 1..MaxDepth
    BY <1>5, ConstantsAssumption
  <2> HIDE DEF g
  <2> QED
    BY <2>2, <2>3, Zenon
<1> HIDE DEF g
<1>10. /\ depth' \in [Ctx -> 0..MaxDepth] /\ depth'[Boot] = 1
       /\ \A p \in Pid : IF state[p] = "Zombie" THEN depth'[p] = 0
                         ELSE depth'[p] = depth[p] /\ frame'[p] = frame[p]
  BY <1>2, <1>5, <1>6, ConstantsAssumption
<1>11. frame' \in [Ctx -> [1..MaxDepth -> Frame]]
  <2>1. NoStack \in [1..MaxDepth -> Frame]
    BY NoFrameOK, Zenon DEF NoStack
  <2>2. frame'[Boot] \in [1..MaxDepth -> Frame]
    <3>1. frame[Boot] \in [1..MaxDepth -> Frame]
      BY <1>5, Zenon
    <3>2. 1 \in 1..MaxDepth
      BY ConstantsAssumption
    <3>3. [frame[Boot] EXCEPT ![1] = g] \in [1..MaxDepth -> Frame]
      BY <1>7, <3>1, <3>2, StackPut, Zenon
    <3> QED
      BY <1>9, <3>3, Zenon
  <2>3. \A p \in Pid : frame'[p] \in [1..MaxDepth -> Frame]
    BY <1>5, <1>6, <2>1, Zenon
  <2>4. \A c \in Ctx : frame'[c] \in [1..MaxDepth -> Frame]
    BY <1>5, <2>2, <2>3, Zenon
  <2>5. frame' = [c \in Ctx |-> frame'[c]]
    OBVIOUS
  <2> QED
    BY <2>4, <2>5, Zenon
<1>12. /\ procs' \in Seq(Pid \cup {None}) /\ Len(procs') = Len(procs)
       /\ DOMAIN procs' = DOMAIN procs
       /\ \A i \in DOMAIN procs : procs'[i] =
            IF \E p \in Pid : procs[i] = p /\ state[p] = "Zombie" THEN None ELSE procs[i]
  BY SMTT(30) DEF IInv, TypeOK, reaped, Zombies
<1>13. \A c \in Ctx : \A d \in 1..depth'[c] :
         /\ d \in 1..depth[c] /\ frame'[c][d].op = frame[c][d].op
         /\ frame'[c][d].arg = frame[c][d].arg
         /\ c # Boot => frame'[c][d] = frame[c][d]
  BY <1>2, <1>5, <1>7, <1>9, <1>10
<1>14. StacksOK'
  <2>1. \A d \in 1..depth'[Boot] : FrameOK(Boot, d, frame'[Boot][d])
    BY <1>8, <1>9, <1>10
  <2>2. \A p \in Pid : \A d \in 1..depth'[p] : FrameOK(p, d, frame'[p][d])
    BY <1>5, <1>13 DEF IInv, StacksOK
  <2>3. \A p \in Pid : depth'[p] <= 2 /\ (depth'[p] = 2 => Interrupted(frame'[p][1]))
    BY <1>5, <1>10, SMTT(30) DEF IInv, StacksOK
  <2> QED
    BY <1>5, <1>10, <2>1, <2>2, <2>3, SMTT(20) DEF StacksOK
<1>15. SlotsOK'
  <2>1. \A i, j \in DOMAIN procs' : procs'[i] = procs'[j] /\ procs'[i] # None => i = j
    BY <1>12 DEF IInv, SlotsOK
  <2>2. \A p \in Pid : p # None
    BY SMTT(30) DEF Pid, None
  <2>3. \A p \in Pid : state'[p] # "None" <=> \E i \in DOMAIN procs' : procs'[i] = p
    BY <1>12, <2>2, SMTT(30) DEF IInv, SlotsOK
  <2> QED
    BY <2>1, <2>3, ZenonT(60) DEF IInv, SlotsOK
<1>16. SpawnsOK'
  BY <1>13, SMTT(20) DEF IInv, SpawnsOK
<1>17. NoLostWakeup'
  <2>1. \A p \in Pid : state'[p] \in Chan =>
          state[p] = state'[p] /\ frame'[p][depth'[p]] = frame[p][depth[p]]
    BY <1>10, Zenon DEF Chan
  <2>2. ASSUME NEW p \in Pid, state'[p] = "EXIT_CHAN"
        PROVE  LET f == frame'[p][depth'[p]] IN
               f.op = "join" /\ f.arg \in Pid /\ state'[f.arg] \notin {"None", "Zombie"}
    <3> DEFINE f == frame[p][depth[p]]
    <3>1. f.op = "join" /\ f.arg \in Pid /\ state[f.arg] \notin {"None", "Zombie"}
      BY <2>1, <2>2 DEF IInv, NoLostWakeup, Chan
    <3>2. frame'[p][depth'[p]] = f
      BY <2>1, <2>2, Zenon DEF Chan
    <3> HIDE DEF f
    <3> QED
      BY <3>1, <3>2, Zenon
  <2>3. ASSUME NEW p \in Pid, state'[p] = "TICK_CHAN"
        PROVE  frame'[p][depth'[p]].op = "nap" /\ remaining'[p] > 0
    <3>1. state[p] = "TICK_CHAN" /\ frame'[p][depth'[p]] = frame[p][depth[p]]
      BY <2>1, <2>3, Zenon DEF Chan
    <3>2. frame[p][depth[p]].op = "nap" /\ remaining[p] > 0
      BY <1>1, <3>1, Zenon DEF IInv, NoLostWakeup
    <3> QED
      BY <3>1, <3>2, Zenon
  <2> QED
    BY <2>2, <2>3, Zenon DEF NoLostWakeup
<1> QED
  BY <1>1, <1>2, <1>4, <1>7, <1>8, <1>9, <1>10, <1>11, <1>12, <1>14, <1>15, <1>16, <1>17, Zenon

\* The scheduler dispatches a thread: it resumes in its own swtch, with the
\* registers its frame expects.
LEMMA scheduler_run_OK ==
  ASSUME IInv, NEW slot \in DOMAIN procs, scheduler_run(slot)
  PROVE  IInv'
<1> DEFINE q == procs[slot]
<1>1. /\ In("scan", "body") /\ RunnableAt(slot) /\ next_slot' = slot /\ current' = slot
      /\ state' = reap([state EXCEPT ![q] = "Running"])
      /\ satp' = (IF q \in User THEN q ELSE KernelRoot)
      /\ on' = q /\ procs' = reaped
      /\ UNCHANGED <<SIE, NOFF, INTENA, mode, sscratch, NEXT_PID, remaining>>
  BY Zenon DEF scheduler_run, picked, intr
<1>2. q \in Pid /\ state[q] = "Runnable" /\ q # Boot
  BY <1>1 DEF RunnableAt, IInv, TypeOK, None, Pid, Boot
<1>3. /\ state' \in [Pid -> State] /\ state'[q] = "Running"
      /\ \A p \in Pid \ {q} :
           state'[p] = IF state[p] = "Zombie" THEN "None" ELSE state[p]
  BY <1>1, <1>2, Zenon DEF reap, Zombies, State, IInv, TypeOK
<1> HIDE DEF q
<1>4. on = Boot /\ \A p \in Pid : state[p] # "Running"
  <2>1. on = Boot
    BY <1>1, OnBoot, Zenon DEF In, At_
  <2> QED
    BY <2>1 DEF IInv, TableOK, Boot, Pid
<1>5. \A p \in Pid : /\ state'[p] = "None" <=> state[p] \in {"None", "Zombie"}
                     /\ state'[p] \in Chan => state'[p] = state[p]
                     /\ state'[p] # "Zombie"
                     /\ state'[p] = "Running" <=> p = q
  BY <1>2, <1>3, <1>4, SMTT(20) DEF Chan
<1>6. /\ depth[Boot] = 1 /\ frame'[Boot][1].at = "back"
      /\ depth' \in [Ctx -> 0..MaxDepth] /\ depth'[Boot] = 1
      /\ frame' \in [Ctx -> [1..MaxDepth -> Frame]]
      /\ \A p \in Pid : IF state[p] = "Zombie" THEN depth'[p] = 0
                        ELSE depth'[p] = depth[p] /\ frame'[p] = frame[p]
      /\ procs' \in Seq(Pid \cup {None}) /\ Len(procs') = Len(procs)
      /\ DOMAIN procs' = DOMAIN procs
      /\ \A i \in DOMAIN procs : procs'[i] =
           IF \E p \in Pid : procs[i] = p /\ state[p] = "Zombie" THEN None ELSE procs[i]
      /\ SIE = 0 /\ NOFF = 1 /\ INTENA = 1 /\ sscratch = 0
      /\ StacksOK' /\ SlotsOK' /\ SpawnsOK' /\ NoLostWakeup'
  BY <1>1, <1>5, ReapStep, Zenon DEF scheduler_run
<1>7. /\ mode = "S" /\ Pid \subseteq Ctx /\ User \subseteq Pid /\ 0 \in Ctx
  BY <1>1, ConstantsAssumption, SMTT(30) DEF In, At_, Pid, Ctx
<1>8. /\ depth'[q] > 0 /\ frame'[q] = frame[q] /\ depth'[q] = depth[q]
      /\ frame[q][depth[q]].at \in {"back", "fresh"}
  <2>1. depth[q] # 0 /\ frame[q][depth[q]].at \in {"back", "fresh"}
    <3>1. depth[q] # 0 /\ depth[q] \in 0..MaxDepth
      BY <1>2, <1>4, <1>7, SMTT(30) DEF IInv, WaitingOK, TypeOK
    <3>2. depth[q] > 0
      BY <3>1, ConstantsAssumption
    <3> QED
      BY <1>2, <1>4, <3>1, <3>2, ZenonT(60) DEF IInv, WaitingOK
  <2>2. depth[q] \in 0..MaxDepth
    BY <1>2, <1>7 DEF IInv, TypeOK
  <2> QED
    BY <1>2, <1>6, <2>1, <2>2, ConstantsAssumption
<1>9. slot \in 1..Len(procs) /\ procs'[slot] = q
  <2>1. procs[slot] = q
    BY Zenon DEF q
  <2>2. ~\E p \in Pid : procs[slot] = p /\ state[p] = "Zombie"
    BY <1>2, <2>1, Zenon
  <2>3. DOMAIN procs = 1..Len(procs)
    BY DEF IInv, TypeOK
  <2> QED
    BY <1>6, <2>1, <2>2, <2>3, Zenon
<1>10. TypeOK'
  <2>1. on' \in Ctx /\ satp' \in Ctx /\ depth'[on'] > 0
    BY <1>1, <1>2, <1>7, <1>8, ZenonT(60) DEF KernelRoot
  <2>2. current' \in 0..Len(procs') /\ next_slot' \in 0..Len(procs')
    BY <1>1, <1>6, <1>9, SMTT(60)
  <2> QED
    BY <1>1, <1>3, <1>6, <2>1, <2>2, ZenonT(60) DEF IInv, TypeOK
<1>11. HartOK'
  BY <1>1, <1>6, <1>7, <1>8, Zenon DEF HartOK, RegsOK, Top
<1>12. WaitingOK'
  <2>1. on' # Boot /\ depth'[Boot] = 1 /\ frame'[Boot][1].at = "back"
    BY <1>1, <1>2, <1>6, ZenonT(60)
  <2>2. ASSUME NEW p \in Pid, p # q
        PROVE  /\ state'[p] = "None" <=> depth'[p] = 0
               /\ depth'[p] > 0 =>
                    LET f == frame'[p][depth'[p]] IN
                    f.at = "back" \/ (f.at = "fresh" /\ state'[p] = "Runnable")
    <3>1. p # on
      BY <1>4 DEF Boot, Pid
    <3> QED
      BY <1>3, <1>6, <2>2, <3>1, SMTT(60) DEF IInv, WaitingOK
  <2> QED
    BY <1>1, <2>1, <2>2, Zenon DEF WaitingOK
<1>13. TableOK'
  BY <1>1, <1>2, <1>5, <1>6, <1>9, Zenon DEF TableOK
<1> QED
  BY <1>6, <1>10, <1>11, <1>12, <1>13, Zenon DEF IInv

\* Nothing is runnable: the scheduler goes to wait for an interrupt.
LEMMA scheduler_idle_OK == IInv /\ scheduler_idle => IInv'
<1> SUFFICES ASSUME IInv, scheduler_idle PROVE IInv'
  OBVIOUS
<1>1. /\ In("scan", "body") /\ procs' = reaped /\ state' = reap(state)
      /\ NOFF' = NOFF - 1 /\ SIE' = 1
      /\ UNCHANGED <<INTENA, mode, sscratch, satp, on, current, next_slot,
                     NEXT_PID, remaining>>
  BY Zenon DEF scheduler_idle, hart
<1>2. /\ state' \in [Pid -> State]
      /\ \A p \in Pid : state'[p] = IF state[p] = "Zombie" THEN "None" ELSE state[p]
  BY <1>1, Zenon DEF reap, Zombies, State, IInv, TypeOK
<1>3. \A p \in Pid : /\ state'[p] = "None" <=> state[p] \in {"None", "Zombie"}
                     /\ state'[p] \in Chan => state'[p] = state[p]
                     /\ state'[p] # "Zombie"
                     /\ state'[p] = "Running" <=> state[p] = "Running"
  BY <1>2, Zenon DEF Chan
<1>4. /\ on = Boot /\ frame[Boot][1].at = "body" /\ frame'[Boot][1].at = "wfi0"
      /\ FrameOK(Boot, 1, frame'[Boot][1])
      /\ depth' \in [Ctx -> 0..MaxDepth] /\ depth'[Boot] = 1
      /\ frame' \in [Ctx -> [1..MaxDepth -> Frame]]
      /\ \A p \in Pid : IF state[p] = "Zombie" THEN depth'[p] = 0
                        ELSE depth'[p] = depth[p] /\ frame'[p] = frame[p]
      /\ procs' \in Seq(Pid \cup {None}) /\ Len(procs') = Len(procs)
      /\ NOFF = 1 /\ INTENA = 1 /\ sscratch = 0
      /\ StacksOK' /\ SlotsOK' /\ SpawnsOK' /\ NoLostWakeup'
  BY <1>1, <1>3, ReapStep, Zenon DEF scheduler_idle
<1>5. mode = "S" /\ \A p \in Pid : p # Boot
  BY <1>1, SMTT(30) DEF In, At_, Pid, Boot
<1>6. TypeOK'
  BY <1>1, <1>2, <1>4, <1>5, SMTT(30) DEF IInv, TypeOK, Bit
<1>7. HartOK'
  <2>1. Top' = frame'[Boot][1]
    BY <1>1, <1>4, Zenon DEF Top
  <2>2. Top'.kind = "sched"
    BY <1>4, <2>1, ZenonT(60) DEF FrameOK
  <2> QED
    BY <1>1, <1>4, <1>5, <2>1, <2>2, SMTT(60) DEF HartOK, RegsOK
<1>8. WaitingOK'
  <2>1. ASSUME NEW p \in Pid
        PROVE  /\ state'[p] = "None" <=> depth'[p] = 0
               /\ depth'[p] > 0 =>
                    LET f == frame'[p][depth'[p]] IN
                    f.at = "back" \/ (f.at = "fresh" /\ state'[p] = "Runnable")
    BY <1>2, <1>4, <1>5, SMTT(20) DEF IInv, WaitingOK
  <2> QED
    BY <1>1, <1>4, <1>5, <2>1, SMTT(60) DEF WaitingOK
<1>9. TableOK'
  BY <1>1, <1>3, <1>4, ZenonT(60) DEF IInv, TableOK
<1> QED
  BY <1>4, <1>6, <1>7, <1>8, <1>9, Zenon DEF IInv

\* Back from swtch, the loop drops the thread's page table and `current'.
LEMMA scheduler_return_OK == IInv /\ scheduler_return => IInv'
<1> SUFFICES ASSUME IInv, scheduler_return PROVE IInv'
  OBVIOUS
<1> DEFINE f == [Top EXCEPT !.at = "loop"]
<1>1. /\ mode = "S" /\ Top.at = "back" /\ Top.op = "scan" /\ Put(f)
      /\ satp' = KernelRoot /\ current' = None /\ pop_off(INTENA)
      /\ UNCHANGED <<INTENA, mode, sscratch, on, procs, next_slot, state,
                     NEXT_PID, remaining>>
  BY Zenon DEF scheduler_return, In, At_, Goto
<1>2. /\ on = Boot /\ depth[Boot] = 1 /\ Top = frame[Boot][1]
      /\ Top.kind = "sched"
  BY <1>1, OnBoot, Zenon
<1>3. /\ f \in Frame /\ f.at = "loop" /\ f.op = "scan" /\ f.kind = "sched"
      /\ f.old = Top.old /\ f.sav = Top.sav /\ f.arg = Top.arg
      /\ f.spie = Top.spie /\ f.spp = Top.spp
  <2>1. "loop" \in At /\ Top \in Frame
    BY <1>1, TopOK, Zenon DEF At
  <2> QED
    BY <1>1, <1>2, <2>1, GotoFrame
<1> HIDE DEF f
<1>4. FrameOK(Boot, 1, f)
  BY <1>1, <1>2, <1>3, TopOK, Zenon DEF FrameOK, PlaceOK
<1>5. SIE = 0 /\ NOFF = 1 /\ sscratch = 0 /\ INTENA \in Bit
  BY <1>1, <1>2, TopOK, Zenon DEF RegsOK
<1>6. NOFF' = 0 /\ SIE' \in Bit
  BY <1>1, <1>5, SMTT(30) DEF pop_off, Bit
<1>7. /\ depth' = depth /\ frame' \in [Ctx -> [1..MaxDepth -> Frame]]
      /\ \A c \in Ctx, d \in 1..MaxDepth :
           frame'[c][d] = IF c = Boot /\ d = 1 THEN f ELSE frame[c][d]
  BY <1>1, <1>2, <1>3, PutFacts, SMTT(60) DEF IInv
<1>8. /\ Boot \in Ctx /\ Pid \subseteq Ctx /\ Boot \notin Pid /\ 1 \in 1..MaxDepth
      /\ depth \in [Ctx -> 0..MaxDepth]
  BY ConstantsAssumption DEF IInv, TypeOK, Boot, Ctx, Pid
<1>9. \A c \in Ctx : 1..depth[c] \subseteq 1..MaxDepth
  BY <1>8, ConstantsAssumption
<1>10. frame'[Boot][1] = f /\ Top' = f
  BY <1>1, <1>2, <1>7, <1>8 DEF Top
<1>11. \A p \in Pid : \A d \in 1..depth[p] : frame'[p][d] = frame[p][d]
  BY <1>7, <1>8, <1>9, Zenon
<1>12. TypeOK'
  BY <1>1, <1>6, <1>7, <1>8, SMTT(30) DEF IInv, TypeOK, KernelRoot, None, Boot
<1>13. StacksOK'
  <2>1. \A c \in Ctx : c = Boot \/ c \in Pid
    BY SMTT(30) DEF Ctx, Pid, Boot
  <2>2. \A p \in Pid : /\ \A d \in 1..depth[p] : FrameOK(p, d, frame'[p][d])
                       /\ depth[p] <= 2
                       /\ depth[p] = 2 => Interrupted(frame'[p][1])
    BY <1>8, <1>11, SMTT(30) DEF IInv, StacksOK
  <2>3. \A d \in 1..depth[Boot] : FrameOK(Boot, d, frame'[Boot][d])
    BY <1>2, <1>4, <1>10, SMTT(30)
  <2> QED
    BY <1>2, <1>7, <2>1, <2>2, <2>3 DEF StacksOK
<1>14. HartOK'
  BY <1>1, <1>2, <1>3, <1>5, <1>6, <1>7, <1>10, SMTT(30) DEF HartOK, RegsOK
<1>15. WaitingOK'
  <2>1. \A p \in Pid : depth[p] > 0 => frame'[p][depth[p]] = frame[p][depth[p]]
    BY <1>8, <1>11
  <2>2. \A p \in Pid : p # on
    BY <1>2, <1>8, Zenon
  <2> QED
    BY <1>1, <1>2, <1>7, <2>1, <2>2, ZenonT(60) DEF IInv, WaitingOK
<1>16. TableOK'
  BY <1>1, <1>2, Zenon DEF IInv, TableOK
<1>17. SlotsOK'
  BY <1>1, ZenonT(60) DEF IInv, SlotsOK
<1>18. SpawnsOK'
  <2>1. \A c \in Ctx, d \in 1..MaxDepth : frame'[c][d].op = "spawn" =>
          frame[c][d].op = "spawn" /\ frame'[c][d].arg = frame[c][d].arg
    BY <1>3, <1>7, ZenonT(60)
  <2> QED
    BY <1>1, <1>7, <1>9, <2>1, SMTT(30) DEF IInv, SpawnsOK
<1>19. NoLostWakeup'
  <2>1. \A p \in Pid : state[p] \in Chan => frame'[p][depth'[p]] = frame[p][depth[p]]
    BY <1>1, <1>3, AsleepUntouched, Zenon
  <2> QED
    BY <1>1, <2>1 DEF IInv, NoLostWakeup, Chan
<1> QED
  BY <1>12, <1>13, <1>14, <1>15, <1>16, <1>17, <1>18, <1>19, Zenon DEF IInv

----------------------------------------------------------------------------
(* The theorems.                                                           *)

\* When kmain enters scheduler(), the threads it spawned wait in their forged
\* contexts and the hart is in the scheduler loop.
LEMMA InitOK == Init => IInv
<1> SUFFICES ASSUME Init PROVE IInv
  OBVIOUS
<1> DEFINE b == [NoFrame EXCEPT !.kind = "sched", !.op = "scan", !.at = "loop"]
<1>1. /\ Boot \in Ctx /\ Pid \subseteq Ctx /\ Boot \notin Pid /\ Ctx = Pid \cup {Boot}
      /\ 1 \in 1..MaxDepth
  BY ConstantsAssumption DEF Boot, Ctx, Pid
<1>2. /\ b \in Frame /\ b.kind = "sched" /\ b.op = "scan" /\ b.at = "loop"
  <2>1. NoFrame \in Frame /\ "sched" \in Kind /\ "scan" \in Op /\ "loop" \in At
    BY NoFrameOK, Zenon DEF Kind, Op, At
  <2> QED
    BY <2>1, Zenon DEF Frame
<1>3. /\ Forged \in Frame /\ Forged.kind = "thread" /\ Forged.op = "run"
      /\ Forged.at = "fresh"
  <2>1. NoFrame \in Frame /\ "fresh" \in At /\ NoFrame.kind = "thread" /\ NoFrame.op = "run"
    BY NoFrameOK, Zenon DEF At, NoFrame
  <2> QED
    BY <2>1, Zenon DEF Frame, Forged
<1>4. NoStack \in [1..MaxDepth -> Frame]
  BY NoFrameOK, Zenon DEF NoStack
<1>5. /\ OneFrame(b) \in [1..MaxDepth -> Frame] /\ OneFrame(b)[1] = b
      /\ OneFrame(Forged) \in [1..MaxDepth -> Frame] /\ OneFrame(Forged)[1] = Forged
  <2> HIDE DEF b
  <2> QED
    BY <1>1, <1>2, <1>3, <1>4, Zenon DEF OneFrame
<1>6. frame = [c \in Ctx |-> IF c = Boot THEN OneFrame(b)
                ELSE IF c <= NBoot THEN OneFrame(Forged) ELSE NoStack]
  BY Zenon DEF Init
<1> HIDE DEF b
<1>7. /\ frame \in [Ctx -> [1..MaxDepth -> Frame]] /\ frame[Boot][1] = b
      /\ \A p \in Pid : p <= NBoot => frame[p][1] = Forged
  BY <1>1, <1>4, <1>5, <1>6, Zenon
<1>8. /\ depth \in [Ctx -> 0..MaxDepth] /\ depth[Boot] = 1
      /\ \A p \in Pid : depth[p] = IF p <= NBoot THEN 1 ELSE 0
  BY <1>1, ConstantsAssumption DEF Init, Boot
<1>9. /\ procs \in Seq(Pid \cup {None}) /\ Len(procs) = NBoot
      /\ DOMAIN procs = 1..NBoot /\ \A i \in 1..NBoot : procs[i] = i /\ i \in Pid
  <2>1. procs = [i \in 1..NBoot |-> i] /\ NBoot \in Nat
    BY ConstantsAssumption DEF Init
  <2>2. \A i \in 1..NBoot : i \in Pid
    BY ConstantsAssumption DEF Pid
  <2>3. procs \in Seq(Pid \cup {None})
    BY <2>1, <2>2
  <2> QED
    BY <2>1, <2>2, <2>3
<1>10. /\ state \in [Pid -> State]
       /\ \A p \in Pid : state[p] = IF p <= NBoot THEN "Runnable" ELSE "None"
  BY Zenon DEF Init, State
<1>11. /\ SIE = 1 /\ NOFF = 0 /\ INTENA = 1 /\ mode = "S" /\ sscratch = 0
       /\ satp = KernelRoot /\ on = Boot /\ current = None /\ next_slot = 0
       /\ NEXT_PID = NBoot + 1 /\ remaining = [p \in Pid |-> 0]
  BY Zenon DEF Init
<1>12. TypeOK
  BY <1>1, <1>7, <1>8, <1>9, <1>10, <1>11, ConstantsAssumption, SMTT(30)
     DEF TypeOK, Bit, KernelRoot, None, Boot
<1>13. StacksOK
  <2>1. FrameOK(Boot, 1, b)
    BY <1>2, SMTT(30) DEF FrameOK, PlaceOK
  <2>2. \A p \in Pid : FrameOK(p, 1, Forged)
    BY <1>1, <1>3, SMTT(60) DEF FrameOK, PlaceOK
  <2>3. \A p \in Pid : \A d \in 1..depth[p] : FrameOK(p, d, frame[p][d])
    BY <1>7, <1>8, <2>2, SMTT(30)
  <2> QED
    BY <1>1, <1>7, <1>8, <2>1, <2>3, SMTT(30) DEF StacksOK
<1>14. HartOK
  BY <1>2, <1>7, <1>8, <1>11, SMTT(30) DEF HartOK, RegsOK, Top
<1>15. WaitingOK
  BY <1>3, <1>7, <1>8, <1>10, <1>11 DEF WaitingOK
<1>16. TableOK
  BY <1>1, <1>10, <1>11, Zenon DEF TableOK
<1>17. SlotsOK
  BY <1>9, <1>10, <1>11, ConstantsAssumption, SMTT(30) DEF SlotsOK, Pid
<1>18. SpawnsOK
  <2>1. \A c \in Ctx : \A d \in 1..depth[c] : frame[c][d].op # "spawn"
    BY <1>1, <1>2, <1>3, <1>7, <1>8
  <2> QED
    BY <2>1, Zenon DEF SpawnsOK
<1>19. NoLostWakeup
  BY <1>10, Zenon DEF NoLostWakeup
<1> QED
  BY <1>12, <1>13, <1>14, <1>15, <1>16, <1>17, <1>18, <1>19, Zenon DEF IInv

\* Every step of the kernel, of a thread or of the timer preserves IInv.
LEMMA NextOK == IInv /\ [Next]_vars => IInv'
<1> SUFFICES ASSUME IInv, [Next]_vars PROVE IInv'
  OBVIOUS
<1>1. CASE Section
  BY <1>1, push_off_read_OK, push_off_OK, sched_return_OK, yield_now_OK, exit_OK,
     join_OK, sleep_ticks_while_OK, sleep_ticks_OK, spawn_with_OK, Zenon DEF Section
<1>2. CASE Entry
  BY <1>2, thread_entry_OK, thread_entry_lookup_OK, user_load_OK, goto_OK,
     enter_user_sret_OK, Zenon DEF Entry
<1>3. CASE Scheduler
  BY <1>3, goto_OK, scheduler_return_OK, scheduler_idle_OK, scheduler_run_OK, Zenon
     DEF Scheduler
<1>4. CASE Handler
  BY <1>4, on_tick_OK, wakeup_OK, on_tick_preempt_OK, kernelvec_return_OK, Zenon DEF Handler
<1>5. CASE Call
  BY <1>5, thread_call_OK, dispatch_OK, Zenon DEF Call
<1>6. CASE timer_interrupt
  BY <1>6, timer_interrupt_OK, SMTT(20)
<1>7. CASE UNCHANGED vars
  <2>1. /\ SIE' = SIE /\ NOFF' = NOFF /\ INTENA' = INTENA /\ mode' = mode
        /\ sscratch' = sscratch /\ satp' = satp /\ on' = on /\ procs' = procs
        /\ current' = current /\ next_slot' = next_slot /\ NEXT_PID' = NEXT_PID
        /\ state' = state /\ remaining' = remaining /\ frame' = frame /\ depth' = depth
    BY <1>7, Zenon DEF vars, intr, hart, table, stacks
  <2>2. TypeOK'  BY <2>1, Zenon DEF IInv, TypeOK
  <2>3. StacksOK'  BY <2>1, Zenon DEF IInv, StacksOK
  <2>4. HartOK'  BY <2>1, Zenon DEF IInv, HartOK, Top
  <2>5. WaitingOK'  BY <2>1, Zenon DEF IInv, WaitingOK
  <2>6. TableOK'  BY <2>1, Zenon DEF IInv, TableOK
  <2>7. SlotsOK'  BY <2>1, ZenonT(60) DEF IInv, SlotsOK
  <2>8. SpawnsOK'  BY <2>1 DEF IInv, SpawnsOK
  <2>9. NoLostWakeup'  BY <2>1, Zenon DEF IInv, NoLostWakeup, Top
  <2> QED  BY <2>2, <2>3, <2>4, <2>5, <2>6, <2>7, <2>8, <2>9, Zenon DEF IInv
<1> QED
  BY <1>1, <1>2, <1>3, <1>4, <1>5, <1>6, <1>7, Zenon DEF Next, KernelStep

\* IInv is an invariant for every number of threads, of user processes, of
\* boot threads and every set of calls.
THEOREM Invariant == Spec => []IInv
BY InitOK, NextOK, PTL DEF Spec

\* Every variable keeps its type: in particular NOFF never underflows in
\* pop_off and `current' and `next_slot' always index the table.
THEOREM TypeCorrect == Spec => []TypeOK
<1>1. IInv => TypeOK
  BY Zenon DEF IInv
<1> QED
  BY <1>1, Invariant, PTL

\* Whoever is inside a push_off'd section has the hart to itself, with exactly
\* one level held: the three assertions of proc.rs and spinlock.rs never fire.
THEOREM SectionsAreExclusive == Spec => []SectionsExclusive
<1>1. IInv => SectionsExclusive
  BY TopOK, Zenon DEF SectionsExclusive, RegsOK
<1> QED
  BY <1>1, Invariant, PTL

\* The saved interrupt intent is right for every thread after any number of
\* switches, and traps nest at most one deep on a kernel stack.
THEOREM IntentIsPerThread == Spec => []InterruptIntent
<1>1. ASSUME IInv PROVE InterruptIntent
  <2>1. \A c \in Ctx : depth[c] <= 2
    BY <1>1, Zenon DEF IInv, StacksOK
  <2>2. mode = "U" => SIE = 1
    BY <1>1, Zenon DEF IInv, HartOK
  <2>3. ASSUME mode = "S", Top.at \in {"idle", "while", "read", "off", "ret"}
        PROVE  SIE = (IF Top.kind \in {"thread", "sched"} THEN 1 ELSE 0)
    BY <1>1, <2>3, TopOK, ZenonT(60) DEF RegsOK, Frame, Kind
  <2> QED
    BY <2>1, <2>2, <2>3, Zenon DEF InterruptIntent
<1> QED
  BY <1>1, Invariant, PTL

\* Running, `current', satp and the registers on the hart always name the same
\* thread.
THEOREM CurrentAgrees == Spec => []CurrentIsOnHart
<1>1. ASSUME IInv PROVE CurrentIsOnHart
  <2>1. ASSUME on = Boot, Top.at # "back" PROVE frame[Boot][1].at # "back"
    <3>1. mode = "S" /\ TypeOK
      BY <1>1, <2>1, Zenon DEF IInv, WaitingOK
    <3>2. Boot \in Ctx /\ depth[Boot] \in 1..MaxDepth
      BY <2>1, <3>1, TopFacts, Zenon
    <3>3. depth[Boot] <= 2 /\ (depth[Boot] = 2 => Interrupted(frame[Boot][1]))
      BY <1>1, <3>2, Zenon DEF IInv, StacksOK
    <3>4. CASE depth[Boot] = 1
      BY <2>1, <3>4, Zenon DEF Top
    <3>5. CASE depth[Boot] = 2
      BY <3>3, <3>5, Zenon DEF Interrupted
    <3> QED
      BY <3>2, <3>3, <3>4, <3>5, ConstantsAssumption
  <2> QED
    BY <1>1, <2>1, SMTT(30) DEF CurrentIsOnHart, IInv, TableOK
<1> QED
  BY <1>1, Invariant, PTL

\* The scheduler never frees a stack or page table in use, and no thread ever
\* runs beside an unreaped zombie.
THEOREM ReapingIsSafe == Spec => []ReapSafe
<1>1. ASSUME IInv PROVE ReapSafe
  <2>1. \A p \in Pid : state[p] # "None" => \E i \in DOMAIN procs : procs[i] = p
    BY <1>1, Zenon DEF IInv, SlotsOK
  <2>2. {on, satp, sscratch} \ {0} \subseteq Pid
    BY <1>1 DEF IInv, TypeOK, Ctx, Pid
  <2>3. on # 0 => state[on] # "None"
    BY <1>1, <2>2, Zenon DEF IInv, TableOK
  <2>4. satp # 0 => state[satp] # "None"
    BY <1>1, <2>2, <2>3, SMTT(20) DEF IInv, TableOK, KernelRoot, Boot
  <2>5. sscratch # 0 => sscratch = on
    BY <1>1, TopOK, SMTT(30) DEF IInv, HartOK, RegsOK, TypeOK
  <2>6. on # Boot => \A p \in Pid : state[p] # "Zombie"
    BY <1>1, Zenon DEF IInv, TableOK
  <2> QED
    BY <2>1, <2>2, <2>3, <2>4, <2>5, <2>6, Zenon DEF ReapSafe
<1> QED
  BY <1>1, Invariant, PTL

\* join and sleep_ticks lose no wakeup.
THEOREM WakeupsAreNotLost == Spec => []NoLostWakeup
<1>1. IInv => NoLostWakeup
  BY Zenon DEF IInv
<1> QED
  BY <1>1, Invariant, PTL

\* sscratch tells kernelvec the privilege it was entered from, at every
\* instruction at which a trap can be taken.
THEOREM SscratchIsRight == Spec => []SscratchTellsMode
<1>1. ASSUME IInv PROVE SscratchTellsMode
  <2>1. mode = "U" => on \in User /\ sscratch = on /\ depth[on] = 0
    BY <1>1, Zenon DEF IInv, HartOK
  <2>2. mode = "S" /\ SIE = 1 => sscratch = 0
    BY <1>1, TopOK DEF RegsOK
  <2> QED
    BY <2>1, <2>2, Zenon DEF SscratchTellsMode
<1> QED
  BY <1>1, Invariant, PTL
=============================================================================
