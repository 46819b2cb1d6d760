----------------------------- MODULE SyncProofs -----------------------------
(***************************************************************************)
(* The channel's invariants, for any number of threads and any capacity,   *)
(* and the safety part of its refinement of Fifo.                          *)
(***************************************************************************)
EXTENDS Sync, FiniteSetTheorems, TLAPS

\* The conjunction is inductive.
IInv == TypeOK /\ SlotsConserved /\ ItemsConserved /\ NoLostSignal

----------------------------------------------------------------------------
\* The sets of holders are finite.
LEMMA HoldersFinite ==
  /\ IsFiniteSet(SlotHolders) /\ Cardinality(SlotHolders) \in Nat
  /\ IsFiniteSet(ItemHolders) /\ Cardinality(ItemHolders) \in Nat
<1>1. SlotHolders \in SUBSET Thread /\ ItemHolders \in SUBSET Thread
  BY DEF SlotHolders, ItemHolders
<1>2. \A S \in SUBSET Thread : IsFiniteSet(S) /\ Cardinality(S) \in Nat
  BY FS_Subset, FS_CardinalityType, SyncAssumption
<1> QED  BY <1>1, <1>2

\* What the two conservation laws count.
LEMMA Numbers ==
  ASSUME TypeOK
  PROVE  /\ count["empty"] \in Nat /\ count["full"] \in Nat /\ Len(buf) \in Nat
         /\ Cardinality(SlotHolders) \in Nat /\ Cardinality(ItemHolders) \in Nat
BY HoldersFinite DEF TypeOK, Sem

\* A thread joins a finite set.
LEMMA Joins ==
  ASSUME NEW S, NEW t, IsFiniteSet(S), t \notin S
  PROVE  Cardinality(S \cup {t}) = Cardinality(S) + 1
BY FS_AddElement

\* A thread leaves a finite set.
LEMMA Leaves ==
  ASSUME NEW S, NEW t, IsFiniteSet(S), t \in S
  PROVE  Cardinality(S \ {t}) = Cardinality(S) - 1
BY FS_RemoveElement

----------------------------------------------------------------------------
(* One lemma per action.                                                   *)

\* Both calls start without a permit.
LEMMA StartOK ==
  ASSUME IInv, NEW t \in Thread,
         recv(t) \/ \E v \in Item : send(t, v)
  PROVE  IInv'
<1> USE DEF IInv
<1>1. PICK k \in {"send", "recv"} : /\ at[t] = "idle" /\ at' = [at EXCEPT ![t] = "wait"]
                         /\ call' = [call EXCEPT ![t] = k]
                         /\ UNCHANGED <<count, buf, asleep>>
                         /\ \/ k = "recv" /\ item' = item
                            \/ k = "send" /\ \E v \in Item : item' = [item EXCEPT ![t] = v]
  BY DEF recv, send
<1>2. UNCHANGED <<SlotHolders, ItemHolders>>
  BY <1>1 DEF SlotHolders, ItemHolders, TypeOK
<1>3. TypeOK'
  BY <1>1 DEF TypeOK, waits, Sem
<1>4. SlotsConserved' /\ ItemsConserved'
  BY <1>1, <1>2 DEF SlotsConserved, ItemsConserved
<1>5. NoLostSignal'
  BY <1>1 DEF NoLostSignal, TypeOK, signals
<1> QED  BY <1>3, <1>4, <1>5

\* Semaphore::wait takes a permit or falls asleep when there is none.
LEMMA wait_OK ==
  ASSUME IInv, NEW t \in Thread, wait(t)
  PROVE  IInv'
<1> USE DEF IInv
<1>1. /\ at[t] = "wait" /\ asleep[t] = "no" /\ call[t] \in {"send", "recv"}
      /\ UNCHANGED <<buf, call, item>>
  BY DEF wait, TypeOK
<1>2. CASE /\ count[waits(t)] > 0 /\ count' = [count EXCEPT ![waits(t)] = @ - 1]
           /\ at' = [at EXCEPT ![t] = "buf"] /\ UNCHANGED asleep
  <2>1. TypeOK'  BY <1>1, <1>2 DEF TypeOK, waits, Sem
  <2>2. SlotsConserved' /\ ItemsConserved'
    <3>1. CASE call[t] = "send"
      <4>1. SlotHolders' = SlotHolders \cup {t} /\ t \notin SlotHolders /\ UNCHANGED ItemHolders
        BY <1>1, <1>2, <3>1 DEF SlotHolders, ItemHolders, TypeOK
      <4>2. Cardinality(SlotHolders') = Cardinality(SlotHolders) + 1
        BY <4>1, Joins, HoldersFinite
      <4>3. count'["empty"] = count["empty"] - 1 /\ count'["full"] = count["full"]
        BY <1>2, <3>1 DEF TypeOK, waits, Sem
      <4>4. SlotsConserved'
        BY <1>1, <4>2, <4>3, Numbers, SMTT(30) DEF SlotsConserved
      <4>5. ItemsConserved'
        BY <1>1, <4>1, <4>3 DEF ItemsConserved
      <4> QED  BY <4>4, <4>5
    <3>2. CASE call[t] = "recv"
      <4>1. ItemHolders' = ItemHolders \cup {t} /\ t \notin ItemHolders /\ UNCHANGED SlotHolders
        BY <1>1, <1>2, <3>2 DEF SlotHolders, ItemHolders, TypeOK
      <4>2. Cardinality(ItemHolders') = Cardinality(ItemHolders) + 1
        BY <4>1, Joins, HoldersFinite
      <4>3. count'["full"] = count["full"] - 1 /\ count'["empty"] = count["empty"]
        BY <1>2, <3>2 DEF TypeOK, waits, Sem
      <4>4. SlotsConserved'
        BY <1>1, <4>1, <4>3 DEF SlotsConserved
      <4>5. ItemsConserved'
        BY <1>1, <4>2, <4>3, Numbers, SMTT(30) DEF ItemsConserved
      <4> QED  BY <4>4, <4>5
    <3> QED  BY <1>1, <3>1, <3>2
  <2>3. NoLostSignal'
    BY <1>1, <1>2 DEF NoLostSignal, TypeOK, signals, waits, Sem
  <2> QED  BY <2>1, <2>2, <2>3
<1>3. CASE /\ count[waits(t)] = 0 /\ asleep' = [asleep EXCEPT ![t] = waits(t)]
           /\ UNCHANGED <<count, at>>
  <2>1. TypeOK'  BY <1>1, <1>3 DEF TypeOK, waits, Sem
  <2>2. UNCHANGED <<SlotHolders, ItemHolders>>
    BY <1>1, <1>3 DEF SlotHolders, ItemHolders
  <2>3. SlotsConserved' /\ ItemsConserved'
    BY <1>1, <1>3, <2>2 DEF SlotsConserved, ItemsConserved
  <2>4. NoLostSignal'
    BY <1>1, <1>3 DEF NoLostSignal, TypeOK, signals, waits, Sem
  <2> QED  BY <2>1, <2>3, <2>4
<1> QED  BY <1>2, <1>3 DEF wait

\* send fills the slot it holds.
LEMMA push_back_OK ==
  ASSUME IInv, NEW t \in Thread, push_back(t)
  PROVE  IInv'
<1> USE DEF IInv
<1>1. /\ at[t] = "buf" /\ call[t] = "send" /\ at' = [at EXCEPT ![t] = "signal"]
      /\ buf' = Append(buf, item[t]) /\ UNCHANGED <<count, call, item, asleep>>
  BY DEF push_back
<1>2. item[t] \in Item  BY <1>1 DEF TypeOK
<1>3. buf' \in Seq(Item) /\ Len(buf') = Len(buf) + 1 /\ Len(buf) \in Nat
  BY <1>1, <1>2 DEF TypeOK
<1>4. TypeOK'  BY <1>1, <1>3 DEF TypeOK, waits
<1>5. /\ SlotHolders' = SlotHolders \ {t} /\ t \in SlotHolders
      /\ ItemHolders' = ItemHolders \cup {t} /\ t \notin ItemHolders
  BY <1>1 DEF SlotHolders, ItemHolders, TypeOK
<1>6. SlotsConserved' /\ ItemsConserved'
  <2>1. /\ Cardinality(SlotHolders') = Cardinality(SlotHolders) - 1
        /\ Cardinality(ItemHolders') = Cardinality(ItemHolders) + 1
    BY <1>5, Joins, Leaves, HoldersFinite
  <2>2. count' = count /\ Len(buf') = Len(buf) + 1  BY <1>1, <1>3
  <2>3. SlotsConserved'  BY <2>1, <2>2, Numbers, SMTT(30) DEF SlotsConserved
  <2>4. ItemsConserved'  BY <2>1, <2>2, Numbers, SMTT(30) DEF ItemsConserved
  <2> QED  BY <2>3, <2>4
<1>7. NoLostSignal'  BY <1>1 DEF NoLostSignal, TypeOK, signals
<1> QED  BY <1>4, <1>6, <1>7

\* recv empties a slot: there is an item for everyone who holds a permit.
LEMMA pop_front_OK ==
  ASSUME IInv, NEW t \in Thread, pop_front(t)
  PROVE  IInv'
<1> USE DEF IInv
<1>1. /\ at[t] = "buf" /\ call[t] = "recv" /\ at' = [at EXCEPT ![t] = "signal"]
      /\ buf # <<>> /\ buf' = Tail(buf) /\ item' = [item EXCEPT ![t] = Head(buf)]
      /\ UNCHANGED <<count, call, asleep>>
  BY DEF pop_front
<1>2. /\ Head(buf) \in Item /\ buf' \in Seq(Item)
      /\ Len(buf') = Len(buf) - 1 /\ Len(buf) \in Nat
  BY <1>1 DEF TypeOK
<1>3. TypeOK'  BY <1>1, <1>2 DEF TypeOK, waits
<1>4. /\ ItemHolders' = ItemHolders \ {t} /\ t \in ItemHolders
      /\ SlotHolders' = SlotHolders \cup {t} /\ t \notin SlotHolders
  BY <1>1 DEF SlotHolders, ItemHolders, TypeOK
<1>5. SlotsConserved' /\ ItemsConserved'
  <2>1. /\ Cardinality(ItemHolders') = Cardinality(ItemHolders) - 1
        /\ Cardinality(SlotHolders') = Cardinality(SlotHolders) + 1
    BY <1>4, Joins, Leaves, HoldersFinite, SMTT(30)
  <2>2. count' = count /\ Len(buf') = Len(buf) - 1  BY <1>1, <1>2
  <2>3. SlotsConserved'  BY <2>1, <2>2, Numbers, SMTT(30) DEF SlotsConserved
  <2>4. ItemsConserved'  BY <2>1, <2>2, Numbers, SMTT(30) DEF ItemsConserved
  <2> QED  BY <2>3, <2>4
<1>6. NoLostSignal'  BY <1>1 DEF NoLostSignal, TypeOK, signals
<1> QED  BY <1>3, <1>5, <1>6

\* The increment: the signaller is now the witness that a wakeup follows.
LEMMA signal_OK ==
  ASSUME IInv, NEW t \in Thread, signal(t)
  PROVE  IInv'
<1> USE DEF IInv
<1>1. /\ at[t] = "signal" /\ at' = [at EXCEPT ![t] = "wakeup"]
      /\ call[t] \in {"send", "recv"}
      /\ count' = [count EXCEPT ![signals(t)] = @ + 1]
      /\ UNCHANGED <<buf, call, item, asleep>>
  BY DEF signal, TypeOK
<1>2. TypeOK'  BY <1>1 DEF TypeOK, signals, waits, Sem
<1>3. SlotsConserved' /\ ItemsConserved'
  <2>1. CASE call[t] = "send"
    <3>1. ItemHolders' = ItemHolders \ {t} /\ t \in ItemHolders /\ UNCHANGED SlotHolders
      BY <1>1, <2>1 DEF SlotHolders, ItemHolders, TypeOK
    <3>2. Cardinality(ItemHolders') = Cardinality(ItemHolders) - 1
      BY <3>1, Leaves, HoldersFinite
    <3>3. count'["full"] = count["full"] + 1 /\ count'["empty"] = count["empty"]
      BY <1>1, <2>1 DEF TypeOK, signals, Sem
    <3>4. SlotsConserved'  BY <1>1, <3>1, <3>3, SMTT(30) DEF SlotsConserved
    <3>5. ItemsConserved'  BY <1>1, <3>2, <3>3, Numbers, SMTT(30) DEF ItemsConserved
    <3> QED  BY <3>4, <3>5
  <2>2. CASE call[t] = "recv"
    <3>1. SlotHolders' = SlotHolders \ {t} /\ t \in SlotHolders /\ UNCHANGED ItemHolders
      BY <1>1, <2>2, SMTT(30) DEF SlotHolders, ItemHolders, TypeOK
    <3>2. Cardinality(SlotHolders') = Cardinality(SlotHolders) - 1
      BY <3>1, Leaves, HoldersFinite, SMTT(30)
    <3>3. count'["empty"] = count["empty"] + 1 /\ count'["full"] = count["full"]
      BY <1>1, <2>2, SMTT(30) DEF TypeOK, signals, Sem
    <3>4. SlotsConserved'  BY <1>1, <3>2, <3>3, Numbers, SMTT(30) DEF SlotsConserved
    <3>5. ItemsConserved'  BY <1>1, <3>1, <3>3 DEF ItemsConserved
    <3> QED  BY <3>4, <3>5
  <2> QED  BY <1>1, <2>1, <2>2
<1>4. NoLostSignal'
  BY <1>1, SMTT(30) DEF NoLostSignal, TypeOK, signals, waits, Sem
<1> QED  BY <1>2, <1>3, <1>4

\* The wakeup leaves no sleeper on the semaphore it is for.
LEMMA wakeup_OK ==
  ASSUME IInv, NEW t \in Thread, wakeup(t)
  PROVE  IInv'
<1> USE DEF IInv
<1>1. /\ at[t] = "wakeup" /\ at' = [at EXCEPT ![t] = "idle"]
      /\ call' = [call EXCEPT ![t] = "none"] /\ item' = [item EXCEPT ![t] = NoItem]
      /\ asleep' = [u \in Thread |-> IF asleep[u] = signals(t) THEN "no" ELSE asleep[u]]
      /\ UNCHANGED <<count, buf>>
  BY SMTT(30) DEF wakeup, Return
<1>2. TypeOK'  BY <1>1, SMTT(30) DEF TypeOK, signals, waits, Sem
<1>3. UNCHANGED <<SlotHolders, ItemHolders>>
  BY <1>1, SMTT(30) DEF SlotHolders, ItemHolders, TypeOK
<1>4. SlotsConserved' /\ ItemsConserved'
  BY <1>1, <1>3, SMTT(30) DEF SlotsConserved, ItemsConserved
<1>5. NoLostSignal'
  BY <1>1 DEF NoLostSignal, TypeOK, signals, waits, Sem
<1> QED  BY <1>2, <1>4, <1>5

----------------------------------------------------------------------------
\* The channel starts with all permits free.
LEMMA InitOK == Init => IInv
<1> SUFFICES ASSUME Init PROVE IInv  OBVIOUS
<1>1. TypeOK  BY SyncAssumption DEF Init, TypeOK, Sem
<1>2. SlotHolders = {} /\ ItemHolders = {}
  BY DEF Init, SlotHolders, ItemHolders
<1>3. SlotsConserved /\ ItemsConserved
  <2>1. count["empty"] = Capacity /\ count["full"] = 0 /\ Len(buf) = 0
    BY DEF Init, Sem
  <2> QED  BY <1>2, <2>1, FS_EmptySet, SyncAssumption, SMTT(30) DEF SlotsConserved, ItemsConserved
<1>4. NoLostSignal  BY DEF Init, NoLostSignal
<1> QED  BY <1>1, <1>3, <1>4, SMTT(30) DEF IInv

\* Every step keeps the invariant.
LEMMA NextOK == IInv /\ [Next]_vars => IInv'
<1> SUFFICES ASSUME IInv, [Next]_vars PROVE IInv'  OBVIOUS
<1>1. CASE UNCHANGED vars
  BY <1>1, SMTT(30) DEF vars, IInv, TypeOK, SlotsConserved, ItemsConserved, NoLostSignal,
              SlotHolders, ItemHolders, waits, signals
<1>2. CASE Next
  <2>1. PICK t \in Thread : Step(t) \/ recv(t) \/ \E v \in Item : send(t, v)
    BY <1>2, SMTT(30) DEF Next
  <2> QED  BY <2>1, StartOK, wait_OK, push_back_OK, pop_front_OK, signal_OK, wakeup_OK, SMTT(30)
           DEF Step
<1> QED  BY <1>1, <1>2

\* The inductive invariant holds for any number of threads and any capacity.
THEOREM Invariant == Spec => []IInv
BY InitOK, NextOK, PTL DEF Spec

\* send and recv account for every slot of the channel (SlotsConserved).
THEOREM SlotsAreConserved == Spec => []SlotsConserved
BY Invariant, PTL DEF IInv

\* send and recv account for every item in the buffer (ItemsConserved).
THEOREM ItemsAreConserved == Spec => []ItemsConserved
BY Invariant, PTL DEF IInv

\* Semaphore::signal is never lost on a thread in Semaphore::wait.
THEOREM SignalsAreNotLost == Spec => []NoLostSignal
BY Invariant, PTL DEF IInv

\* Threads blocked in send and threads blocked in recv never wait for each
\* other.
THEOREM BlocksOnlyAtLimit == Spec => []BlockedOnlyAtLimit
<1>1. IInv => BlockedOnlyAtLimit
  <2> SUFFICES ASSUME IInv,
                      \A t \in Thread : at[t] # "idle" => asleep[t] # "no",
                      NEW t \in Thread, at[t] # "idle"
               PROVE  IF call[t] = "send" THEN Len(buf) = Capacity ELSE buf = <<>>
    BY SMTT(30) DEF BlockedOnlyAtLimit
  <2> USE DEF IInv
  <2>1. \A u \in Thread : at[u] \in {"idle", "wait"}
    BY SMTT(30) DEF TypeOK
  <2>2. SlotHolders = {} /\ ItemHolders = {}
    BY <2>1, SMTT(30) DEF SlotHolders, ItemHolders
  <2>3. count["empty"] + Len(buf) = Capacity /\ Len(buf) = count["full"]
    BY <2>2, FS_EmptySet, SMTT(30) DEF SlotsConserved, ItemsConserved, TypeOK, Sem
  <2>4. asleep[t] = waits(t) /\ count[waits(t)] = 0
    BY <2>1, SMTT(30) DEF TypeOK, NoLostSignal, waits, Sem
  <2> QED  BY <2>3, <2>4, SyncAssumption, SMTT(30) DEF waits, TypeOK, Sem
<1> QED  BY <1>1, Invariant, PTL

----------------------------------------------------------------------------
\* There is room for a sender about to call push_back.
LEMMA Room ==
  ASSUME IInv, NEW t \in Thread, call[t] = "send", at[t] = "buf"
  PROVE  Len(buf) < Capacity
<1>1. t \in SlotHolders  BY SMTT(30) DEF SlotHolders
<1>2. Cardinality(SlotHolders) > 0  BY <1>1, HoldersFinite, FS_EmptySet, SMTT(30)
<1> QED  BY <1>2, HoldersFinite, SyncAssumption, SMTT(30) DEF IInv, SlotsConserved, TypeOK, Sem

\* Every step of the channel is a step of the queue or invisible to it.
LEMMA StepSimulation == IInv /\ [Next]_vars => [F!Next]_F!vars
<1> SUFFICES ASSUME IInv, [Next]_vars PROVE [F!Next]_F!vars  OBVIOUS
<1> USE DEF IInv
<1>1. CASE UNCHANGED vars
  BY <1>1, SMTT(30) DEF vars, F!vars, tookEffect
<1>2. ASSUME NEW t \in Thread, NEW v \in Item, send(t, v)  PROVE F!Send(t, v)
  <2>1. UNCHANGED tookEffect  BY <1>2, SMTT(30) DEF send, tookEffect, TypeOK
  <2> QED  BY <1>2, <2>1, SMTT(30) DEF send, F!Send, TypeOK
<1>3. ASSUME NEW t \in Thread, recv(t)  PROVE F!Recv(t)
  <2>1. UNCHANGED tookEffect  BY <1>3, SMTT(30) DEF recv, tookEffect, TypeOK
  <2> QED  BY <1>3, <2>1, SMTT(30) DEF recv, F!Recv, TypeOK
<1>4. ASSUME NEW t \in Thread, wait(t)  PROVE UNCHANGED F!vars
  BY <1>4 DEF wait, F!vars, tookEffect, TypeOK
<1>5. ASSUME NEW t \in Thread, push_back(t)  PROVE F!Enqueue(t)
  <2>1. tookEffect' = [tookEffect EXCEPT ![t] = "yes"] /\ tookEffect[t] = "no"
    BY <1>5, Zenon DEF push_back, tookEffect, TypeOK
  <2>2. Len(buf) < Capacity  BY <1>5, Room DEF push_back
  <2> QED  BY <1>5, <2>1, <2>2 DEF push_back, F!Enqueue
<1>6. ASSUME NEW t \in Thread, pop_front(t)  PROVE F!Dequeue(t)
  <2>1. tookEffect' = [tookEffect EXCEPT ![t] = "yes"] /\ tookEffect[t] = "no"
    BY <1>6, Zenon DEF pop_front, tookEffect, TypeOK
  <2> QED  BY <1>6, <2>1 DEF pop_front, F!Dequeue
<1>7. ASSUME NEW t \in Thread, signal(t)  PROVE UNCHANGED F!vars
  BY <1>7 DEF signal, F!vars, tookEffect, TypeOK
<1>8. ASSUME NEW t \in Thread, wakeup(t)  PROVE F!Return(t)
  <2>1. tookEffect' = [tookEffect EXCEPT ![t] = "no"] /\ tookEffect[t] = "yes"
    BY <1>8, Zenon DEF wakeup, Return, tookEffect, TypeOK
  <2> QED  BY <1>8, <2>1 DEF wakeup, Return, F!Return
<1>9. CASE Next
  BY <1>9, <1>2, <1>3, <1>4, <1>5, <1>6, <1>7, <1>8 DEF Next, Step, F!Next
<1> QED  BY <1>1, <1>9, SMTT(30)

\* The channel is a bounded FIFO whose send and recv are atomic, whatever the
\* preemptions inside them.
THEOREM ChannelIsFifo == Spec => ImplementsFifo
<1>1. Init => F!Init
  BY DEF Init, F!Init, tookEffect
<1> QED  BY <1>1, Invariant, StepSimulation, PTL DEF Spec, ImplementsFifo, F!SafeSpec
============================================================================
