-------------------------------- MODULE Fifo --------------------------------
(***************************************************************************)
(* What a Channel promises its callers: a bounded first-in-first-out queue *)
(* on which each call takes effect at one instant between its start and    *)
(* its return.                                                             *)
(***************************************************************************)
EXTENDS Integers, Sequences

CONSTANTS Thread, Item, NoItem, Capacity

VARIABLES
  q,      \* the queue
  call,   \* "none", "send" or "recv"
  done,   \* "yes" once the call has taken effect, else "no"
  val     \* the item being sent, or received

vars == <<q, call, done, val>>

Init ==
  /\ q = <<>>
  /\ call = [t \in Thread |-> "none"]
  /\ done = [t \in Thread |-> "no"]
  /\ val = [t \in Thread |-> NoItem]

Send(t, v) ==
  /\ call[t] = "none"
  /\ call' = [call EXCEPT ![t] = "send"]
  /\ val' = [val EXCEPT ![t] = v]
  /\ UNCHANGED <<q, done>>

Recv(t) ==
  /\ call[t] = "none"
  /\ call' = [call EXCEPT ![t] = "recv"]
  /\ UNCHANGED <<q, done, val>>

Enqueue(t) ==
  /\ call[t] = "send" /\ done[t] = "no" /\ Len(q) < Capacity
  /\ q' = Append(q, val[t])
  /\ done' = [done EXCEPT ![t] = "yes"]
  /\ UNCHANGED <<call, val>>

Dequeue(t) ==
  /\ call[t] = "recv" /\ done[t] = "no" /\ q # <<>>
  /\ val' = [val EXCEPT ![t] = Head(q)]
  /\ q' = Tail(q)
  /\ done' = [done EXCEPT ![t] = "yes"]
  /\ UNCHANGED call

Return(t) ==
  /\ done[t] = "yes"
  /\ call' = [call EXCEPT ![t] = "none"]
  /\ done' = [done EXCEPT ![t] = "no"]
  /\ val' = [val EXCEPT ![t] = NoItem]
  /\ UNCHANGED q

Next ==
  \E t \in Thread :
    \/ \E v \in Item : Send(t, v)
    \/ Recv(t) \/ Enqueue(t) \/ Dequeue(t) \/ Return(t)

SafeSpec == Init /\ [][Next]_vars

\* Some blocked sender gets through while there is room, some blocked receiver
\* while there is an item, and a call that took effect returns.  Nobody in
\* particular is promised to win a race.
Spec ==
  /\ SafeSpec
  /\ WF_vars(\E t \in Thread : Enqueue(t))
  /\ WF_vars(\E t \in Thread : Dequeue(t))
  /\ \A t \in Thread : WF_vars(Return(t))
============================================================================
