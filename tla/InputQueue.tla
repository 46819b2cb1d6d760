----------------------------- MODULE InputQueue -----------------------------
(***************************************************************************)
(* What console input promises of the bytes that come in: each is queued,  *)
(* in the order received, unless the device's FIFO or the queue is full at *)
(* that moment; and every byte that is read is given to one reader, in     *)
(* order and without gaps.                                                 *)
(***************************************************************************)
EXTENDS Integers, Sequences

CONSTANTS
  Reader,      \* the threads that read
  Received,    \* the bytes that come in
  FifoDepth,   \* the limit of the device
  INPUT_CAP,   \* the limit of the queue
  Rejected     \* what a reader gets whose buffer is rejected

VARIABLES
  arrived,     \* number of bytes that came in
  fifo,        \* those that the device holds
  q,           \* the queue
  got          \* what each reader got last

vars == <<arrived, fifo, q, got>>

Init ==
  /\ arrived = 0 /\ fifo = <<>>
  /\ q = <<>>
  /\ got = [t \in Reader |-> <<>>]

\* s with b at its end, unless s is full.
Kept(s, b, limit) == IF Len(s) < limit THEN Append(s, b) ELSE s

Receive(b) ==
  /\ arrived' = arrived + 1
  /\ fifo' = Kept(fifo, b, FifoDepth)
  /\ UNCHANGED <<q, got>>

AsQueued(b) == IF b = "cr" THEN "nl" ELSE b

\* The device's oldest byte goes into the queue.  It is lost only if the
\* queue is full.
Enqueue ==
  /\ fifo # <<>>
  /\ fifo' = Tail(fifo)
  /\ q' = Kept(q, AsQueued(Head(fifo)), INPUT_CAP)
  /\ UNCHANGED <<arrived, got>>

Take(t, n) ==
  /\ q' = SubSeq(q, n + 1, Len(q))
  /\ \E result \in {SubSeq(q, 1, n), Rejected} : got' = [got EXCEPT ![t] = result]
  /\ UNCHANGED <<arrived, fifo>>

\* read(len = 0)
Nothing(t) ==
  /\ got' = [got EXCEPT ![t] = <<>>]
  /\ UNCHANGED <<arrived, fifo, q>>

Next ==
  \/ \E b \in Received : Receive(b)
  \/ Enqueue
  \/ \E t \in Reader : Nothing(t) \/ \E n \in 1..Len(q) : Take(t, n)

Spec == Init /\ [][Next]_vars
============================================================================
