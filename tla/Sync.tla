-------------------------------- MODULE Sync --------------------------------
(***************************************************************************)
(* sync.rs: the counting semaphore and the bounded blocking channel built  *)
(* from two of them, used by any number of threads at once.                *)
(*                                                                         *)
(* A step is one push_off'd section.  Sched shows that such a section runs *)
(* alone (SectionsExclusive), so a thread can be preempted exactly between *)
(* two of them: between taking a slot and filling it, between filling it   *)
(* and signalling, and between the increment and the wakeup of signal.     *)
(***************************************************************************)
EXTENDS Integers, Sequences, FiniteSets

CONSTANTS
  Thread,     \* the kernel threads that use the channel
  Item,       \* what is sent
  NoItem,     \* no item
  Capacity    \* Channel::new(capacity)

ASSUME SyncAssumption ==
  /\ IsFiniteSet(Thread)
  /\ NoItem \notin Item
  /\ Capacity \in Nat \ {0}

VARIABLES
  count,      \* Semaphore.count of `empty' and `full'
  buf,        \* Channel.buf
  call,       \* the call a thread is in: "none", "send" or "recv"
  at,         \* the section it executes next
  item,       \* the item it sends or has received
  asleep      \* the semaphore it sleeps on, or "no"

vars == <<count, buf, call, at, item, asleep>>

Sem == {"empty", "full"}

\* The semaphore a call waits on first, and the one it signals last.
waits(t) == IF call[t] = "send" THEN "empty" ELSE "full"
signals(t) == IF call[t] = "send" THEN "full" ELSE "empty"

Init ==
  /\ count = [s \in Sem |-> IF s = "empty" THEN Capacity ELSE 0]
  /\ buf = <<>>
  /\ call = [t \in Thread |-> "none"]
  /\ at = [t \in Thread |-> "idle"]
  /\ item = [t \in Thread |-> NoItem]
  /\ asleep = [t \in Thread |-> "no"]

----------------------------------------------------------------------------
send(t, v) ==
  /\ at[t] = "idle"
  /\ call' = [call EXCEPT ![t] = "send"]
  /\ item' = [item EXCEPT ![t] = v]
  /\ at' = [at EXCEPT ![t] = "wait"]
  /\ UNCHANGED <<count, buf, asleep>>

recv(t) ==
  /\ at[t] = "idle"
  /\ call' = [call EXCEPT ![t] = "recv"]
  /\ at' = [at EXCEPT ![t] = "wait"]
  /\ UNCHANGED <<count, buf, item, asleep>>

\* Mutant: wait that takes no permit.
wait_free(t) ==
  /\ at[t] = "wait" /\ asleep[t] = "no"
  /\ \/ /\ count[waits(t)] > 0
        /\ at' = [at EXCEPT ![t] = "buf"]
        /\ UNCHANGED asleep
     \/ /\ count[waits(t)] = 0
        /\ asleep' = [asleep EXCEPT ![t] = waits(t)]
        /\ UNCHANGED at
  /\ UNCHANGED <<count, buf, call, item>>

\* Semaphore::wait: take a permit, or sleep and try again once woken.
wait(t) ==
  /\ at[t] = "wait" /\ asleep[t] = "no"
  /\ \/ /\ count[waits(t)] > 0
        /\ count' = [count EXCEPT ![waits(t)] = @ - 1]
        /\ at' = [at EXCEPT ![t] = "buf"]
        /\ UNCHANGED asleep
     \/ /\ count[waits(t)] = 0
        /\ asleep' = [asleep EXCEPT ![t] = waits(t)]
        /\ UNCHANGED <<count, at>>
  /\ UNCHANGED <<buf, call, item>>

push_back(t) ==
  /\ at[t] = "buf" /\ call[t] = "send"
  /\ buf' = Append(buf, item[t])
  /\ at' = [at EXCEPT ![t] = "signal"]
  /\ UNCHANGED <<count, call, item, asleep>>

\* Mutant: the newest item first.
pop_back(t) ==
  /\ at[t] = "buf" /\ call[t] = "recv" /\ buf # <<>>
  /\ item' = [item EXCEPT ![t] = buf[Len(buf)]]
  /\ buf' = SubSeq(buf, 1, Len(buf) - 1)
  /\ at' = [at EXCEPT ![t] = "signal"]
  /\ UNCHANGED <<count, call, asleep>>

\* An empty buffer panics ("full semaphore without an item"): no step.
pop_front(t) ==
  /\ at[t] = "buf" /\ call[t] = "recv" /\ buf # <<>>
  /\ item' = [item EXCEPT ![t] = Head(buf)]
  /\ buf' = Tail(buf)
  /\ at' = [at EXCEPT ![t] = "signal"]
  /\ UNCHANGED <<count, call, asleep>>

\* Mutant: a signal that wakes without counting.
signal_uncounted(t) ==
  /\ at[t] = "signal"
  /\ at' = [at EXCEPT ![t] = "wakeup"]
  /\ UNCHANGED <<count, buf, call, item, asleep>>

\* Semaphore::signal, its two sections: increment, then wake all sleepers.
signal(t) ==
  /\ at[t] = "signal"
  /\ count' = [count EXCEPT ![signals(t)] = @ + 1]
  /\ at' = [at EXCEPT ![t] = "wakeup"]
  /\ UNCHANGED <<buf, call, item, asleep>>

Return(t) ==
  /\ at' = [at EXCEPT ![t] = "idle"]
  /\ call' = [call EXCEPT ![t] = "none"]
  /\ item' = [item EXCEPT ![t] = NoItem]

\* Mutant: a signal that wakes the semaphore the caller waited on.
wakeup_other(t) ==
  /\ at[t] = "wakeup"
  /\ asleep' = [u \in Thread |-> IF asleep[u] = waits(t) THEN "no" ELSE asleep[u]]
  /\ Return(t)
  /\ UNCHANGED <<count, buf>>

wakeup(t) ==
  /\ at[t] = "wakeup"
  /\ asleep' = [u \in Thread |-> IF asleep[u] = signals(t) THEN "no" ELSE asleep[u]]
  /\ Return(t)
  /\ UNCHANGED <<count, buf>>

----------------------------------------------------------------------------
Step(t) == wait(t) \/ push_back(t) \/ pop_front(t) \/ signal(t) \/ wakeup(t)

Next == \E t \in Thread : Step(t) \/ recv(t) \/ \E v \in Item : send(t, v)

Spec == Init /\ [][Next]_vars

\* A thread that is not asleep runs eventually (Sched: RunnableRuns) and the
\* code of a call does not loop.  Threads need not make calls.
FairSpec == Spec /\ \A t \in Thread : WF_vars(Step(t))

----------------------------------------------------------------------------
(* Correctness.                                                            *)

\* Every variable has its type; only a thread in wait is asleep, on the
\* semaphore it waits for.
TypeOK ==
  /\ count \in [Sem -> Nat]
  /\ buf \in Seq(Item)
  /\ call \in [Thread -> {"none", "send", "recv"}]
  /\ at \in [Thread -> {"idle", "wait", "buf", "signal", "wakeup"}]
  /\ item \in [Thread -> Item \cup {NoItem}]
  /\ asleep \in [Thread -> Sem \cup {"no"}]
  /\ \A t \in Thread : call[t] = "none" <=> at[t] = "idle"
  /\ \A t \in Thread : asleep[t] # "no" => at[t] = "wait" /\ asleep[t] = waits(t)
  /\ \A t \in Thread : call[t] = "send" => item[t] \in Item

\* The threads that hold an empty slot: senders about to fill it, receivers
\* that emptied it and have not signalled yet.
SlotHolders ==
  {t \in Thread : at[t] = (IF call[t] = "send" THEN "buf" ELSE "signal")}

\* The threads that hold an item: receivers about to take it, senders that
\* put it there and have not signalled yet.
ItemHolders ==
  {t \in Thread : at[t] = (IF call[t] = "send" THEN "signal" ELSE "buf")}

\* Every slot is accounted for, wherever the threads were preempted: it is a
\* permit of `empty', held by a thread, or filled.  Hence the buffer never
\* exceeds the capacity.
SlotsConserved ==
  count["empty"] + Cardinality(SlotHolders) + Len(buf) = Capacity

\* Every item is accounted for: it is a permit of `full' or held by a thread.
\* Hence the expect in recv never fires, however many receivers are between
\* their wait and their pop_front.
ItemsConserved ==
  count["full"] + Cardinality(ItemHolders) = Len(buf)

\* No signal is lost: while a thread sleeps on a semaphore that has permits,
\* some signaller has yet to execute its wakeup.
NoLostSignal ==
  \A t \in Thread : asleep[t] # "no" /\ count[asleep[t]] > 0 =>
    \E u \in Thread : at[u] = "wakeup" /\ signals(u) = asleep[t]

\* Senders and receivers never block each other: when every thread in a call
\* sleeps, they are all senders on a full channel or all receivers on an empty
\* one.
BlockedOnlyAtLimit ==
  LET busy == {t \in Thread : at[t] # "idle"} IN
  (\A t \in busy : asleep[t] # "no") =>
    \A t \in busy : IF call[t] = "send" THEN Len(buf) = Capacity ELSE buf = <<>>

----------------------------------------------------------------------------
(* The channel implements the queue of module Fifo; a call takes effect    *)
(* when the buffer changes.                                                *)

tookEffect ==
  [t \in Thread |-> IF at[t] \in {"signal", "wakeup"} THEN "yes" ELSE "no"]

F == INSTANCE Fifo WITH q <- buf, done <- tookEffect, val <- item

\* send and recv are atomic, ordered and bounded.
ImplementsFifo == F!SafeSpec

\* Also its progress: while there is room some sender gets through, while
\* there are items some receiver does, and every call that took effect
\* returns.
ImplementsFairFifo == F!Spec
============================================================================
