---------------------------- MODULE ConsoleProofs ----------------------------
(***************************************************************************)
(* The ring of console.rs is a bounded queue and no reader sleeps on a     *)
(* byte, for any readers, any size of the ring, any lengths and any input. *)
(***************************************************************************)
EXTENDS Console, SequenceTheorems, TLAPS

Byte == Queued \cup {"zero"}

TypeInv ==
  /\ fifo \in Seq(Queued \cup {"cr"})
  /\ buf \in [0..(INPUT_CAP - 1) -> Byte]
  /\ r \in Nat /\ w \in Nat /\ r <= w /\ w - r <= INPUT_CAP
  /\ at \in [Reader -> {"out", "try", "asleep"}]
  /\ cap \in [User -> Nat]

\* A process in a read has asked for something.
CapInv == \A p \in User : at[p] # "out" => cap[p] > 0

IInv == TypeInv /\ CapInv /\ NothingMissed

------------------------------------------------------------------------------
(* The bytes between the two indices.                                       *)

Ring(b, s, n) == [i \in 1..n |-> b[(s + i - 1) % INPUT_CAP]]
Bufs == [0..(INPUT_CAP - 1) -> Byte]
Stored(b, s, x) == [b EXCEPT ![s % INPUT_CAP] = x]

LEMMA OldestRing == /\ \A n : oldest(n) = Ring(buf, r, n)
                    /\ oldest(w - r)' = Ring(buf', r', w' - r')
BY DEF oldest, Ring

LEMMA ModRange ==
  ASSUME NEW a \in Nat
  PROVE  a % INPUT_CAP \in 0..(INPUT_CAP - 1)
BY ConsoleAssumption

LEMMA ModDiffers ==
  ASSUME NEW i \in Nat, NEW j \in Nat, i < j, j - i < INPUT_CAP
  PROVE  i % INPUT_CAP # j % INPUT_CAP
<1> DEFINE k == INPUT_CAP
           a == i \div k
           b == j \div k
<1>1. k \in Nat \ {0}
  BY ConsoleAssumption
<1>2. a \in Nat /\ b \in Nat /\ i = k * a + (i % k) /\ j = k * b + (j % k)
  BY <1>1
<1> HIDE DEF k, a, b
<1> SUFFICES ASSUME i % k = j % k PROVE FALSE
  BY DEF k
<1>3. i % k \in Nat /\ j % k \in Nat /\ k * a \in Nat /\ k * b \in Nat
  BY <1>1, <1>2, ModRange, ConsoleAssumption DEF k
<1>4. k * b - k * a = j - i
  BY <1>2, <1>3
<1>5. k * b - k * a > 0 /\ k * b - k * a < k
  BY <1>4 DEF k
<1>6. CASE b <= a
  <2>1. k * b <= k * a
    BY <1>1, <1>2, <1>6
  <2> QED  BY <1>3, <1>5, <2>1
<1>7. CASE a < b
  <2>1. k * a + k <= k * b
    BY <1>1, <1>2, <1>7
  <2> QED  BY <1>1, <1>3, <1>5, <2>1
<1> QED  BY <1>2, <1>6, <1>7

LEMMA RingSeq ==
  ASSUME NEW b \in Bufs, NEW s \in Nat, NEW n \in Nat
  PROVE  /\ Ring(b, s, n) \in Seq(Byte) /\ Len(Ring(b, s, n)) = n
         /\ \A i \in 1..n : Ring(b, s, n)[i] = b[(s + i - 1) % INPUT_CAP]
<1>1. \A i \in 1..n : s + i - 1 \in Nat
  OBVIOUS
<1>2. \A i \in 1..n : b[(s + i - 1) % INPUT_CAP] \in Byte
  BY <1>1, ModRange DEF Bufs
<1> QED  BY <1>2 DEF Ring

LEMMA RingFront ==
  ASSUME NEW b \in Bufs, NEW s \in Nat, NEW m \in Nat, NEW n \in 0..m
  PROVE  SubSeq(Ring(b, s, m), 1, n) = Ring(b, s, n)
<1> DEFINE f == Ring(b, s, m)
           g == Ring(b, s, n)
<1>1. f \in Seq(Byte) /\ Len(f) = m /\ \A i \in 1..m : f[i] = b[(s + i - 1) % INPUT_CAP]
  BY RingSeq
<1>2. g \in Seq(Byte) /\ Len(g) = n /\ \A i \in 1..n : g[i] = b[(s + i - 1) % INPUT_CAP]
  BY RingSeq
<1> HIDE DEF f, g
<1>3. \A i \in 1..n : f[i] \in Byte
  BY <1>1
<1>4. /\ SubSeq(f, 1, n) \in Seq(Byte) /\ Len(SubSeq(f, 1, n)) = n
      /\ \A i \in 1..n : SubSeq(f, 1, n)[i] = f[i]
  BY <1>3, SubSeqProperties
<1>5. \A i \in 1..n : SubSeq(f, 1, n)[i] = g[i]
  BY <1>1, <1>2, <1>4
<1>6. SubSeq(f, 1, n) = g
  BY <1>2, <1>4, <1>5, SeqEqual
<1> QED  BY <1>6 DEF f, g

LEMMA RingRest ==
  ASSUME NEW b \in Bufs, NEW s \in Nat, NEW m \in Nat, NEW n \in 0..m
  PROVE  SubSeq(Ring(b, s, m), n + 1, m) = Ring(b, s + n, m - n)
<1> DEFINE f == Ring(b, s, m)
           g == Ring(b, s + n, m - n)
           h == SubSeq(f, n + 1, m)
<1>1. f \in Seq(Byte) /\ Len(f) = m /\ \A i \in 1..m : f[i] = b[(s + i - 1) % INPUT_CAP]
  BY RingSeq
<1>2. /\ g \in Seq(Byte) /\ Len(g) = m - n
      /\ \A i \in 1..(m - n) : g[i] = b[(s + n + i - 1) % INPUT_CAP]
  <2>1. s + n \in Nat /\ m - n \in Nat
    OBVIOUS
  <2> QED  BY <2>1, RingSeq
<1> HIDE DEF f, g
<1>3. \A i \in (n + 1)..m : f[i] \in Byte
  BY <1>1
<1>4. /\ h \in Seq(Byte)
      /\ Len(h) = IF n + 1 <= m THEN m - (n + 1) + 1 ELSE 0
      /\ \A i \in 1..(m - (n + 1) + 1) : h[i] = f[n + 1 + i - 1]
  BY <1>3, SubSeqProperties
<1> HIDE DEF h
<1>5. Len(h) = m - n /\ m - n \in Nat
  BY <1>4
<1>6. \A i \in 1..(m - n) : h[i] = g[i]
  <2> TAKE i \in 1..(m - n)
  <2>1. /\ i \in 1..(m - (n + 1) + 1) /\ n + 1 + i - 1 = n + i
        /\ n + i \in 1..m /\ s + (n + i) - 1 = s + n + i - 1
    OBVIOUS
  <2>2. h[i] = f[n + 1 + i - 1]
    BY <1>4, <2>1
  <2>3. f[n + i] = b[(s + (n + i) - 1) % INPUT_CAP]
    BY <1>1, <2>1, SMTT(30)
  <2>4. g[i] = b[(s + n + i - 1) % INPUT_CAP]
    BY <1>2
  <2> QED  BY <2>1, <2>2, <2>3, <2>4
<1>7. h = g
  BY <1>2, <1>4, <1>5, <1>6, SeqEqual
<1> QED  BY <1>7 DEF f, g, h

LEMMA RingAppend ==
  ASSUME NEW b \in Bufs, NEW s \in Nat, NEW n \in Nat, n < INPUT_CAP, NEW x \in Byte,
         NEW b2 \in Bufs, b2 = Stored(b, s + n, x)
  PROVE  Ring(b2, s, n + 1) = Append(Ring(b, s, n), x)
<1> DEFINE f == Ring(b, s, n)
           g == Ring(b2, s, n + 1)
<1>1. f \in Seq(Byte) /\ Len(f) = n /\ \A i \in 1..n : f[i] = b[(s + i - 1) % INPUT_CAP]
  BY RingSeq
<1>2. /\ g \in Seq(Byte) /\ Len(g) = n + 1
      /\ \A i \in 1..(n + 1) : g[i] = b2[(s + i - 1) % INPUT_CAP]
  <2>1. n + 1 \in Nat
    OBVIOUS
  <2> QED  BY <2>1, RingSeq, ZenonT(60)
<1>3. \A a \in 0..(INPUT_CAP - 1) : b2[a] = IF a = (s + n) % INPUT_CAP THEN x ELSE b[a]
  BY DEF Bufs, Stored
<1> HIDE DEF f, g
<1>4. /\ Append(f, x) \in Seq(Byte) /\ Len(Append(f, x)) = n + 1
      /\ \A i \in 1..n : Append(f, x)[i] = f[i]
      /\ Append(f, x)[n + 1] = x
  BY <1>1
<1>5. \A i \in 1..(n + 1) : g[i] = Append(f, x)[i]
  <2> TAKE i \in 1..(n + 1)
  <2>1. CASE i = n + 1
    <3>1. s + (n + 1) - 1 = s + n /\ (s + n) % INPUT_CAP \in 0..(INPUT_CAP - 1)
      BY ModRange
    <3> QED  BY <2>1, <3>1, <1>2, <1>3, <1>4
  <2>2. CASE i \in 1..n
    <3>1. s + i - 1 \in Nat /\ s + i - 1 < s + n /\ s + n - (s + i - 1) < INPUT_CAP
      BY <2>2, ConsoleAssumption
    <3>2. (s + i - 1) % INPUT_CAP # (s + n) % INPUT_CAP
      BY <3>1, ModDiffers
    <3>3. (s + i - 1) % INPUT_CAP \in 0..(INPUT_CAP - 1)
      BY <3>1, ModRange
    <3>4. g[i] = b[(s + i - 1) % INPUT_CAP]
      BY <1>2, <1>3, <3>2, <3>3, SMTT(30)
    <3> QED  BY <2>2, <3>4, <1>1, <1>4
  <2>3. i = n + 1 \/ i \in 1..n
    OBVIOUS
  <2> QED  BY <2>1, <2>2, <2>3, Zenon
<1>6. g = Append(f, x)
  BY <1>2, <1>4, <1>5, SeqEqual, SMTT(30)
<1> QED  BY <1>6 DEF f, g

------------------------------------------------------------------------------
(* The steps, as steps of the queue.                                        *)

QStep == Q!Next \/ UNCHANGED Q!vars

LEMMA QueueFacts ==
  ASSUME TypeInv
  PROVE  /\ w - r \in Nat /\ buf \in Bufs /\ r \in Nat
         /\ oldest(w - r) = Ring(buf, r, w - r) /\ Len(oldest(w - r)) = w - r
<1>1. w - r \in Nat /\ buf \in Bufs /\ r \in Nat
  BY DEF TypeInv, Bufs
<1>2. oldest(w - r) = Ring(buf, r, w - r)
  BY OldestRing
<1> QED  BY <1>1, <1>2, RingSeq

\* Some reader takes the n oldest bytes.
LEMMA Taken ==
  ASSUME TypeInv, NEW t \in Reader, NEW n \in 1..(w - r), r' = r + n,
         UNCHANGED <<arrived, fifo, buf, w>>,
         \E result \in {oldest(n), Rejected} : got' = [got EXCEPT ![t] = result]
  PROVE  QStep
<1> DEFINE q == oldest(w - r)
<1>1. w - r \in Nat /\ buf \in Bufs /\ r \in Nat /\ w \in Nat /\ n \in 0..(w - r)
  BY QueueFacts DEF TypeInv
<1>2. q = Ring(buf, r, w - r) /\ Len(q) = w - r
  BY QueueFacts
<1>3. oldest(n) = SubSeq(q, 1, n)
  BY <1>1, <1>2, OldestRing, RingFront, SMTT(30)
<1>4. oldest(w - r)' = SubSeq(q, n + 1, Len(q))
  <2>1. oldest(w - r)' = Ring(buf, r + n, w - (r + n))
    BY OldestRing
  <2>2. w - (r + n) = (w - r) - n
    BY <1>1
  <2>3. \A m \in Nat : \A k \in 0..m :
          SubSeq(Ring(buf, r, m), k + 1, m) = Ring(buf, r + k, m - k)
    BY <1>1, RingRest, ZenonT(60)
  <2>4. SubSeq(Ring(buf, r, w - r), n + 1, w - r) = Ring(buf, r + n, (w - r) - n)
    BY <1>1, <2>3, ZenonT(60)
  <2> QED  BY <1>2, <2>1, <2>2, <2>4
<1>5. Q!Take(t, n)
  BY <1>3, <1>4, Zenon DEF Q!Take
<1>6. n \in 1..Len(q)
  BY <1>2
<1> QED  BY <1>5, <1>6, Zenon DEF QStep, Q!Next

LEMMA Unmoved ==
  ASSUME UNCHANGED <<arrived, fifo, buf, r, w, got>>
  PROVE  QStep
BY DEF QStep, Q!vars, oldest

LEMMA sleep_OK ==
  ASSUME IInv, NEW t \in Reader, sleep(t), UNCHANGED <<arrived, fifo, buf, w, cap>>,
         t \in User => cap[t] > 0
  PROVE  CapInv' /\ NothingMissed' /\ QStep /\ at' \in [Reader -> {"out", "try", "asleep"}]
<1>1. r = w /\ UNCHANGED <<r, got>> /\ at' = [at EXCEPT ![t] = "asleep"]
  BY DEF sleep
<1> QED  BY <1>1, Unmoved DEF IInv, TypeInv, CapInv, NothingMissed, Reader

\* The queue as it was, and a byte more or less in the device.
LEMMA SameQueue ==
  ASSUME UNCHANGED <<buf, r, w>>
  PROVE  oldest(w - r)' = oldest(w - r)
BY DEF oldest

LEMMA receive_OK ==
  ASSUME IInv, NEW b \in Received, receive(b)
  PROVE  IInv' /\ QStep
<1>1. UNCHANGED <<buf, r, w, got, at, cap>> /\ arrived' = arrived + 1
  BY DEF receive, input
<1>2. fifo' \in Seq(Queued \cup {"cr"})
  BY ConsoleAssumption DEF receive, IInv, TypeInv
<1>3. fifo' = Q!Kept(fifo, b, FifoDepth)
  BY DEF receive, Q!Kept
<1>4. Q!Receive(b)
  BY <1>1, <1>3, SameQueue, Zenon DEF Q!Receive
<1>5. QStep
  BY <1>4, Zenon DEF QStep, Q!Next
<1> QED  BY <1>1, <1>2, <1>5 DEF IInv, TypeInv, CapInv, NothingMissed

LEMMA quiet_OK ==
  ASSUME IInv, claim \/ complete
  PROVE  IInv' /\ QStep
<1>1. UNCHANGED <<arrived, fifo, buf, r, w, got, at, cap>>
  BY DEF claim, complete, input
<1> QED  BY <1>1, Unmoved DEF IInv, TypeInv, CapInv, NothingMissed

LEMMA on_input_OK ==
  ASSUME IInv, on_input
  PROVE  IInv' /\ QStep
<1> DEFINE b == normalized(Head(fifo))
<1>1. /\ fifo # <<>> /\ fifo' = Tail(fifo) /\ UNCHANGED <<arrived, r, cap, got>>
      /\ at' = [t \in Reader |-> IF at[t] = "asleep" THEN "try" ELSE at[t]]
  BY DEF on_input
<1>2. b \in Queued /\ fifo' \in Seq(Queued \cup {"cr"})
  <2>1. Head(fifo) \in Queued \cup {"cr"} /\ Tail(fifo) \in Seq(Queued \cup {"cr"})
    BY <1>1 DEF IInv, TypeInv
  <2> QED  BY <1>1, <2>1 DEF normalized, Queued
<1>3. CapInv' /\ NothingMissed' /\ at' \in [Reader -> {"out", "try", "asleep"}]
  BY <1>1 DEF IInv, TypeInv, CapInv, NothingMissed, Reader
<1>0. b = Q!AsQueued(Head(fifo))
  BY Zenon DEF normalized, Q!AsQueued
<1>4. CASE ~(w - r < INPUT_CAP) /\ UNCHANGED <<buf, w>>
  <2>1. oldest(w - r)' = Q!Kept(oldest(w - r), b, INPUT_CAP)
    <3>1. ~(Len(oldest(w - r)) < INPUT_CAP)
      BY <1>4, QueueFacts DEF IInv
    <3> QED  BY <1>1, <1>4, <3>1, SameQueue, Zenon DEF Q!Kept
  <2>2. Q!Enqueue
    BY <1>0, <1>1, <2>1, Zenon DEF Q!Enqueue
  <2>3. QStep
    BY <2>2, Zenon DEF QStep, Q!Next
  <2> QED  BY <1>1, <1>2, <1>3, <1>4, <2>3 DEF IInv, TypeInv
<1>5. CASE /\ w - r < INPUT_CAP /\ w' = w + 1
           /\ buf' = [buf EXCEPT ![w % INPUT_CAP] = b]
  <2> HIDE DEF b
  <2>1. w - r \in Nat /\ buf \in Bufs /\ r \in Nat /\ w \in Nat /\ b \in Byte
    BY <1>2, QueueFacts DEF IInv, TypeInv, Byte
  <2>2. buf' \in Bufs
    BY <1>5, <2>1, ZenonT(60) DEF Bufs
  <2>3. TypeInv'
    BY <1>1, <1>2, <1>3, <1>5, <2>1, <2>2, ConsoleAssumption DEF IInv, TypeInv, Bufs
  <2>4. oldest(w - r)' = Append(oldest(w - r), b)
    <3>1. r + (w - r) = w /\ w' - r' = (w - r) + 1
      BY <1>1, <1>5, <2>1
    <3>2. Ring(buf', r, (w - r) + 1) = Append(Ring(buf, r, w - r), b)
      <4>1. \A k \in Nat, x \in Byte, b2 \in Bufs :
              k < INPUT_CAP /\ b2 = Stored(buf, r + k, x)
                => Ring(b2, r, k + 1) = Append(Ring(buf, r, k), x)
        BY <2>1, RingAppend
      <4>2. buf' = Stored(buf, r + (w - r), b)
        BY <1>5, <3>1, ZenonT(60) DEF Stored
      <4> QED  BY <1>5, <2>1, <2>2, <4>1, <4>2, ZenonT(60)
    <3> QED  BY <1>1, <3>1, <3>2, OldestRing
  <2>5. Len(oldest(w - r)) < INPUT_CAP
    BY <1>5, QueueFacts DEF IInv
  <2>6. oldest(w - r)' = Q!Kept(oldest(w - r), b, INPUT_CAP)
    BY <2>4, <2>5, Zenon DEF Q!Kept
  <2>7. Q!Enqueue
    BY <1>0, <1>1, <2>6, Zenon DEF Q!Enqueue
  <2>8. QStep
    BY <2>7, Zenon DEF QStep, Q!Next
  <2> QED  BY <1>3, <2>3, <2>8 DEF IInv
<1> QED  BY <1>4, <1>5 DEF on_input

LEMMA read_line_OK ==
  ASSUME IInv, NEW s \in Shell, read_line(s)
  PROVE  IInv' /\ QStep
<1>1. UNCHANGED <<arrived, fifo, buf, r, w, got, cap>> /\ at' = [at EXCEPT ![s] = "try"]
  BY DEF read_line, device, input
<1> QED  BY <1>1, Unmoved, ConsoleAssumption DEF IInv, TypeInv, CapInv, NothingMissed, Reader

\* A reader gets some bytes: it found the ring not empty, so nobody sleeps.
LEMMA Reads ==
  ASSUME IInv, NEW t \in Reader, NEW n \in 1..(w - r), r' = r + n,
         UNCHANGED <<arrived, fifo, buf, w>>,
         \E result \in {oldest(n), Rejected} : got' = [got EXCEPT ![t] = result],
         NEW a \in {"out", "try"}, at' = [at EXCEPT ![t] = a],
         cap' \in [User -> Nat], CapInv'
  PROVE  IInv' /\ QStep
<1>1. TypeInv'
  <2>1. r' \in Nat /\ r' <= w' /\ w' - r' <= INPUT_CAP
    BY ConsoleAssumption DEF IInv, TypeInv
  <2>2. at' \in [Reader -> {"out", "try", "asleep"}]
    BY DEF IInv, TypeInv
  <2> QED  BY <2>1, <2>2 DEF IInv, TypeInv
<1>2. \A u \in Reader : at[u] # "asleep"
  BY DEF IInv, TypeInv, NothingMissed
<1>3. NothingMissed'
  BY <1>2 DEF NothingMissed, IInv, TypeInv
<1> QED  BY <1>1, <1>3, Taken, ZenonT(60) DEF IInv

LEMMA getchar_blocking_OK ==
  ASSUME IInv, NEW s \in Shell, getchar_blocking(s)
  PROVE  IInv' /\ QStep
<1>1. s \in Reader /\ s \notin User /\ UNCHANGED <<arrived, fifo, buf, w, cap>>
  BY ConsoleAssumption, SMTT(30) DEF Reader, getchar_blocking, device
<1>2. CASE sleep(s)
  <2>1. UNCHANGED r
    BY <1>2 DEF sleep
  <2> QED  BY <1>1, <1>2, <2>1, sleep_OK DEF IInv, TypeInv
<1>3. CASE ~sleep(s)
  <2> DEFINE byte == oldest(1)[1]
  <2>1. /\ r < w /\ r' = r + 1 /\ got' = [got EXCEPT ![s] = <<byte>>]
        /\ at' = [at EXCEPT ![s] = IF byte = "nl" THEN "out" ELSE "try"]
    BY <1>3 DEF getchar_blocking
  <2>2. oldest(1) = <<byte>>
    BY DEF oldest
  <2> HIDE DEF byte
  <2>3. CapInv' /\ cap' \in [User -> Nat]
    BY <1>1, <2>1 DEF IInv, TypeInv, CapInv, Reader
  <2>4. 1 \in 1..(w - r)
    BY <2>1 DEF IInv, TypeInv
  <2>5. \E result \in {oldest(1), Rejected} : got' = [got EXCEPT ![s] = result]
    BY <2>1, <2>2, ZenonT(60)
  <2>6. PICK a \in {"out", "try"} : at' = [at EXCEPT ![s] = a]
    BY <2>1, ZenonT(60)
  <2> QED  BY <1>1, <2>1, <2>3, <2>4, <2>5, <2>6, Reads, ZenonT(60)
<1> QED  BY <1>2, <1>3, SMTT(30)

LEMMA attempt_OK ==
  ASSUME IInv, NEW p \in User, NEW c \in Nat, c > 0, attempt(p, c),
         UNCHANGED <<arrived, fifo, buf, w>>, cap' \in [User -> Nat], cap'[p] > 0,
         \A u \in User : u # p => cap'[u] = cap[u]
  PROVE  IInv' /\ QStep
<1>1. p \in Reader
  BY SMTT(30) DEF Reader
<1>2. ASSUME NEW a, at' = [at EXCEPT ![p] = a]
      PROVE  CapInv'
  BY <1>1, <1>2 DEF IInv, TypeInv, CapInv, Reader
<1>3. CASE sleep(p)
  <2>1. UNCHANGED <<r, got>> /\ at' = [at EXCEPT ![p] = "asleep"] /\ r = w
    BY <1>3 DEF sleep
  <2>2. CapInv' /\ QStep
    BY <1>2, <2>1, Unmoved, ZenonT(60)
  <2>3. TypeInv' /\ NothingMissed'
    BY <1>1, <2>1 DEF IInv, TypeInv, NothingMissed
  <2> QED  BY <2>2, <2>3 DEF IInv
<1>4. CASE ~sleep(p)
  <2> DEFINE n == Min2(c, w - r)
  <2>1. /\ r < w /\ r' = r + n /\ at' = [at EXCEPT ![p] = "out"]
        /\ \E result \in {oldest(n), Rejected} : got' = [got EXCEPT ![p] = result]
    BY <1>4 DEF attempt
  <2>2. n \in 1..(w - r)
    BY <2>1 DEF IInv, TypeInv, Min2
  <2> HIDE DEF n
  <2>3. CapInv'
    BY <1>2, <2>1, ZenonT(60)
  <2> QED  BY <1>1, <2>1, <2>2, <2>3, Reads, ZenonT(60)
<1> QED  BY <1>3, <1>4

LEMMA sys_read_OK ==
  ASSUME IInv, NEW p \in User, NEW len \in ReadLen, sys_read(p, len)
  PROVE  IInv' /\ QStep
<1>1. UNCHANGED <<arrived, fifo, buf, w>> /\ p \in Reader /\ len \in Nat
  BY ConsoleAssumption DEF sys_read, device, Reader
<1>2. CASE len = 0
  <2>1. got' = [got EXCEPT ![p] = <<>>] /\ UNCHANGED <<r, at, cap>>
    BY <1>2, SMTT(30) DEF sys_read
  <2>2. oldest(w - r)' = oldest(w - r)
    BY <1>1, <2>1 DEF oldest
  <2>3. QStep
    BY <1>1, <2>1, <2>2, ZenonT(60) DEF QStep, Q!Next, Q!Nothing
  <2> QED  BY <1>1, <2>1, <2>3, SMTT(30) DEF IInv, TypeInv, CapInv, NothingMissed
<1>3. CASE len # 0
  <2> DEFINE c == Min2(len, WRITE_MAX)
  <2>1. cap' = [cap EXCEPT ![p] = c] /\ attempt(p, c)
    BY <1>3, SMTT(30) DEF sys_read
  <2>2. c \in Nat /\ c > 0
    BY <1>1, <1>3, ConsoleAssumption, SMTT(30) DEF Min2
  <2> HIDE DEF c
  <2>3. cap' \in [User -> Nat] /\ cap'[p] > 0 /\ \A u \in User : u # p => cap'[u] = cap[u]
    BY <2>1, <2>2, SMTT(30) DEF IInv, TypeInv
  <2> QED  BY <1>1, <2>1, <2>2, <2>3, attempt_OK, SMTT(30)
<1> QED  BY <1>2, <1>3

LEMMA sys_read_woken_OK ==
  ASSUME IInv, NEW p \in User, sys_read_woken(p)
  PROVE  IInv' /\ QStep
<1> DEFINE c == cap[p]
<1>1. UNCHANGED <<arrived, fifo, buf, w, cap>> /\ at[p] = "try" /\ attempt(p, c)
  BY SMTT(30) DEF sys_read_woken, device
<1>2. c \in Nat /\ c > 0 /\ cap' \in [User -> Nat] /\ cap'[p] > 0
  BY <1>1 DEF IInv, TypeInv, CapInv
<1> HIDE DEF c
<1> QED  BY <1>1, <1>2, attempt_OK, SMTT(30)

------------------------------------------------------------------------------

LEMMA Initially == Init => IInv /\ Q!Init
<1> SUFFICES ASSUME Init PROVE IInv /\ Q!Init
  OBVIOUS
<1>1. IInv
  BY ConsoleAssumption DEF Init, IInv, TypeInv, CapInv, NothingMissed, Byte, Reader
<1>2. oldest(w - r) = <<>>
  BY DEF Init, oldest
<1> QED  BY <1>1, <1>2, Zenon DEF Q!Init, Init

LEMMA Stepwise == IInv /\ [Next]_vars => IInv' /\ QStep
<1> SUFFICES ASSUME IInv, [Next]_vars PROVE IInv' /\ QStep
  OBVIOUS
<1>1. CASE UNCHANGED vars
  <2>1. UNCHANGED <<arrived, fifo, buf, r, w, at, cap, got>>
    BY <1>1 DEF vars, device, input
  <2> QED  BY <2>1, Unmoved DEF IInv, TypeInv, CapInv, NothingMissed
<1>2. CASE \E b \in Received : receive(b)
  BY <1>2, receive_OK, SMTT(30)
<1>3. CASE Interrupt
  BY <1>3, quiet_OK, on_input_OK, SMTT(30) DEF Interrupt
<1>4. CASE \E s \in Shell : read_line(s)
  BY <1>4, read_line_OK
<1>5. CASE \E p \in User : \E len \in ReadLen : sys_read(p, len)
  BY <1>5, sys_read_OK, SMTT(30)
<1>6. CASE \E t \in Reader : Reading(t)
  BY <1>6, getchar_blocking_OK, sys_read_woken_OK, SMTT(30) DEF Reading
<1> QED  BY <1>1, <1>2, <1>3, <1>4, <1>5, <1>6, SMTT(30) DEF Next

\* The invariant of the ring and its readers: the indices are in order and no
\* further apart than the ring is long, and no reader sleeps on a byte.
THEOREM Invariant == Spec => []IInv
BY Initially, Stepwise, PTL DEF Spec

\* getchar_blocking and sys_read: no reader sleeps while a byte is in the ring.
THEOREM InputNotMissed == Spec => []NothingMissed
<1>1. IInv => NothingMissed
  BY DEF IInv
<1> QED  BY <1>1, Invariant, PTL

\* The ring is a queue of the bytes received, as InputQueue says: on_input
\* drops one only when the ring is full, and getchar and sys_read give each
\* byte to one reader, in order.
THEOREM RingIsQueue == Spec => ImplementsInputQueue
<1>1. QStep => [Q!Next]_(Q!vars)
  BY DEF QStep
<1> QED  BY <1>1, Initially, Stepwise, Invariant, PTL DEF Spec, ImplementsInputQueue, Q!Spec
==============================================================================
