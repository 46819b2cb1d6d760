----------------------------- MODULE HeapProofs -----------------------------
(* The kernel heap is correct for every region, granule and layout. *)
EXTENDS Heap, FiniteSetTheorems, TLAPS

----------------------------------------------------------------------------
(* Multiples and align_up.                                                 *)

LEMMA Division ==
  ASSUME NEW x \in Int, NEW a \in Nat, a # 0
  PROVE  /\ x \div a \in Int /\ x % a \in 0..(a - 1)
         /\ x = a * (x \div a) + (x % a)
OBVIOUS

LEMMA Multiple ==
  ASSUME NEW k \in Int, NEW a \in Nat, a # 0
  PROVE  (k * a) % a = 0 /\ (a * k) % a = 0
OBVIOUS

LEMMA AlignUp ==
  ASSUME NEW x \in Nat, NEW a \in Nat, a # 0
  PROVE  /\ align_up(x, a) \in Nat /\ x <= align_up(x, a)
         /\ align_up(x, a) % a = 0
         /\ \A y \in Nat : x <= y /\ y % a = 0 => align_up(x, a) <= y
<1> DEFINE q == (x + a - 1) \div a
<1>0. \A z \in Int : /\ z \div a \in Int /\ z % a \in 0..(a - 1)
                     /\ z = a * (z \div a) + (z % a)
  BY Division
<1>1. q \in Int /\ \E r \in 0..(a - 1) : x + a - 1 = a * q + r
  BY <1>0, x + a - 1 \in Int
<1>2. align_up(x, a) = q * a
  BY DEF align_up
<1>3. q * a = a * q /\ q * a \in Int
  BY <1>1
<1>4. x <= q * a /\ q * a <= x + a - 1
  BY <1>1, <1>3
<1>5. (q * a) % a = 0
  BY <1>1, Multiple
<1>6. ASSUME NEW y \in Nat, x <= y, y % a = 0 PROVE q * a <= y
  <2>1. y = a * (y \div a) /\ y \div a \in Int
    BY <1>6, <1>0
  <2>2. CASE q <= y \div a
    BY <2>1, <2>2, <1>1, <1>3
  <2>3. CASE (y \div a) + 1 <= q
    <3>1. a * ((y \div a) + 1) <= a * q
      BY <2>1, <2>3, <1>1
    <3> QED
      BY <3>1, <2>1, <1>4, <1>3, <1>6
  <2> QED
    BY <2>1, <2>2, <2>3, <1>1
<1> QED
  BY <1>2, <1>4, <1>3, <1>5, <1>6

----------------------------------------------------------------------------
(* Free lists.                                                             *)

Blocks == [start : Nat, size : Nat]
Sound(b) == b.size >= MIN_BLOCK /\ b.start % ALIGN = 0

\* In address order, no two blocks touch, and each has room for a FreeBlock.
Neat(s) ==
  /\ \A i, j \in DOMAIN s : i < j => End(s[i]) < s[j].start
  /\ \A i \in DOMAIN s : Sound(s[i])

Covered(s) == UNION {Bytes(s[i]) : i \in DOMAIN s}

\* s with the blocks after lo and up to hi replaced by m.
Splice(s, lo, m, hi) == SubSeq(s, 1, lo) \o m \o SubSeq(s, hi + 1, Len(s))

LEMMA ConcatAt ==
  ASSUME NEW S, NEW s \in Seq(S), NEW t \in Seq(S)
  PROVE  /\ s \o t \in Seq(S) /\ Len(s \o t) = Len(s) + Len(t)
         /\ \A k \in 1..(Len(s) + Len(t)) :
              (s \o t)[k] = IF k <= Len(s) THEN s[k] ELSE t[k - Len(s)]
OBVIOUS

\* t is the first lo elements of s, then m, then the elements of s after hi.
IsSplice(t, s, lo, m, hi) ==
  /\ Len(t) = lo + Len(m) + (Len(s) - hi)
  /\ \A k \in 1..lo : t[k] = s[k]
  /\ \A k \in 1..Len(m) : t[lo + k] = m[k]
  /\ \A k \in 1..(Len(s) - hi) : t[lo + Len(m) + k] = s[hi + k]

LEMMA SpliceAt ==
  ASSUME NEW S, NEW s \in Seq(S), NEW m \in Seq(S), NEW lo \in Nat, NEW hi \in Nat,
         lo <= hi, hi <= Len(s)
  PROVE  /\ Splice(s, lo, m, hi) \in Seq(S)
         /\ IsSplice(Splice(s, lo, m, hi), s, lo, m, hi)
<1> DEFINE a == SubSeq(s, 1, lo)
           z == SubSeq(s, hi + 1, Len(s))
           am == a \o m
<1>1. a \in Seq(S) /\ Len(a) = lo /\ \A k \in 1..lo : a[k] = s[k]
  OBVIOUS
<1>2. z \in Seq(S) /\ Len(z) = Len(s) - hi /\ \A k \in 1..(Len(s) - hi) : z[k] = s[hi + k]
  OBVIOUS
<1>0. Len(m) \in Nat /\ Len(s) \in Nat
  OBVIOUS
<1> HIDE DEF a, z
<1>3. /\ am \in Seq(S) /\ Len(am) = lo + Len(m)
      /\ \A k \in 1..(lo + Len(m)) : am[k] = IF k <= lo THEN a[k] ELSE m[k - lo]
  BY <1>1, ConcatAt, Zenon
<1> HIDE DEF am
<1>4. /\ am \o z \in Seq(S) /\ Len(am \o z) = lo + Len(m) + (Len(s) - hi)
      /\ \A k \in 1..(lo + Len(m) + (Len(s) - hi)) :
           (am \o z)[k] = IF k <= lo + Len(m) THEN am[k] ELSE z[k - (lo + Len(m))]
  <2>1. /\ am \o z \in Seq(S) /\ Len(am \o z) = Len(am) + Len(z)
        /\ \A k \in 1..(Len(am) + Len(z)) :
             (am \o z)[k] = IF k <= Len(am) THEN am[k] ELSE z[k - Len(am)]
    <3>1. am \in Seq(S) /\ z \in Seq(S)
      BY <1>2, <1>3
    <3> QED
      BY <3>1, ConcatAt
  <2> QED
    BY <2>1, <1>2, <1>3, Zenon
<1>6. am \o z = Splice(s, lo, m, hi)
  BY DEF Splice, am, a, z
<1>7. ASSUME NEW k \in 1..lo PROVE (am \o z)[k] = s[k]
  BY <1>0, <1>1, <1>3, <1>4
<1>8. ASSUME NEW k \in 1..Len(m) PROVE (am \o z)[lo + k] = m[k]
  BY <1>0, <1>3, <1>4, lo + k - lo = k, SMTT(30)
<1>9. ASSUME NEW k \in 1..(Len(s) - hi) PROVE (am \o z)[lo + Len(m) + k] = s[hi + k]
  <2>1. lo + Len(m) + k \in 1..(lo + Len(m) + (Len(s) - hi)) /\ ~(lo + Len(m) + k <= lo + Len(m))
        /\ (lo + Len(m) + k) - (lo + Len(m)) = k
    BY <1>0
  <2> QED
    BY <2>1, <1>2, <1>4, SMTT(30)
<1> QED
  BY <1>4, <1>6, <1>7, <1>8, <1>9 DEF IsSplice

\* The blocks of m lie above the first lo blocks of s and below those after hi.
Between(s, lo, m, hi) ==
  /\ \A k \in DOMAIN m, i \in 1..lo : End(s[i]) < m[k].start
  /\ \A k \in DOMAIN m, i \in (hi + 1)..Len(s) : End(m[k]) < s[i].start

\* Replacing part of a neat list by neat blocks that lie in between.
LEMMA Spliced ==
  ASSUME NEW s \in Seq(Blocks), NEW m \in Seq(Blocks), NEW lo \in Nat, NEW hi \in Nat,
         lo <= hi, hi <= Len(s), Neat(s), Neat(m), Between(s, lo, m, hi)
  PROVE  /\ Splice(s, lo, m, hi) \in Seq(Blocks) /\ Neat(Splice(s, lo, m, hi))
         /\ \A x : x \in Covered(Splice(s, lo, m, hi)) <=>
              \/ x \in Covered(m)
              \/ \E i \in (1..lo) \cup ((hi + 1)..Len(s)) : x \in Bytes(s[i])
<1> DEFINE t == Splice(s, lo, m, hi)
           M == Len(m)
           L == lo + M + (Len(s) - hi)
<1>1. /\ t \in Seq(Blocks) /\ Len(t) = L
      /\ \A k \in 1..lo : t[k] = s[k]
      /\ \A k \in 1..M : t[lo + k] = m[k]
      /\ \A k \in 1..(Len(s) - hi) : t[lo + M + k] = s[hi + k]
  <2>1. t \in Seq(Blocks) /\ IsSplice(t, s, lo, m, hi)
    BY SpliceAt, Zenon
  <2> QED
    BY <2>1 DEF IsSplice
<1>2. /\ L \in Nat /\ M \in Nat /\ Len(s) \in Nat /\ L = lo + M + (Len(s) - hi)
      /\ DOMAIN t = 1..L /\ DOMAIN m = 1..M /\ DOMAIN s = 1..Len(s)
  BY <1>1
<1> HIDE DEF t, L, M
<1>3. ASSUME NEW k \in 1..L
      PROVE  \/ k \in 1..lo
             \/ \E i \in 1..M : k = lo + i
             \/ \E i \in 1..(Len(s) - hi) : k = lo + M + i
  <2>1. CASE k <= lo
    BY <2>1
  <2>2. CASE k > lo /\ k <= lo + M
    BY <2>2, <1>2, k - lo \in 1..M, k = lo + (k - lo)
  <2>3. CASE k > lo + M
    <3>1. k - (lo + M) \in 1..(Len(s) - hi) /\ k = lo + M + (k - (lo + M))
      BY <2>3, <1>2
    <3> QED
      BY <3>1
  <2> QED
    BY <2>1, <2>2, <2>3, <1>2
<1>a. ASSUME NEW i \in 1..L, NEW j \in 1..L, i < j
      PROVE  End(t[i]) < t[j].start
  <2>1. CASE i \in 1..lo /\ j \in 1..lo
    <3>1. i \in DOMAIN s /\ j \in DOMAIN s
      BY <1>2, <2>1
    <3>2. End(s[i]) < s[j].start
      BY <1>a, <3>1, Zenon DEF Neat
    <3> QED
      BY <1>1, <2>1, <3>2, Zenon
  <2>2. ASSUME NEW k \in 1..M, j = lo + k, i \in 1..lo PROVE End(t[i]) < t[j].start
    <3>1. End(s[i]) < m[k].start
      BY <1>2, <2>2, Zenon DEF Between
    <3> QED
      BY <1>1, <2>2, <3>1, Zenon
  <2>3. ASSUME NEW k \in 1..(Len(s) - hi), j = lo + M + k, i \in 1..lo
        PROVE  End(t[i]) < t[j].start
    <3>1. hi + k \in DOMAIN s /\ i < hi + k /\ i \in DOMAIN s
      BY <1>2, <2>3
    <3>2. End(s[i]) < s[hi + k].start
      BY <3>1 DEF Neat
    <3> QED
      BY <1>1, <2>3, <3>2, SMTT(30)
  <2>4. ASSUME NEW k \in 1..M, NEW h \in 1..M, i = lo + h, j = lo + k
        PROVE  End(t[i]) < t[j].start
    <3>1. h < k
      BY <2>4, <1>a, <1>2
    <3>2. End(m[h]) < m[k].start
      BY <3>1, <1>2, Zenon DEF Neat
    <3> QED
      BY <1>1, <2>4, <3>2, SMTT(30)
  <2>5. ASSUME NEW h \in 1..M, NEW k \in 1..(Len(s) - hi), i = lo + h, j = lo + M + k
        PROVE  End(t[i]) < t[j].start
    <3>1. hi + k \in (hi + 1)..Len(s)
      BY <1>2
    <3>2. End(m[h]) < s[hi + k].start
      BY <3>1, <1>2, Zenon DEF Between
    <3> QED
      BY <1>1, <2>5, <3>2, SMTT(30)
  <2>6. ASSUME NEW h \in 1..(Len(s) - hi), NEW k \in 1..(Len(s) - hi),
               i = lo + M + h, j = lo + M + k
        PROVE  End(t[i]) < t[j].start
    <3>1. hi + h \in DOMAIN s /\ hi + k \in DOMAIN s /\ hi + h < hi + k
      BY <1>2, <2>6, <1>a
    <3>2. End(s[hi + h]) < s[hi + k].start
      BY <3>1, SMTT(30) DEF Neat
    <3> QED
      BY <1>1, <2>6, <3>2, SMTT(30)
  <2>7. ~(i \notin 1..lo /\ j \in 1..lo)
        /\ ~\E h \in 1..(Len(s) - hi), k \in 1..M : i = lo + M + h /\ j = lo + k
    BY <1>2, <1>a
  <2> QED
    BY <1>3, <2>1, <2>2, <2>3, <2>4, <2>5, <2>6, <2>7, SMTT(30)
<1>4. \A k \in DOMAIN t : \/ \E i \in (1..lo) \cup ((hi + 1)..Len(s)) : t[k] = s[i]
                          \/ \E i \in DOMAIN m : t[k] = m[i]
  <2>1. \A i \in 1..(Len(s) - hi) : hi + i \in (hi + 1)..Len(s)
    BY <1>2
  <2>2. \A k \in 1..lo : t[k] = s[k] /\ k \in (1..lo) \cup ((hi + 1)..Len(s))
    BY <1>1
  <2>3. \A i \in 1..M : t[lo + i] = m[i] /\ i \in DOMAIN m
    BY <1>1, <1>2
  <2>4. \A i \in 1..(Len(s) - hi) :
           t[lo + M + i] = s[hi + i] /\ hi + i \in (1..lo) \cup ((hi + 1)..Len(s))
    BY <1>1, <2>1
  <2> SUFFICES ASSUME NEW k \in 1..L
               PROVE  \/ \E i \in (1..lo) \cup ((hi + 1)..Len(s)) : t[k] = s[i]
                      \/ \E i \in DOMAIN m : t[k] = m[i]
    BY <1>2, Zenon
  <2>5. CASE k \in 1..lo
    BY <2>5, <2>2
  <2>6. CASE \E i \in 1..M : k = lo + i
    BY <2>6, <2>3
  <2>7. CASE \E i \in 1..(Len(s) - hi) : k = lo + M + i
    BY <2>7, <2>4
  <2> QED
    BY <1>3, <2>5, <2>6, <2>7
<1>5. \A i \in (1..lo) \cup ((hi + 1)..Len(s)) : \E k \in DOMAIN t : t[k] = s[i]
  <2>1. ASSUME NEW i \in 1..lo PROVE i \in DOMAIN t /\ t[i] = s[i]
    BY <1>1, <1>2
  <2>2. ASSUME NEW i \in (hi + 1)..Len(s) PROVE \E k \in DOMAIN t : t[k] = s[i]
    <3>1. i - hi \in 1..(Len(s) - hi) /\ hi + (i - hi) = i /\ lo + M + (i - hi) \in 1..L
      BY <1>2
    <3>2. t[lo + M + (i - hi)] = s[hi + (i - hi)]
      BY <1>1, <3>1
    <3> QED
      BY <1>2, <3>1, <3>2
  <2> QED
    BY <2>1, <2>2
<1>6. \A i \in DOMAIN m : \E k \in DOMAIN t : t[k] = m[i]
  <2>1. \A i \in 1..M : lo + i \in 1..L
    BY <1>2
  <2> QED
    BY <1>1, <1>2, <2>1, Zenon
<1>7. Neat(t)
  <2>1. \A k \in DOMAIN t : Sound(t[k])
    <3>1. /\ \A i \in (1..lo) \cup ((hi + 1)..Len(s)) : i \in DOMAIN s
          /\ \A i \in DOMAIN s : Sound(s[i])
          /\ \A i \in DOMAIN m : Sound(m[i])
      BY <1>2 DEF Neat
    <3> QED
      BY <1>4, <3>1, Zenon
  <2> QED
    BY <1>a, <1>2, <2>1, SMTT(30) DEF Neat
<1>8. \A x : x \in Covered(t) <=>
              \/ x \in Covered(m)
              \/ \E i \in (1..lo) \cup ((hi + 1)..Len(s)) : x \in Bytes(s[i])
  BY <1>4, <1>5, <1>6, ZenonT(60) DEF Covered
<1> QED
  BY <1>1, <1>7, <1>8 DEF t

LEMMA Least ==
  ASSUME NEW S, S \subseteq Nat, S # {}
  PROVE  \E x \in S : \A y \in S : x <= y
<1>1. PICK x \in S : \A y \in S : <<y, x>> \notin OpToRel(<, Nat)
  BY NatLessThanWellFounded, WFMin, Zenon
<1>2. \A y \in S : ~(y < x)
  BY <1>1, Zenon DEF OpToRel
<1> QED
  BY <1>2

\* A set of indices with every smaller index is counted by its greatest.
LEMMA Prefix ==
  ASSUME NEW L \in Nat, NEW S, S \subseteq 1..L,
         \A i \in S, j \in 1..L : j <= i => j \in S
  PROVE  Cardinality(S) \in 0..L /\ S = 1..Cardinality(S)
<1> DEFINE B == {n \in Nat : S \subseteq 1..n}
<1>1. PICK n \in B : \A y \in B : n <= y
  <2>1. L \in B /\ B \subseteq Nat
    OBVIOUS
  <2> QED
    BY <2>1, Least, Zenon
<1>2. n \in Nat /\ n <= L /\ S \subseteq 1..n
  BY <1>1
<1>3. CASE n = 0
  <2>1. S = {}
    BY <1>2, <1>3
  <2> QED
    BY <2>1, FS_EmptySet
<1>4. CASE n # 0
  <2>1. n \in S
    <3> SUFFICES ASSUME n \notin S PROVE FALSE
      OBVIOUS
    <3>1. n - 1 \in B
      BY <1>2, <1>4
    <3> QED
      BY <3>1, <1>1, <1>2
  <2>2. S = 1..n
    <3>1. \A j \in 1..n : j \in 1..L /\ j <= n
      BY <1>2
    <3>2. 1..n \subseteq S
      BY <2>1, <3>1, Zenon
    <3> QED
      BY <1>2, <3>2, Zenon
  <2>3. Cardinality(1..n) = n
    BY <1>2, <1>4, FS_Interval
  <2> QED
    BY <2>2, <2>3, <1>2
<1> QED
  BY <1>3, <1>4

----------------------------------------------------------------------------
(* Carving and inserting.                                                  *)

Granule(align) == Greater(align, ALIGN)

LEMMA GranuleFacts ==
  ASSUME NEW align \in Align
  PROVE  /\ Granule(align) \in Nat /\ Granule(align) # 0
         /\ \A x \in Nat : x % Granule(align) = 0 <=> (x % align = 0 /\ x % ALIGN = 0)
<1> DEFINE g == Granule(align)
<1>1. align \in Nat /\ align # 0 /\ ALIGN \in Nat /\ ALIGN # 0
  BY HeapAssumption
<1>2. (g = align \/ g = ALIGN) /\ g >= align /\ g >= ALIGN
  BY <1>1 DEF Granule, Greater
<1>3. g % align = 0 /\ g % ALIGN = 0
  <2>1. align % ALIGN = 0 \/ ALIGN % align = 0
    BY HeapAssumption
  <2>2. CASE align > ALIGN
    <3>1. g = align
      BY <1>1, <2>2 DEF Granule, Greater
    <3>2. ALIGN % align = ALIGN
      BY <1>1, <2>2
    <3>3. align % align = 0
      BY <1>1
    <3> QED
      BY <3>1, <3>2, <3>3, <2>1, <1>1
  <2>3. CASE align < ALIGN
    <3>1. g = ALIGN
      BY <1>1, <2>3 DEF Granule, Greater
    <3>2. align % ALIGN = align
      BY <1>1, <2>3
    <3>3. ALIGN % ALIGN = 0
      BY <1>1
    <3> QED
      BY <3>1, <3>2, <3>3, <2>1, <1>1
  <2>4. CASE align = ALIGN
    BY <2>4, <1>1, <1>2
  <2> QED
    BY <2>2, <2>3, <2>4, <1>1
<1>4. ASSUME NEW x \in Nat, NEW a \in Nat, a # 0, g % a = 0, x % g = 0
      PROVE  x % a = 0
  <2>0. g \in Nat /\ g # 0
    BY <1>1, <1>2
  <2> HIDE DEF g
  <2>1. x = g * (x \div g) /\ x \div g \in Int
    BY <1>4, <2>0, Division
  <2>2. g = a * (g \div a) /\ g \div a \in Int
    BY <1>4, <2>0, Division
  <2> DEFINE k == x \div g
             h == g \div a
  <2>3. k \in Int /\ h \in Int /\ x = (a * h) * k
    BY <2>1, <2>2
  <2> HIDE DEF k, h
  <2>4. (a * h) * k = (h * k) * a /\ h * k \in Int
    BY <2>3
  <2>5. \A n \in Int : (n * a) % a = 0
    BY <1>4, Multiple
  <2> QED
    BY <2>3, <2>4, <2>5
<1> QED
  BY <1>1, <1>2, <1>3, <1>4

LEMMA Multiples ==
  ASSUME NEW x \in Int, NEW y \in Int, NEW a \in Nat, a # 0, x % a = 0, y % a = 0
  PROVE  (x + y) % a = 0 /\ (x - y) % a = 0
<1>1. x = a * (x \div a) /\ x \div a \in Int /\ y = a * (y \div a) /\ y \div a \in Int
  BY Division
<1> DEFINE k == x \div a
           h == y \div a
<1>2. k \in Int /\ h \in Int /\ x = a * k /\ y = a * h
  BY <1>1
<1> HIDE DEF k, h
<1>3. x + y = (k + h) * a /\ x - y = (k - h) * a
  BY <1>2
<1>4. \A n \in Int : (n * a) % a = 0
  BY Multiple
<1> QED
  BY <1>2, <1>3, <1>4

LEMMA NeedFacts ==
  ASSUME NEW size \in Size
  PROVE  need(size) \in Nat /\ need(size) >= size /\ need(size) >= ALIGN
         /\ need(size) % ALIGN = 0
<1>1. size \in Nat /\ ALIGN \in Nat /\ ALIGN # 0
  BY HeapAssumption
<1>2. Greater(size, 1) \in Nat /\ Greater(size, 1) >= size /\ Greater(size, 1) >= 1
  BY <1>1 DEF Greater
<1>3. need(size) \in Nat /\ need(size) >= Greater(size, 1) /\ need(size) % ALIGN = 0
  BY <1>1, <1>2, AlignUp, SMTT(30) DEF need
<1>4. need(size) >= ALIGN
  <2> DEFINE n == need(size)
  <2>1. n \in Nat /\ n >= 1 /\ n % ALIGN = 0
    BY <1>2, <1>3
  <2> HIDE DEF n
  <2>2. n < ALIGN => n % ALIGN = n
    BY <2>1, <1>1
  <2> QED
    BY <1>1, <2>1, <2>2 DEF n
<1> QED
  BY <1>1, <1>2, <1>3, <1>4

\* Where a header and its payload go in a block.
LEMMA UserFacts ==
  ASSUME NEW b \in Blocks, NEW size \in Size, NEW align \in Align
  PROVE  /\ user_start(b, align) \in Nat /\ user_start(b, align) >= b.start + HeaderSize
         /\ user_start(b, align) % align = 0 /\ user_start(b, align) % ALIGN = 0
         /\ user_end(b, size, align) = user_start(b, align) + need(size)
         /\ \A x \in Nat : x >= b.start + HeaderSize /\ x % align = 0 /\ x % ALIGN = 0
                             => user_start(b, align) <= x
<1>1. b.start + HeaderSize \in Nat
  BY HeapAssumption DEF Blocks
<1>2. user_start(b, align) = align_up(b.start + HeaderSize, Granule(align))
  BY DEF user_start, Granule
<1>3. Granule(align) \in Nat /\ Granule(align) # 0
  BY GranuleFacts
<1> DEFINE y == b.start + HeaderSize
           g == Granule(align)
<1>4. /\ align_up(y, g) \in Nat /\ align_up(y, g) >= y
      /\ align_up(y, g) % g = 0 /\ \A x \in Nat : y <= x /\ x % g = 0 => align_up(y, g) <= x
  <2> HIDE DEF y, g
  <2> QED
    BY <1>1, <1>3, AlignUp, Zenon DEF y, g
<1>5. \A x \in Nat : x % g = 0 <=> (x % align = 0 /\ x % ALIGN = 0)
  BY GranuleFacts
<1>6. \A x \in Nat : x >= y <=> y <= x
  BY <1>1
<1> HIDE DEF y, g
<1> QED
  BY <1>2, <1>4, <1>5, <1>6 DEF user_end, y, g

LEMMA CarveFacts ==
  ASSUME NEW b \in Blocks, Sound(b), NEW size \in Size, NEW align \in Align,
         fits(b, size, align)
  PROVE  LET c == carve(b, size, align)
             u == user_start(b, align)
         IN /\ c.taken \in Blocks /\ Sound(c.taken)
            /\ b.start <= c.taken.start /\ End(c.taken) <= End(b)
            /\ c.taken.start <= u - HeaderSize /\ u + need(size) <= End(c.taken)
            /\ \/ c.front = <<>> /\ c.taken.start = b.start
               \/ /\ c.front = <<Block(b.start, c.taken.start)>>
                  /\ Block(b.start, c.taken.start) \in Blocks
                  /\ Sound(Block(b.start, c.taken.start))
            /\ \/ c.back = <<>> /\ End(c.taken) = End(b)
               \/ /\ c.back = <<Block(End(c.taken), End(b))>>
                  /\ Block(End(c.taken), End(b)) \in Blocks
                  /\ Sound(Block(End(c.taken), End(b)))
<1> DEFINE u == user_start(b, align)
           n == need(size)
           e == End(b)
           fg == u - HeaderSize - b.start
           bg == e - (u + n)
           s == IF fg >= MIN_BLOCK THEN b.start + fg ELSE b.start
           t == IF bg >= MIN_BLOCK THEN u + n ELSE e
<1>1. /\ u \in Nat /\ u >= b.start + HeaderSize /\ u % ALIGN = 0
      /\ user_end(b, size, align) = u + n
  BY UserFacts
<1>2. n \in Nat /\ n >= ALIGN /\ n % ALIGN = 0
  BY NeedFacts
<1>3. /\ b.start \in Nat /\ b.size \in Nat /\ e = b.start + b.size
      /\ b.start % ALIGN = 0 /\ b.size >= MIN_BLOCK
  BY DEF Blocks, Sound, End
<1>4. u + n <= e
  BY <1>1 DEF fits
<1>5. carve(b, size, align) =
        [front |-> IF fg >= MIN_BLOCK THEN <<Block(b.start, s)>> ELSE <<>>,
         taken |-> Block(s, t),
         back |-> IF bg >= MIN_BLOCK THEN <<Block(t, e)>> ELSE <<>>]
  BY <1>1 DEF carve
<1>6. HeaderSize \in Nat /\ ALIGN \in Nat /\ ALIGN # 0 /\ MIN_BLOCK = HeaderSize + ALIGN
      /\ HeaderSize % ALIGN = 0
  BY HeapAssumption
<1> HIDE DEF u, n, e
<1>7. (u - HeaderSize) % ALIGN = 0 /\ (u + n) % ALIGN = 0
  <2>1. \A x, y \in Int : x % ALIGN = 0 /\ y % ALIGN = 0 =>
                             (x + y) % ALIGN = 0 /\ (x - y) % ALIGN = 0
    BY <1>6, Multiples, Zenon
  <2>2. u \in Int /\ n \in Int /\ HeaderSize \in Int
        /\ u % ALIGN = 0 /\ n % ALIGN = 0 /\ HeaderSize % ALIGN = 0
    BY <1>1, <1>2, <1>6
  <2> QED
    BY <2>1, <2>2, Zenon
<1>8. fg \in Int /\ bg \in Int /\ b.start + fg = u - HeaderSize
  BY <1>1, <1>2, <1>3, <1>6, SMTT(30)
<1>9. s \in Nat /\ b.start <= s /\ s <= u - HeaderSize /\ s % ALIGN = 0
      /\ (fg >= MIN_BLOCK => s - b.start >= MIN_BLOCK)
      /\ (~(fg >= MIN_BLOCK) => s = b.start)
  BY <1>1, <1>3, <1>6, <1>7, <1>8, SMTT(30)
<1>10. t \in Nat /\ t <= e /\ u + n <= t
       /\ (bg >= MIN_BLOCK => e - t >= MIN_BLOCK /\ t % ALIGN = 0)
       /\ (~(bg >= MIN_BLOCK) => t = e)
  <2>1. CASE bg >= MIN_BLOCK
    <3>1. t = u + n /\ e - (u + n) >= MIN_BLOCK
      BY <2>1
    <3> HIDE DEF t, bg
    <3> QED
      BY <3>1, <2>1, <1>1, <1>2, <1>3, <1>4, <1>7, SMTT(30)
  <2>2. CASE ~(bg >= MIN_BLOCK)
    <3>1. t = e
      BY <2>2
    <3> HIDE DEF t, bg
    <3> QED
      BY <3>1, <2>2, <1>1, <1>2, <1>3, <1>4, SMTT(30)
  <2> QED
    BY <2>1, <2>2
<1> HIDE DEF fg, bg, s, t
<1>11. \A x, y \in Nat : x <= y => /\ Block(x, y) \in Blocks /\ Block(x, y).start = x
                                  /\ Block(x, y).size = y - x /\ End(Block(x, y)) = y
  BY DEF Block, Blocks, End
<1>12. /\ Block(s, t) \in Blocks /\ Block(s, t).start = s /\ End(Block(s, t)) = t
       /\ Block(s, t).size = t - s
  <2>1. s <= t
    BY <1>1, <1>2, <1>6, <1>9, <1>10, SMTT(30)
  <2> QED
    BY <2>1, <1>9, <1>10, <1>11, SMTT(30)
<1>13. Sound(Block(s, t))
  BY <1>1, <1>2, <1>6, <1>9, <1>10, <1>12 DEF Sound
<1>14. fg >= MIN_BLOCK => Block(b.start, s) \in Blocks /\ Sound(Block(b.start, s))
  BY <1>3, <1>9, <1>11, SMTT(30) DEF Sound
<1>15. bg >= MIN_BLOCK => Block(t, e) \in Blocks /\ Sound(Block(t, e))
  BY <1>3, <1>10, <1>11 DEF Sound
<1> QED
  BY <1>5, <1>9, <1>10, <1>12, <1>13, <1>14, <1>15, SMTT(30) DEF u, n, e

\* x is a byte of b.
LEMMA InBytes ==
  ASSUME NEW b \in Blocks
  PROVE  /\ b.start \in Nat /\ b.size \in Nat /\ End(b) = b.start + b.size
         /\ \A x : x \in Bytes(b) <=> x \in Int /\ b.start <= x /\ x < End(b)
BY DEF Blocks, End, Bytes

LEMMA BlockFacts ==
  ASSUME NEW x \in Nat, NEW y \in Nat, x <= y
  PROVE  /\ Block(x, y) \in Blocks /\ Block(x, y).start = x
         /\ Block(x, y).size = y - x /\ End(Block(x, y)) = y
BY DEF Block, Blocks, End

\* What stays free of a carved block: the bytes that are not taken.
LEMMA RestFacts ==
  ASSUME NEW b \in Blocks, Sound(b), NEW size \in Size, NEW align \in Align,
         fits(b, size, align)
  PROVE  LET c == carve(b, size, align)
             m == c.front \o c.back
         IN /\ m \in Seq(Blocks) /\ Neat(m)
            /\ \A k \in DOMAIN m : b.start <= m[k].start /\ End(m[k]) <= End(b)
            /\ \A x : x \in Covered(m) <=> x \in Bytes(b) /\ x \notin Bytes(c.taken)
<1> DEFINE c == carve(b, size, align)
           p == c.taken
           f == Block(b.start, p.start)
           z == Block(End(p), End(b))
           m == c.front \o c.back
<1>1. /\ p \in Blocks /\ Sound(p) /\ b.start <= p.start /\ End(p) <= End(b)
      /\ \/ c.front = <<>> /\ p.start = b.start
         \/ c.front = <<f>> /\ f \in Blocks /\ Sound(f)
      /\ \/ c.back = <<>> /\ End(p) = End(b)
         \/ c.back = <<z>> /\ z \in Blocks /\ Sound(z)
  BY CarveFacts, SMTT(30)
<1> HIDE DEF c
<1>2. /\ b.start \in Nat /\ p.start \in Nat /\ End(b) \in Nat /\ End(p) \in Nat
      /\ p.start < End(p)
      /\ \A x : x \in Bytes(b) <=> x \in Int /\ b.start <= x /\ x < End(b)
      /\ \A x : x \in Bytes(p) <=> x \in Int /\ p.start <= x /\ x < End(p)
  <2>1. b.size \in Nat /\ p.size \in Nat /\ p.size > 0
    BY <1>1, HeapAssumption DEF Blocks, Sound
  <2> QED
    BY <1>1, <2>1, InBytes, SMTT(30)
<1>3. /\ f.start = b.start /\ End(f) = p.start /\ z.start = End(p) /\ End(z) = End(b)
      /\ f \in Blocks /\ z \in Blocks
  BY <1>1, <1>2, BlockFacts, Zenon
<1>4. /\ \A x : x \in Bytes(f) <=> x \in Int /\ b.start <= x /\ x < p.start
      /\ \A x : x \in Bytes(z) <=> x \in Int /\ End(p) <= x /\ x < End(b)
  BY <1>3, InBytes
<1> HIDE DEF p, f, z
<1>5. CASE c.front = <<>> /\ p.start = b.start /\ c.back = <<>> /\ End(p) = End(b)
  <2>1. m = <<>>
    BY <1>5
  <2>2. DOMAIN m = {} /\ m \in Seq(Blocks)
    BY <2>1, SMTT(30)
  <2>3. \A x : x \notin Covered(m)
    BY <2>2 DEF Covered
  <2>4. Neat(m)
    BY <2>2 DEF Neat
  <2> QED
    BY <1>2, <1>5, <2>2, <2>3, <2>4 DEF p, c
<1>6. CASE c.front = <<f>> /\ f \in Blocks /\ Sound(f) /\ c.back = <<>> /\ End(p) = End(b)
  <2>1. m = <<f>>
    BY <1>6
  <2>2. DOMAIN m = {1} /\ m[1] = f /\ m \in Seq(Blocks)
    BY <1>6, <2>1
  <2>3. \A x : x \in Covered(m) <=> x \in Bytes(f)
    BY <2>2, Zenon DEF Covered
  <2>4. Neat(m)
    BY <1>6, <2>2, SMTT(30) DEF Neat
  <2>5. \A x : x \in Bytes(f) <=> x \in Bytes(b) /\ x \notin Bytes(p)
    BY <1>1, <1>2, <1>4, <1>6, SMTT(30)
  <2>6. b.start <= f.start /\ End(f) <= End(b)
    BY <1>1, <1>2, <1>3, SMTT(30)
  <2> QED
    BY <2>2, <2>3, <2>4, <2>5, <2>6, Zenon DEF p, c
<1>7. CASE c.front = <<>> /\ p.start = b.start /\ c.back = <<z>> /\ z \in Blocks /\ Sound(z)
  <2>1. m = <<z>>
    BY <1>7
  <2>2. DOMAIN m = {1} /\ m[1] = z /\ m \in Seq(Blocks)
    BY <1>7, <2>1
  <2>3. \A x : x \in Covered(m) <=> x \in Bytes(z)
    BY <2>2, Zenon DEF Covered
  <2>4. Neat(m)
    BY <1>7, <2>2, SMTT(30) DEF Neat
  <2>5. \A x : x \in Bytes(z) <=> x \in Bytes(b) /\ x \notin Bytes(p)
    BY <1>1, <1>2, <1>4, <1>7, SMTT(30)
  <2>6. b.start <= z.start /\ End(z) <= End(b)
    BY <1>1, <1>2, <1>3
  <2> QED
    BY <2>2, <2>3, <2>4, <2>5, <2>6, Zenon DEF p, c
<1>8. CASE /\ c.front = <<f>> /\ f \in Blocks /\ Sound(f)
           /\ c.back = <<z>> /\ z \in Blocks /\ Sound(z)
  <2>1. <<f>> \in Seq(Blocks) /\ <<z>> \in Seq(Blocks) /\ m = <<f>> \o <<z>>
        /\ Len(<<f>>) = 1 /\ Len(<<z>>) = 1 /\ <<f>>[1] = f /\ <<z>>[1] = z
    BY <1>8
  <2>2. DOMAIN m = {1, 2} /\ m[1] = f /\ m[2] = z /\ m \in Seq(Blocks)
    BY <2>1
  <2>3. \A x : x \in Covered(m) <=> x \in Bytes(f) \/ x \in Bytes(z)
    BY <2>2, Zenon DEF Covered
  <2>4. Neat(m)
    <3>1. End(f) < z.start
      BY <1>2, <1>3
    <3>2. \A i, j \in {1, 2} : i < j => i = 1 /\ j = 2
      OBVIOUS
    <3>3. \A i, j \in DOMAIN m : i < j => End(m[i]) < m[j].start
      BY <2>2, <3>1, <3>2, Zenon
    <3>4. \A i \in DOMAIN m : Sound(m[i])
      BY <1>8, <2>2, Zenon
    <3> QED
      BY <3>3, <3>4, Zenon DEF Neat
  <2>5. \A x : x \in Bytes(f) \/ x \in Bytes(z) <=> x \in Bytes(b) /\ x \notin Bytes(p)
    BY <1>1, <1>2, <1>4, SMTT(30)
  <2>6. b.start <= f.start /\ End(f) <= End(b) /\ b.start <= z.start /\ End(z) <= End(b)
    BY <1>1, <1>2, <1>3, SMTT(30)
  <2> QED
    BY <2>2, <2>3, <2>4, <2>5, <2>6, Zenon DEF p, c
<1> QED
  BY <1>1, <1>5, <1>6, <1>7, <1>8, Zenon

\* One block linked in between what is below it and what is above it.
LEMMA Linked ==
  ASSUME NEW s \in Seq(Blocks), NEW x \in Blocks, NEW lo \in Nat, NEW hi \in Nat,
         lo <= hi, hi <= Len(s), Neat(s), Sound(x),
         \A i \in 1..lo : End(s[i]) < x.start,
         \A i \in (hi + 1)..Len(s) : End(x) < s[i].start
  PROVE  /\ Splice(s, lo, <<x>>, hi) \in Seq(Blocks) /\ Neat(Splice(s, lo, <<x>>, hi))
         /\ \A y : y \in Covered(Splice(s, lo, <<x>>, hi)) <=>
              \/ y \in Bytes(x)
              \/ \E i \in (1..lo) \cup ((hi + 1)..Len(s)) : y \in Bytes(s[i])
<1> DEFINE m == <<x>>
<1>1. m \in Seq(Blocks) /\ DOMAIN m = {1} /\ m[1] = x
  OBVIOUS
<1> HIDE DEF m
<1>2. Neat(m)
  BY <1>1 DEF Neat
<1>3. \A y : y \in Covered(m) <=> y \in Bytes(x)
  BY <1>1 DEF Covered
<1>4. Between(s, lo, m, hi)
  BY <1>1 DEF Between
<1>5. /\ Splice(s, lo, m, hi) \in Seq(Blocks) /\ Neat(Splice(s, lo, m, hi))
      /\ \A y : y \in Covered(Splice(s, lo, m, hi)) <=>
           \/ y \in Covered(m)
           \/ \E i \in (1..lo) \cup ((hi + 1)..Len(s)) : y \in Bytes(s[i])
  BY <1>1, <1>2, <1>4, Spliced, Zenon
<1> QED
  BY <1>3, <1>5, SMTT(30) DEF m

LEMMA SeqEqual ==
  ASSUME NEW S, NEW s \in Seq(S), NEW t \in Seq(S),
         Len(s) = Len(t), \A i \in 1..Len(s) : s[i] = t[i]
  PROVE  s = t
OBVIOUS

LEMMA ConcatAssociative ==
  ASSUME NEW S, NEW s \in Seq(S), NEW t \in Seq(S), NEW u \in Seq(S)
  PROVE  (s \o t) \o u = s \o (t \o u)
OBVIOUS

LEMMA Parts ==
  ASSUME NEW S, NEW s \in Seq(S), NEW n \in 0..Len(s)
  PROVE  /\ SubSeq(s, n + 1, Len(s)) # <<>> <=> n < Len(s)
         /\ n < Len(s) => /\ Head(SubSeq(s, n + 1, Len(s))) = s[n + 1]
                          /\ Tail(SubSeq(s, n + 1, Len(s))) = SubSeq(s, (n + 1) + 1, Len(s))
<1> DEFINE z == SubSeq(s, n + 1, Len(s))
<1>0. Len(s) \in Nat
  OBVIOUS
<1>2. z \in Seq(S) /\ Len(z) = Len(s) - n /\ \A k \in 1..(Len(s) - n) : z[k] = s[n + k]
  OBVIOUS
<1> HIDE DEF z
<1>4. z # <<>> <=> n < Len(s)
  BY <1>2, <1>0
<1>6. ASSUME n < Len(s) PROVE Head(z) = s[n + 1] /\ Tail(z) = SubSeq(s, (n + 1) + 1, Len(s))
  <2>1. Head(z) = s[n + 1]
    BY <1>0, <1>2, <1>6
  <2>2. Tail(z) \in Seq(S) /\ Len(Tail(z)) = Len(s) - (n + 1)
        /\ \A k \in 1..(Len(s) - (n + 1)) : Tail(z)[k] = s[(n + 1) + k]
    <3>1. z # <<>>
      BY <1>4, <1>6
    <3>2. Tail(z) \in Seq(S) /\ Len(Tail(z)) = Len(z) - 1
          /\ \A k \in 1..(Len(z) - 1) : Tail(z)[k] = z[k + 1]
      BY <1>2, <3>1
    <3>3. \A k \in 1..(Len(s) - (n + 1)) : z[k + 1] = s[n + (k + 1)] /\ n + (k + 1) = (n + 1) + k
      BY <1>0, <1>2
    <3>4. Len(z) - 1 = Len(s) - (n + 1)
      BY <1>0, <1>2
    <3> QED
      BY <3>2, <3>3, <3>4, Zenon
  <2> DEFINE w == SubSeq(s, (n + 1) + 1, Len(s))
  <2>3. w \in Seq(S) /\ Len(w) = Len(s) - (n + 1)
        /\ \A k \in 1..(Len(s) - (n + 1)) : w[k] = s[(n + 1) + k]
    BY <1>0, <1>6, SMTT(30)
  <2> DEFINE t == Tail(z)
  <2>4. t = w
    <3>1. Len(t) = Len(w) /\ \A k \in 1..Len(t) : t[k] = w[k]
      BY <2>2, <2>3, Zenon
    <3> HIDE DEF t, w
    <3> QED
      BY <3>1, <2>2, <2>3, SeqEqual, Zenon DEF t
  <2> QED
    BY <2>1, <2>4
<1> QED
  BY <1>4, <1>6 DEF z

\* Freeing a block that is not free: the list stays neat and gains its bytes.
LEMMA InsertFacts ==
  ASSUME list \in Seq(Blocks), Neat(list), NEW b \in Blocks, Sound(b),
         Bytes(b) \cap Covered(list) = {}
  PROVE  /\ insert(b) \in Seq(Blocks) /\ Neat(insert(b))
         /\ \A x : x \in Covered(insert(b)) <=> x \in Covered(list) \/ x \in Bytes(b)
<1> DEFINE L == Len(list)
           S == {i \in DOMAIN list : \A j \in 1..i : list[j].start < b.start}
           n == Cardinality(S)
           before == SubSeq(list, 1, n)
           after == SubSeq(list, n + 1, Len(list))
<1>1. L \in Nat /\ DOMAIN list = 1..L /\ \A i \in 1..L : list[i] \in Blocks
  OBVIOUS
<1>2. n \in 0..L /\ S = 1..n
  <2>1. S \subseteq 1..L /\ \A i \in S, j \in 1..L : j <= i => j \in S
    BY <1>1, SMTT(30)
  <2> HIDE DEF S
  <2> QED
    BY <1>1, <2>1, Prefix, Zenon
<1>3. /\ \A j \in 1..n : list[j].start < b.start
      /\ n < L => ~(list[n + 1].start < b.start)
  <2>1. \A j \in 1..n : j \in S
    BY <1>2
  <2>2. \A j \in 1..n : j \in 1..j
    BY <1>2
  <2>3. \A j \in 1..n : list[j].start < b.start
    BY <2>1, <2>2
  <2>4. ASSUME n < L, list[n + 1].start < b.start PROVE FALSE
    <3> HIDE DEF n
    <3>1. n + 1 \in DOMAIN list /\ n + 1 \notin 1..n
      BY <1>1, <1>2, <2>4
    <3>2. \A j \in 1..(n + 1) : j \in 1..n \/ j = n + 1
      BY <1>2
    <3>3. n + 1 \in S
      BY <3>1, <3>2, <2>3, <2>4, SMTT(30)
    <3> QED
      BY <3>1, <3>3, <1>2, SMTT(30)
  <2> QED
    BY <2>3, <2>4
<1> HIDE DEF S, n
<1>4. /\ b.start \in Nat /\ b.size \in Nat /\ End(b) = b.start + b.size /\ b.start < End(b)
      /\ \A i \in 1..L : /\ list[i].start \in Nat /\ End(list[i]) \in Nat
                         /\ list[i].start < End(list[i])
  <2>0. MIN_BLOCK \in Nat /\ MIN_BLOCK > 0
    BY HeapAssumption
  <2>1. b.size > 0 /\ \A i \in 1..L : list[i].size > 0
    <3>1. Sound(b) /\ \A i \in 1..L : Sound(list[i])
      BY <1>1 DEF Neat
    <3>2. \A c \in Blocks : Sound(c) => c.size > 0
      BY <2>0 DEF Sound, Blocks
    <3> QED
      BY <1>1, <3>1, <3>2
  <2> QED
    BY <1>1, <2>1, InBytes, SMTT(30)
<1>5. \A i \in 1..L, x \in Int : list[i].start <= x /\ x < End(list[i]) => x \in Covered(list)
  BY <1>1, InBytes DEF Covered
<1>6. \A x \in Int : b.start <= x /\ x < End(b) => x \notin Covered(list)
  BY InBytes
<1>7. \A i \in 1..n : End(list[i]) <= b.start
  <2> SUFFICES ASSUME NEW i \in 1..n, ~(End(list[i]) <= b.start) PROVE FALSE
    OBVIOUS
  <2>1. i \in 1..L /\ list[i].start < b.start
    BY <1>1, <1>2, <1>3, SMTT(30)
  <2>2. list[i].start <= b.start /\ b.start < End(list[i]) /\ b.start \in Int
    BY <1>4, <2>1, SMTT(30)
  <2>3. b.start \in Covered(list)
    BY <1>5, <2>1, <2>2
  <2> QED
    BY <1>4, <1>6, <2>2, <2>3
<1>8. \A i \in (n + 1)..L : End(b) <= list[i].start
  <2> SUFFICES ASSUME NEW i \in (n + 1)..L PROVE End(b) <= list[i].start
    OBVIOUS
  <2>0. n \in Nat /\ n < L /\ n + 1 \in 1..L /\ i \in 1..L /\ i \in Nat
    BY <1>1, <1>2, SMTT(30)
  <2>1. b.start <= list[n + 1].start
    BY <1>3, <1>4, <2>0, SMTT(30)
  <2>2. i = n + 1 \/ End(list[n + 1]) < list[i].start
    BY <1>1, <2>0 DEF Neat
  <2>3. b.start <= list[i].start
    BY <1>4, <2>0, <2>1, <2>2, SMTT(30)
  <2>4. list[i].start \in Int /\ list[i].start \in Covered(list)
    BY <1>4, <1>5, <2>0, SMTT(30)
  <2>5. ~(b.start <= list[i].start /\ list[i].start < End(b))
    BY <1>6, <2>4
  <2> QED
    BY <1>4, <2>3, <2>4, <2>5, SMTT(30)
<1> DEFINE fw == n < L /\ End(b) = list[n + 1].start
           bw == n > 0 /\ End(list[n]) = b.start
           lo == IF bw THEN n - 1 ELSE n
           hi == IF fw THEN n + 1 ELSE n
           mid == IF fw THEN Block(b.start, End(list[n + 1])) ELSE b
           blk == IF bw THEN Block(list[n].start, End(mid)) ELSE mid
<1>9. insert(b) = Splice(list, lo, <<blk>>, hi)
  <2>1. /\ after # <<>> <=> n < L
        /\ n < L => /\ Head(after) = list[n + 1]
                    /\ Tail(after) = SubSeq(list, (n + 1) + 1, Len(list))
    BY <1>2, Parts, SMTT(30)
  <2> DEFINE forward == after # <<>> /\ End(b) = Head(after).start
             block == IF forward THEN Block(b.start, End(Head(after))) ELSE b
             rest == IF forward THEN Tail(after) ELSE after
  <2>2. insert(b) = IF bw
                    THEN SubSeq(list, 1, n - 1) \o <<Block(list[n].start, End(block))>> \o rest
                    ELSE before \o <<block>> \o rest
    BY DEF insert, n, S
  <2>3. forward <=> fw
    BY <2>1, Zenon
  <2>4. block = mid
    BY <2>1, <2>3, Zenon
  <2>5. rest = SubSeq(list, hi + 1, Len(list))
    BY <2>1, <2>3, Zenon
  <2>6. CASE bw
    <3>1. lo = n - 1 /\ Block(list[n].start, End(block)) = blk
      BY <2>4, <2>6, Zenon
    <3> HIDE DEF before, rest, block, forward, fw, bw, lo, hi, blk, mid
    <3> QED
      BY <2>2, <2>3, <2>5, <2>6, <3>1, Zenon DEF Splice
  <2>7. CASE ~bw
    <3>1. before = SubSeq(list, 1, lo) /\ block = blk
      BY <2>4, <2>7, Zenon
    <3> HIDE DEF before, rest, block, forward, fw, bw, lo, hi, blk, mid
    <3> QED
      BY <2>2, <2>3, <2>5, <2>7, <3>1, Zenon DEF Splice
  <2> QED
    BY <2>6, <2>7, SMTT(30)
<1>10. lo \in Nat /\ hi \in Nat /\ lo <= hi /\ hi <= L
  BY <1>1, <1>2
<1>a. /\ fw => mid = Block(b.start, End(list[n + 1]))
      /\ ~fw => mid = b
      /\ bw => blk = Block(list[n].start, End(mid))
      /\ ~bw => blk = mid
  BY Zenon
<1> HIDE DEF mid, blk
<1>11. /\ mid \in Blocks /\ mid.start = b.start /\ End(b) <= End(mid) /\ Sound(mid)
       /\ End(mid) = IF fw THEN End(list[n + 1]) ELSE End(b)
  <2>1. CASE fw
    <3>1. n + 1 \in 1..L /\ b.start <= End(list[n + 1]) /\ End(b) <= End(list[n + 1])
      BY <1>1, <1>2, <1>4, <2>1, SMTT(30)
    <3>2. mid = Block(b.start, End(list[n + 1])) /\ End(list[n + 1]) \in Nat
      BY <1>a, <2>1, <3>1, <1>4
    <3>3. mid \in Blocks /\ mid.start = b.start /\ mid.size = End(list[n + 1]) - b.start
          /\ End(mid) = End(list[n + 1])
      <4> DEFINE e == End(list[n + 1])
      <4>1. e \in Nat /\ b.start \in Nat /\ b.start <= e /\ mid = Block(b.start, e)
        BY <1>4, <3>1, <3>2, SMTT(30)
      <4> HIDE DEF e
      <4>2. mid \in Blocks /\ mid.start = b.start /\ mid.size = e - b.start /\ End(mid) = e
        BY <4>1, BlockFacts, SMTT(30)
      <4> QED
        BY <4>2 DEF e
    <3>4. mid.size >= b.size
      BY <1>4, <3>1, <3>2, <3>3, SMTT(30)
    <3>5. MIN_BLOCK \in Nat
      BY HeapAssumption, SMTT(30)
    <3>6. Sound(mid)
      BY <1>4, <3>1, <3>2, <3>3, <3>4, <3>5, SMTT(30) DEF Sound
    <3> QED
      BY <2>1, <3>1, <3>3, <3>6, SMTT(30)
  <2>2. CASE ~fw
    <3>1. mid = b /\ End(b) \in Nat
      BY <1>4, <1>a, <2>2
    <3> HIDE DEF fw
    <3> QED
      BY <2>2, <3>1
  <2> QED
    BY <2>1, <2>2
<1>12. /\ blk \in Blocks /\ Sound(blk) /\ End(blk) = End(mid)
       /\ blk.start = IF bw THEN list[n].start ELSE b.start
  <2>1. CASE bw
    <3>0. n \in 1..L /\ End(list[n]) = b.start
      BY <1>1, <1>2, <2>1, SMTT(30)
    <3>1. n \in 1..L /\ list[n].start <= b.start /\ list[n].start \in Nat
      BY <1>4, <3>0, SMTT(30)
    <3>2. blk = Block(list[n].start, End(mid)) /\ End(mid) \in Nat /\ b.start <= End(mid)
      <4>1. End(mid) = mid.start + mid.size /\ mid.size \in Nat
        BY <1>11, InBytes
      <4> QED
        BY <1>4, <1>11, <1>a, <2>1, <4>1, SMTT(30)
    <3>3. blk \in Blocks /\ blk.start = list[n].start /\ blk.size = End(mid) - list[n].start
          /\ End(blk) = End(mid)
      <4>1. list[n].start <= End(mid)
        BY <1>4, <3>1, <3>2, SMTT(30)
      <4> QED
        BY <3>1, <3>2, <4>1, BlockFacts, ZenonT(60)
    <3>4. blk.size >= b.size
      <4> QED
        BY <1>4, <1>11, <3>1, <3>2, <3>3, SMTT(30)
    <3>5. Sound(list[n])
      BY <1>1, <3>1 DEF Neat
    <3>6. Sound(blk)
      <4>1. MIN_BLOCK \in Nat
        BY HeapAssumption
      <4> QED
        BY <1>4, <4>1, <3>1, <3>2, <3>3, <3>4, <3>5, SMTT(30) DEF Sound
    <3> QED
      BY <2>1, <3>3, <3>6, Zenon
  <2>2. CASE ~bw
    BY <1>a, <1>11, <2>2, Zenon
  <2> QED
    BY <2>1, <2>2
<1>13. \A i \in 1..lo : End(list[i]) < blk.start
  <2> SUFFICES ASSUME NEW i \in 1..lo PROVE End(list[i]) < blk.start
    OBVIOUS
  <2>1. CASE bw
    <3>1. i < n /\ i \in DOMAIN list /\ n \in DOMAIN list
      BY <1>1, <1>2, <2>1, SMTT(30)
    <3> QED
      BY <1>12, <2>1, <3>1 DEF Neat
  <2>2. CASE ~bw
    <3>1. i \in 1..n /\ i \in 1..L /\ i \in Nat /\ n \in Nat
      BY <1>1, <1>2, <2>2
    <3>2. End(list[i]) <= b.start /\ End(list[i]) # b.start
      <4>1. CASE i = n
        BY <1>7, <2>2, <3>1, <4>1, SMTT(30)
      <4>2. CASE i # n
        <5>1. i < n /\ n \in 1..L /\ n \in 1..n
          BY <1>1, <1>2, <3>1, <4>2
        <5>2. End(list[i]) < list[n].start
          BY <1>1, <3>1, <5>1, SMTT(30) DEF Neat
        <5>3. list[n].start < b.start
          BY <1>3, <5>1, SMTT(30)
        <5> QED
          BY <1>4, <3>1, <5>1, <5>2, <5>3
      <4> QED
        BY <4>1, <4>2, SMTT(30)
    <3> QED
      BY <1>4, <1>12, <2>2, <3>1, <3>2
  <2> QED
    BY <2>1, <2>2
<1>14. \A i \in (hi + 1)..Len(list) : End(blk) < list[i].start
  <2> SUFFICES ASSUME NEW i \in (hi + 1)..L PROVE End(blk) < list[i].start
    OBVIOUS
  <2>0. i \in 1..L /\ n \in Nat /\ i > n /\ i \in (n + 1)..L /\ n + 1 \in 1..L
    BY <1>1, <1>2, SMTT(30)
  <2>1. CASE fw
    <3>1. i > n + 1
      BY <1>1, <1>2, <2>1, SMTT(30)
    <3>2. End(list[n + 1]) < list[i].start
      BY <1>1, <2>0, <3>1, SMTT(30) DEF Neat
    <3> QED
      BY <1>11, <1>12, <2>1, <3>2
  <2>2. CASE ~fw
    <3>1. End(b) <= list[i].start /\ End(b) <= list[n + 1].start /\ n < L
      BY <1>1, <1>8, <2>0, n + 1 \in (n + 1)..L, SMTT(30)
    <3>2. End(b) # list[n + 1].start
      BY <2>2, <3>1
    <3>3. i = n + 1 \/ End(list[n + 1]) < list[i].start
      BY <1>1, <2>0 DEF Neat
    <3>4. End(b) < list[i].start
      <4> DEFINE c == list[n + 1]
      <4>1. c.start \in Nat /\ End(c) \in Nat /\ c.start < End(c) /\ list[i].start \in Nat
            /\ End(b) \in Nat
        BY <1>4, <2>0
      <4>2. End(b) <= c.start /\ End(b) # c.start /\ (i = n + 1 => list[i] = c)
        BY <3>1, <3>2
      <4> HIDE DEF c
      <4>3. End(b) < c.start
        BY <4>1, <4>2
      <4>4. CASE i = n + 1
        BY <4>2, <4>3, <4>4, SMTT(30)
      <4>5. CASE End(c) < list[i].start
        BY <4>1, <4>3, <4>5
      <4> QED
        BY <3>3, <4>4, <4>5, SMTT(30) DEF c
    <3> QED
      BY <1>11, <1>12, <2>2, <3>4, SMTT(30)
  <2> QED
    BY <2>1, <2>2
<1>15. /\ insert(b) \in Seq(Blocks) /\ Neat(insert(b))
       /\ \A y : y \in Covered(insert(b)) <=>
            \/ y \in Bytes(blk)
            \/ \E i \in (1..lo) \cup ((hi + 1)..Len(list)) : y \in Bytes(list[i])
  <2> HIDE DEF lo, hi
  <2>1. /\ Splice(list, lo, <<blk>>, hi) \in Seq(Blocks)
        /\ Neat(Splice(list, lo, <<blk>>, hi))
        /\ \A y : y \in Covered(Splice(list, lo, <<blk>>, hi)) <=>
             \/ y \in Bytes(blk)
             \/ \E i \in (1..lo) \cup ((hi + 1)..Len(list)) : y \in Bytes(list[i])
    BY <1>10, <1>12, <1>13, <1>14, Linked, Zenon
  <2> QED
    BY <1>9, <2>1, Zenon
<1>16. \A y : y \in Bytes(blk) <=> \/ y \in Bytes(b)
                                   \/ (bw /\ y \in Bytes(list[n]))
                                   \/ (fw /\ y \in Bytes(list[n + 1]))
  <2>1. /\ \A y : y \in Bytes(blk) <=> y \in Int /\ blk.start <= y /\ y < End(blk)
        /\ \A y : y \in Bytes(b) <=> y \in Int /\ b.start <= y /\ y < End(b)
    BY <1>12, InBytes
  <2>2. bw => /\ list[n].start \in Nat /\ End(list[n]) = b.start /\ list[n].start <= b.start
              /\ \A y : y \in Bytes(list[n]) <=>
                         y \in Int /\ list[n].start <= y /\ y < b.start
    <3> SUFFICES ASSUME bw
                 PROVE /\ list[n].start \in Nat /\ End(list[n]) = b.start /\ list[n].start <= b.start
                       /\ \A y : y \in Bytes(list[n]) <=>
                         y \in Int /\ list[n].start <= y /\ y < b.start
      OBVIOUS
    <3>1. n \in 1..L /\ list[n] \in Blocks
      BY <1>1, <1>2
    <3> QED
      BY <1>4, <3>1, InBytes, SMTT(30)
  <2>3. fw => /\ list[n + 1].start = End(b) /\ End(list[n + 1]) \in Nat
              /\ End(b) <= End(list[n + 1])
              /\ \A y : y \in Bytes(list[n + 1]) <=>
                         y \in Int /\ End(b) <= y /\ y < End(list[n + 1])
    <3> SUFFICES ASSUME fw
                 PROVE  /\ list[n + 1].start = End(b) /\ End(list[n + 1]) \in Nat
                        /\ End(b) <= End(list[n + 1])
                        /\ \A y : y \in Bytes(list[n + 1]) <=>
                             y \in Int /\ End(b) <= y /\ y < End(list[n + 1])
      OBVIOUS
    <3> DEFINE c == list[n + 1]
    <3>1. n + 1 \in 1..L /\ c \in Blocks /\ c.start = End(b)
      BY <1>1, <1>2
    <3>2. c.start < End(c) /\ End(c) \in Nat /\ c.start \in Nat
      BY <1>4, <3>1, Zenon
    <3> HIDE DEF c
    <3>3. \A y : y \in Bytes(c) <=> y \in Int /\ c.start <= y /\ y < End(c)
      BY <3>1, InBytes, SMTT(30)
    <3>4. /\ c.start = End(b) /\ End(c) \in Nat /\ End(b) <= End(c)
          /\ \A y : y \in Bytes(c) <=> y \in Int /\ End(b) <= y /\ y < End(c)
      BY <3>1, <3>2, <3>3, SMTT(30)
    <3> QED
      BY <3>4, SMTT(30) DEF c
  <2> HIDE DEF bw, fw
  <2>4. End(b) \in Nat /\ b.start \in Nat /\ b.start < End(b)
    BY <1>4, SMTT(30)
  <2>5. CASE bw /\ fw
    BY <1>11, <1>12, <2>1, <2>2, <2>3, <2>4, <2>5, SMTT(30)
  <2>6. CASE bw /\ ~fw
    BY <1>11, <1>12, <2>1, <2>2, <2>4, <2>6, SMTT(30)
  <2>7. CASE ~bw /\ fw
    BY <1>11, <1>12, <2>1, <2>3, <2>4, <2>7, SMTT(30)
  <2>8. CASE ~bw /\ ~fw
    BY <1>11, <1>12, <2>1, <2>4, <2>8, SMTT(30)
  <2> QED
    BY <2>5, <2>6, <2>7, <2>8, Zenon
<1>17. \A i : i \in 1..L <=> \/ i \in (1..lo) \cup ((hi + 1)..Len(list))
                             \/ (bw /\ i = n)
                             \/ (fw /\ i = n + 1)
  BY <1>1, <1>2
<1>18. \A y : y \in Covered(list) <=> \E i \in 1..L : y \in Bytes(list[i])
  BY <1>1 DEF Covered
<1> HIDE DEF lo, hi, bw, fw, L
<1> QED
  BY <1>15, <1>16, <1>17, <1>18, Zenon

----------------------------------------------------------------------------
(* The invariant.                                                          *)

Allocations == [ptr : Nat, size : Size, align : Align, block : Blocks]

IInv ==
  /\ list \in Seq(Blocks) /\ Neat(list)
  /\ live \subseteq Allocations /\ \A a \in live : Sound(a.block)
  /\ Partition
  /\ AllocationsSound

LEMMA InitOK == Init => IInv
<1> SUFFICES ASSUME Init PROVE IInv
  OBVIOUS
<1> DEFINE e == heap_start + HEAP_SIZE
           b == Block(heap_start, e)
<1>1. heap_start \in Nat /\ HEAP_SIZE \in Nat /\ e \in Nat /\ heap_start <= e
      /\ HEAP_SIZE >= MIN_BLOCK /\ heap_start % ALIGN = 0
  BY HeapAssumption
<1>2. list = <<b>> /\ live = {} /\ free_bytes = HEAP_SIZE
  BY DEF Init
<1>3. b \in Blocks /\ b.start = heap_start /\ b.size = e - heap_start /\ End(b) = e
  BY <1>1, BlockFacts
<1>4. Sound(b) /\ Bytes(b) = Region
  BY <1>1, <1>3 DEF Sound, Bytes, Region
<1> HIDE DEF b
<1>5. list \in Seq(Blocks) /\ DOMAIN list = {1} /\ list[1] = b
  BY <1>2, <1>3
<1>6. Neat(list)
  BY <1>4, <1>5 DEF Neat
<1>7. FreeBytes = Region
  BY <1>4, <1>5 DEF FreeBytes
<1>8. Cardinality(Region) = HEAP_SIZE
  <2>1. heap_start \in Int /\ heap_start + HEAP_SIZE - 1 \in Int
    BY <1>1
  <2>2. Cardinality(Region) = IF heap_start > heap_start + HEAP_SIZE - 1 THEN 0
                              ELSE (heap_start + HEAP_SIZE - 1) - heap_start + 1
    BY <2>1, FS_Interval DEF Region
  <2> QED
    BY <1>1, <2>2
<1>9. Partition
  BY <1>2, <1>5, <1>7, <1>8 DEF Partition
<1> QED
  BY <1>2, <1>5, <1>6, <1>9 DEF IInv, AllocationsSound

LEMMA Counting ==
  ASSUME NEW b \in Blocks, NEW F, F \subseteq Region
  PROVE  /\ Cardinality(F) \in Nat
         /\ Bytes(b) \subseteq F => Cardinality(F \ Bytes(b)) = Cardinality(F) - b.size
         /\ Bytes(b) \cap F = {} => Cardinality(F \cup Bytes(b)) = Cardinality(F) + b.size
<1>1. b.start \in Nat /\ b.size \in Nat /\ Bytes(b) = b.start..(b.start + b.size - 1)
  BY DEF Blocks, Bytes, End
<1>2. b.start \in Int /\ b.start + b.size - 1 \in Int
      /\ heap_start \in Int /\ heap_start + HEAP_SIZE - 1 \in Int
  BY <1>1, HeapAssumption
<1>3. IsFiniteSet(Bytes(b)) /\ Cardinality(Bytes(b)) = b.size
  <2>1. /\ IsFiniteSet(b.start..(b.start + b.size - 1))
        /\ Cardinality(b.start..(b.start + b.size - 1)) =
             IF b.start > b.start + b.size - 1 THEN 0 ELSE (b.start + b.size - 1) - b.start + 1
    BY <1>2, FS_Interval
  <2> QED
    BY <1>1, <2>1
<1>4. IsFiniteSet(F)
  <2>1. IsFiniteSet(Region)
    BY <1>2, FS_Interval DEF Region
  <2> QED
    BY <2>1, FS_Subset
<1>5. Cardinality(F) \in Nat
  BY <1>4, FS_CardinalityType
<1>6. ASSUME Bytes(b) \subseteq F PROVE Cardinality(F \ Bytes(b)) = Cardinality(F) - b.size
  <2>1. F \cap Bytes(b) = Bytes(b)
    BY <1>6
  <2> QED
    <3>1. Cardinality(F \ Bytes(b)) = Cardinality(F) - Cardinality(F \cap Bytes(b))
      BY <1>4, FS_Difference, Zenon
    <3> QED
      BY <1>3, <2>1, <3>1, Zenon
<1>7. ASSUME Bytes(b) \cap F = {} PROVE Cardinality(F \cup Bytes(b)) = Cardinality(F) + b.size
  <2>1. F \cap Bytes(b) = {} /\ Cardinality({}) = 0
    BY <1>7, FS_EmptySet
  <2>2. Cardinality(F \cup Bytes(b)) =
          Cardinality(F) + Cardinality(Bytes(b)) - Cardinality(F \cap Bytes(b))
    BY <1>3, <1>4, FS_Union
  <2>3. Cardinality(F \cup Bytes(b)) = Cardinality(F) + b.size - 0
    BY <1>3, <2>1, <2>2, Zenon
  <2> QED
    BY <1>1, <1>5, <2>3
<1> QED
  BY <1>5, <1>6, <1>7

\* A neat list has disjoint blocks.
LEMMA NeatDisjoint ==
  ASSUME NEW s \in Seq(Blocks), Neat(s)
  PROVE  \A i, j \in DOMAIN s : i # j => Bytes(s[i]) \cap Bytes(s[j]) = {}
<1>1. \A i, j \in DOMAIN s : i < j => Bytes(s[i]) \cap Bytes(s[j]) = {}
  <2> SUFFICES ASSUME NEW i \in DOMAIN s, NEW j \in DOMAIN s, i < j,
                      NEW x, x \in Bytes(s[i]), x \in Bytes(s[j])
               PROVE  FALSE
    OBVIOUS
  <2>1. s[i] \in Blocks /\ s[j] \in Blocks
    OBVIOUS
  <2>2. End(s[i]) < s[j].start
    BY DEF Neat
  <2>3. x \in Int /\ x < End(s[i]) /\ s[j].start <= x /\ End(s[i]) \in Nat /\ s[j].start \in Nat
    BY <2>1, InBytes, SMTT(30)
  <2> QED
    BY <2>2, <2>3
<1>2. \A i, j \in DOMAIN s : i # j => i < j \/ j < i
  OBVIOUS
<1> QED
  BY <1>1, <1>2

LEMMA AllocOK ==
  ASSUME IInv, NEW size \in Size, NEW align \in Align, alloc_inner(size, align)
  PROVE  IInv'
<1>1. PICK i \in DOMAIN list :
        /\ fits(list[i], size, align)
        /\ LET c == carve(list[i], size, align) IN
           /\ list' = SubSeq(list, 1, i - 1) \o c.front \o c.back \o SubSeq(list, i + 1, Len(list))
           /\ free_bytes' = free_bytes - c.taken.size
           /\ live' = live \cup {Allocation(user_start(list[i], align), size, align, c.taken)}
  BY Zenon DEF alloc_inner
<1> DEFINE b == list[i]
           c == carve(b, size, align)
           m == c.front \o c.back
           p == c.taken
           a == Allocation(user_start(b, align), size, align, p)
<1>2. list \in Seq(Blocks) /\ Neat(list) /\ b \in Blocks /\ Sound(b) /\ i \in 1..Len(list)
      /\ Len(list) \in Nat
  BY SMTT(30) DEF IInv, Neat
<1>3. /\ free_bytes' = free_bytes - p.size
      /\ live' = live \cup {a}
      /\ fits(b, size, align)
  BY <1>1
<1>4. /\ p \in Blocks /\ Sound(p) /\ b.start <= p.start /\ End(p) <= End(b)
      /\ p.start <= user_start(b, align) - HeaderSize
      /\ user_start(b, align) + need(size) <= End(p)
      /\ c.front \in Seq(Blocks) /\ c.back \in Seq(Blocks)
  <2>1. /\ p \in Blocks /\ Sound(p) /\ b.start <= p.start /\ End(p) <= End(b)
        /\ p.start <= user_start(b, align) - HeaderSize
        /\ user_start(b, align) + need(size) <= End(p)
        /\ \/ c.front = <<>>
           \/ /\ c.front = <<Block(b.start, p.start)>>
              /\ Block(b.start, p.start) \in Blocks
        /\ \/ c.back = <<>>
           \/ /\ c.back = <<Block(End(p), End(b))>>
              /\ Block(End(p), End(b)) \in Blocks
    <3> HIDE DEF b
    <3> QED
      BY <1>2, <1>3, CarveFacts, Zenon
  <2>2. <<>> \in Seq(Blocks) /\ \A x \in Blocks : <<x>> \in Seq(Blocks)
    OBVIOUS
  <2> HIDE DEF c, p, b
  <2> QED
    BY <2>1, <2>2, Zenon
<1>5. /\ m \in Seq(Blocks) /\ Neat(m)
      /\ \A k \in DOMAIN m : b.start <= m[k].start /\ End(m[k]) <= End(b)
      /\ \A x : x \in Covered(m) <=> x \in Bytes(b) /\ x \notin Bytes(p)
  <2> HIDE DEF b
  <2> QED
    BY <1>2, <1>3, RestFacts, Zenon
<1>6. list' = Splice(list, i - 1, m, i)
  <2> DEFINE u == SubSeq(list, 1, i - 1)
             w == SubSeq(list, i + 1, Len(list))
  <2>1. u \in Seq(Blocks) /\ w \in Seq(Blocks)
    BY <1>2, SMTT(30)
  <2>2. list' = ((u \o c.front) \o c.back) \o w
    BY <1>1
  <2> HIDE DEF c, u, w
  <2>3. (u \o c.front) \o c.back = u \o (c.front \o c.back)
    <3>1. c.front \in Seq(Blocks) /\ c.back \in Seq(Blocks)
      BY <1>4
    <3>2. \A x, y, z \in Seq(Blocks) : (x \o y) \o z = x \o (y \o z)
      BY ConcatAssociative, SMTT(30)
    <3> QED
      BY <2>1, <3>1, <3>2, Zenon
  <2> QED
    BY <2>2, <2>3, Zenon DEF Splice, u, w
<1>7. /\ list' \in Seq(Blocks) /\ Neat(list')
      /\ \A x : x \in Covered(list') <=>
           \/ x \in Covered(m)
           \/ \E j \in (1..(i - 1)) \cup ((i + 1)..Len(list)) : x \in Bytes(list[j])
  <2>1. i - 1 \in Nat /\ i \in Nat /\ i - 1 <= i /\ i <= Len(list)
    BY <1>2
  <2>2. \A j \in 1..(i - 1) : End(list[j]) < b.start /\ End(list[j]) \in Nat
    BY <1>2, InBytes, SMTT(30) DEF Neat
  <2>3. \A j \in (i + 1)..Len(list) : End(b) < list[j].start /\ list[j].start \in Nat
    BY <1>2, InBytes DEF Neat
  <2>4. b.start \in Nat /\ End(b) \in Nat /\ \A k \in DOMAIN m : m[k].start \in Nat /\ End(m[k]) \in Nat
    <3>1. \A q \in Blocks : q.start \in Nat /\ End(q) \in Nat
      BY InBytes, SMTT(30)
    <3> HIDE DEF m, b
    <3>2. \A k \in DOMAIN m : m[k] \in Blocks
      BY <1>5, SMTT(30)
    <3> QED
      BY <1>2, <3>1, <3>2, SMTT(30)
  <2> HIDE DEF m, b
  <2>5. \A k \in DOMAIN m, j \in 1..(i - 1) : End(list[j]) < m[k].start
    BY <1>5, <2>2, <2>4, SMTT(30)
  <2>6. \A k \in DOMAIN m, j \in (i + 1)..Len(list) : End(m[k]) < list[j].start
    BY <1>5, <2>3, <2>4, SMTT(30)
  <2> DEFINE h == i - 1
  <2>7. h \in Nat /\ Between(list, h, m, i)
    BY <2>1, <2>5, <2>6 DEF Between
  <2> HIDE DEF h
  <2>8. /\ Splice(list, h, m, i) \in Seq(Blocks) /\ Neat(Splice(list, h, m, i))
        /\ \A x : x \in Covered(Splice(list, h, m, i)) <=>
           \/ x \in Covered(m)
           \/ \E j \in (1..h) \cup ((i + 1)..Len(list)) : x \in Bytes(list[j])
    <3>1. h <= i
      BY <2>1 DEF h
    <3> QED
      BY <1>2, <1>5, <2>1, <2>7, <3>1, Spliced, Zenon
  <2>9. Splice(list, h, m, i) = list' /\ h = i - 1
    BY <1>6, SMTT(30) DEF h
  <2> QED
    BY <2>8, <2>9, Zenon
<1> HIDE DEF m, b, p, a
<1>a. \A x : x \in Bytes(p) => x \in Bytes(b)
  <2>1. /\ \A x : x \in Bytes(p) <=> x \in Int /\ p.start <= x /\ x < End(p)
        /\ \A x : x \in Bytes(b) <=> x \in Int /\ b.start <= x /\ x < End(b)
        /\ p.start \in Nat /\ b.start \in Nat /\ End(p) \in Nat /\ End(b) \in Nat
    <3>1. \A q \in Blocks : /\ q.start \in Nat /\ End(q) \in Nat
                            /\ \A x : x \in Bytes(q) <=> x \in Int /\ q.start <= x /\ x < End(q)
      BY InBytes, SMTT(30)
    <3> QED
      BY <1>2, <1>4, <3>1, Zenon
  <2> QED
    BY <1>4, <2>1
<1>8. \A x : x \in Covered(list') <=> x \in Covered(list) /\ x \notin Bytes(p)
  <2>2. \A j \in (1..(i - 1)) \cup ((i + 1)..Len(list)) :
           j \in DOMAIN list /\ j # i
    BY <1>2
  <2>3. \A j \in DOMAIN list : j = i \/ j \in (1..(i - 1)) \cup ((i + 1)..Len(list))
    BY <1>2, SMTT(30)
  <2>4. \A j \in DOMAIN list : j # i => Bytes(list[j]) \cap Bytes(b) = {}
    BY <1>2, NeatDisjoint, SMTT(30) DEF b
  <2>5. \A x : x \in Covered(list) <=> \E j \in DOMAIN list : x \in Bytes(list[j])
    BY DEF Covered
  <2>6. ASSUME NEW x, x \in Covered(list') PROVE x \in Covered(list) /\ x \notin Bytes(p)
    <3>1. CASE x \in Covered(m)
      BY <1>5, <2>5, <3>1, Zenon DEF b
    <3>2. CASE \E j \in (1..(i - 1)) \cup ((i + 1)..Len(list)) : x \in Bytes(list[j])
      BY <1>a, <2>2, <2>4, <2>5, <3>2, SMTT(30)
    <3> QED
      BY <1>7, <2>6, <3>1, <3>2
  <2>7. ASSUME NEW x, x \in Covered(list), x \notin Bytes(p) PROVE x \in Covered(list')
    <3>1. PICK j \in DOMAIN list : x \in Bytes(list[j])
      BY <2>5, <2>7
    <3>2. CASE j = i
      BY <1>5, <1>7, <2>7, <3>1, <3>2, Zenon DEF b
    <3>3. CASE j # i
      BY <1>7, <2>3, <3>1, <3>3, Zenon
    <3> QED
      BY <3>2, <3>3, SMTT(30)
  <2> QED
    BY <2>6, <2>7, SMTT(30)
<1>9. Bytes(p) \subseteq Covered(list) /\ Bytes(p) # {}
  <2>1. p.start \in Bytes(p)
    <3>1. p.size > 0
      BY <1>4, HeapAssumption, SMTT(30) DEF Sound, Blocks
    <3> QED
      BY <1>4, <3>1, InBytes, SMTT(30)
  <2> QED
    BY <1>a, <2>1, SMTT(30) DEF Covered, b
<1>10. FreeBytes = Covered(list) /\ FreeBytes' = Covered(list')
  BY DEF FreeBytes, Covered
<1>11. /\ free_bytes = Cardinality(Covered(list)) /\ Covered(list) \subseteq Region
       /\ Covered(list) \cup UNION {Bytes(x.block) : x \in live} = Region
       /\ \A x, y \in live : x # y => Bytes(x.block) \cap Bytes(y.block) = {}
       /\ \A x \in live : Bytes(x.block) \cap Covered(list) = {}
  BY <1>10, Zenon DEF IInv, Partition
<1>12. Covered(list') = Covered(list) \ Bytes(p)
  BY <1>8, SMTT(30)
<1>13. a \in Allocations /\ a.block = p /\ Sound(p) /\ a.ptr = user_start(b, align)
       /\ a.size = size /\ a.align = align
  <2>1. user_start(b, align) \in Nat
    BY <1>2, UserFacts
  <2> QED
    BY <1>4, <2>1, SMTT(30) DEF a, Allocation, Allocations
<1>14. Partition'
  <2>1. free_bytes' = Cardinality(Covered(list'))
    BY <1>3, <1>4, <1>9, <1>11, <1>12, Counting, SMTT(30)
  <2>2. Covered(list') \cup UNION {Bytes(x.block) : x \in live'} = Region
    BY <1>3, <1>9, <1>11, <1>12, <1>13, SMTT(30)
  <2>3. \A j, k \in DOMAIN list' : j # k => Bytes(list'[j]) \cap Bytes(list'[k]) = {}
    BY <1>7, NeatDisjoint, SMTT(30)
  <2>4. \A x, y \in live' : x # y => Bytes(x.block) \cap Bytes(y.block) = {}
    <3>1. \A x \in live : Bytes(x.block) \cap Bytes(p) = {}
      BY <1>9, <1>11, SMTT(30)
    <3> QED
      BY <1>3, <1>11, <1>13, <3>1, SMTT(30)
  <2>5. \A x \in live' : Bytes(x.block) \cap Covered(list') = {}
    BY <1>3, <1>11, <1>12, <1>13, SMTT(30)
  <2> QED
    BY <1>10, <2>1, <2>2, <2>3, <2>4, <2>5, SMTT(30) DEF Partition
<1>15. AllocationsSound'
  <2>1. a.ptr % a.align = 0 /\ a.ptr \in Nat
    BY <1>2, <1>13, UserFacts, SMTT(30)
  <2>2. (a.ptr - HeaderSize)..(a.ptr + a.size - 1) \subseteq Bytes(a.block)
    <3>1. need(size) \in Nat /\ need(size) >= size /\ size \in Nat /\ HeaderSize \in Nat
      BY NeedFacts, HeapAssumption
    <3>2. \A x : x \in Bytes(p) <=> x \in Int /\ p.start <= x /\ x < End(p)
      BY <1>4, InBytes
    <3>3. p.start \in Nat /\ End(p) \in Nat
      BY <1>4, InBytes
    <3> QED
      BY <1>4, <1>13, <2>1, <3>1, <3>2, <3>3, SMTT(30)
  <2> QED
    BY <1>3, <2>1, <2>2, SMTT(30) DEF IInv, AllocationsSound
<1>16. live' \subseteq Allocations /\ \A x \in live' : Sound(x.block)
  BY <1>3, <1>13 DEF IInv
<1> QED
  BY <1>7, <1>14, <1>15, <1>16 DEF IInv

LEMMA DeallocOK ==
  ASSUME IInv, NEW a \in live, dealloc_inner(a)
  PROVE  IInv'
<1> DEFINE p == a.block
<1>1. a \in Allocations /\ p \in Blocks /\ Sound(p) /\ list \in Seq(Blocks) /\ Neat(list)
  BY DEF IInv, Allocations
<1>2. list' = insert(p) /\ free_bytes' = free_bytes + p.size /\ live' = live \ {a}
  BY DEF dealloc_inner
<1> HIDE DEF p
<1>3. FreeBytes = Covered(list) /\ FreeBytes' = Covered(list')
  BY SMTT(30) DEF FreeBytes, Covered
<1>4. /\ free_bytes = Cardinality(Covered(list)) /\ Covered(list) \subseteq Region
      /\ Covered(list) \cup UNION {Bytes(x.block) : x \in live} = Region
      /\ \A x, y \in live : x # y => Bytes(x.block) \cap Bytes(y.block) = {}
      /\ \A x \in live : Bytes(x.block) \cap Covered(list) = {}
  BY <1>3 DEF IInv, Partition
<1>5. Bytes(p) \cap Covered(list) = {}
  BY <1>4 DEF p
<1>6. /\ list' \in Seq(Blocks) /\ Neat(list')
      /\ Covered(list') = Covered(list) \cup Bytes(p)
  <2>2. /\ insert(p) \in Seq(Blocks) /\ Neat(insert(p))
        /\ \A x : x \in Covered(insert(p)) <=> x \in Covered(list) \/ x \in Bytes(p)
    BY <1>1, <1>5, InsertFacts
  <2> QED
    BY <1>2, <2>2, SMTT(30)
<1>7. Partition'
  <2>1. free_bytes' = Cardinality(Covered(list'))
    <3>1. Cardinality(Covered(list) \cup Bytes(p)) = Cardinality(Covered(list)) + p.size
      BY <1>1, <1>4, <1>5, Counting, SMTT(30)
    <3> QED
      BY <1>2, <1>4, <1>6, <3>1, SMTT(30)
  <2>2. Covered(list') \cup UNION {Bytes(x.block) : x \in live'} = Region
    <3>1. UNION {Bytes(x.block) : x \in live} = Bytes(p) \cup UNION {Bytes(x.block) : x \in live'}
      BY <1>2 DEF p
    <3> QED
      BY <1>4, <1>6, <3>1
  <2>3. \A j, k \in DOMAIN list' : j # k => Bytes(list'[j]) \cap Bytes(list'[k]) = {}
    BY <1>6, NeatDisjoint, SMTT(30)
  <2>4. \A x, y \in live' : x # y => Bytes(x.block) \cap Bytes(y.block) = {}
    BY <1>2, <1>4
  <2>5. \A x \in live' : Bytes(x.block) \cap Covered(list') = {}
    <3>1. \A x \in live' : Bytes(x.block) \cap Bytes(p) = {}
      BY <1>2, <1>4 DEF p
    <3> QED
      BY <1>2, <1>4, <1>6, <3>1, SMTT(30)
  <2> QED
    BY <1>3, <2>1, <2>2, <2>3, <2>4, <2>5, SMTT(30) DEF Partition
<1>8. AllocationsSound' /\ live' \subseteq Allocations /\ \A x \in live' : Sound(x.block)
  BY <1>2 DEF IInv, AllocationsSound
<1> QED
  BY <1>6, <1>7, <1>8 DEF IInv

\* IInv is an invariant of the heap.
THEOREM Invariant == Spec => []IInv
<1>1. IInv /\ [Next]_vars => IInv'
  <2> SUFFICES ASSUME IInv, [Next]_vars PROVE IInv'
    OBVIOUS
  <2>1. CASE \E size \in Size, align \in Align : alloc_inner(size, align)
    BY <2>1, AllocOK
  <2>2. CASE \E a \in live : dealloc_inner(a)
    BY <2>2, DeallocOK
  <2>3. CASE UNCHANGED vars
    <3>1. list' = list /\ free_bytes' = free_bytes /\ live' = live
      BY <2>3 DEF vars
    <3>2. FreeBytes' = FreeBytes
      BY <3>1 DEF FreeBytes
    <3>3. Partition'
      BY <3>1, <3>2, SMTT(30) DEF IInv, Partition
    <3>4. AllocationsSound'
      BY <3>1 DEF IInv, AllocationsSound
    <3> QED
      BY <3>1, <3>3, <3>4, SMTT(30) DEF IInv
  <2> QED
    BY <2>1, <2>2, <2>3 DEF Next
<1> QED
  BY <1>1, InitOK, PTL DEF Spec

----------------------------------------------------------------------------
(* What the heap promises.                                                 *)

\* No byte of the region is ever lost or handed out twice, and free_bytes
\* counts the free ones, through every split, absorption and merge.
THEOREM HeapPartitioned == Spec => []Partition
<1>1. IInv => Partition
  BY DEF IInv
<1> QED
  BY <1>1, Invariant, PTL

\* alloc returns aligned memory that lies, with its header, in the block that
\* dealloc will get back.
THEOREM HeapAllocationsSound == Spec => []AllocationsSound
<1>1. IInv => AllocationsSound
  BY SMTT(30) DEF IInv
<1> QED
  BY <1>1, Invariant, PTL

\* dealloc keeps the list in address order and leaves no two free neighbours.
THEOREM HeapCoalesced == Spec => []Coalesced
<1>1. IInv => Coalesced
  <2> SUFFICES ASSUME IInv PROVE Coalesced
    OBVIOUS
  <2>1. Len(list) \in Nat /\ DOMAIN list = 1..Len(list)
        /\ \A i \in 1..(Len(list) - 1) : i \in 1..Len(list) /\ i + 1 \in 1..Len(list) /\ i < i + 1
    BY DEF IInv
  <2> QED
    BY <2>1, SMTT(30) DEF IInv, Neat, Coalesced, Sound
<1> QED
  BY <1>1, Invariant, PTL

\* An interval of free bytes lies in one free block: no two of them touch.
LEMMA OneBlock ==
  ASSUME NEW s \in Seq(Blocks), Neat(s), NEW x \in Int, NEW y \in Int, x <= y,
         \A z \in Int : x <= z /\ z <= y => z \in Covered(s)
  PROVE  \E i \in DOMAIN s : s[i].start <= x /\ y < End(s[i])
<1>1. PICK i \in DOMAIN s : x \in Bytes(s[i])
  BY DEF Covered
<1>2. \A j \in DOMAIN s : /\ s[j] \in Blocks /\ s[j].start \in Nat /\ End(s[j]) \in Nat
                          /\ s[j].start <= End(s[j])
                          /\ \A z : z \in Bytes(s[j]) <=> z \in Int /\ s[j].start <= z /\ z < End(s[j])
  <2>1. \A c \in Blocks : /\ c.start \in Nat /\ End(c) \in Nat /\ c.start <= End(c)
                          /\ \A z : z \in Bytes(c) <=> z \in Int /\ c.start <= z /\ z < End(c)
    BY InBytes, SMTT(30)
  <2>2. \A j \in DOMAIN s : s[j] \in Blocks
    OBVIOUS
  <2> QED
    BY <2>1, <2>2, Zenon
<1>3. s[i].start <= x /\ x < End(s[i])
  BY <1>1, <1>2
<1>4. ASSUME ~(y < End(s[i])) PROVE FALSE
  <2>1. End(s[i]) \in Covered(s)
    BY <1>2, <1>3, <1>4, SMTT(30)
  <2>2. PICK j \in DOMAIN s : End(s[i]) \in Bytes(s[j])
    BY <2>1, SMTT(30) DEF Covered
  <2>3. s[j].start <= End(s[i]) /\ End(s[i]) < End(s[j])
    BY <1>2, <2>2
  <2>4. i \in Nat /\ j \in Nat
    OBVIOUS
  <2>5. CASE i < j
    <3>1. End(s[i]) < s[j].start
      BY <2>5, SMTT(30) DEF Neat
    <3> QED
      BY <1>2, <2>3, <3>1, SMTT(30)
  <2>6. CASE j < i
    <3>1. End(s[j]) < s[i].start
      BY <2>6, SMTT(30) DEF Neat
    <3> QED
      BY <1>2, <2>3, <3>1, SMTT(30)
  <2>7. CASE i = j
    BY <1>2, <2>3, <2>7, SMTT(30)
  <2> QED
    BY <2>4, <2>5, <2>6, <2>7, SMTT(30)
<1> QED
  BY <1>3, <1>4

\* alloc returns null only when no aligned place with room for a header exists.
THEOREM HeapNullOnlyWhenFull == Spec => []NullOnlyWhenFull
<1>1. IInv => NullOnlyWhenFull
  <2> SUFFICES ASSUME IInv, NEW size \in Size, NEW align \in Align, NEW x \in Region,
                      x % align = 0, x % ALIGN = 0,
                      (x - HeaderSize)..(x + need(size) - 1) \subseteq FreeBytes
               PROVE  \E i \in DOMAIN list : fits(list[i], size, align)
    BY SMTT(30) DEF NullOnlyWhenFull, need
  <2>1. x \in Nat /\ HeaderSize \in Nat /\ need(size) \in Nat /\ need(size) > 0
    BY NeedFacts, HeapAssumption DEF Region
  <2>2. list \in Seq(Blocks) /\ Neat(list)
    BY DEF IInv
  <2>3. \A z \in Int : x - HeaderSize <= z /\ z <= x + need(size) - 1 => z \in Covered(list)
    BY <2>1 DEF FreeBytes, Covered
  <2> DEFINE l == x - HeaderSize
             h == x + need(size) - 1
  <2>4. l \in Int /\ h \in Int /\ l <= h /\ \A z \in Int : l <= z /\ z <= h => z \in Covered(list)
    BY <2>1, <2>3
  <2> HIDE DEF l, h
  <2>5. PICK i \in DOMAIN list : list[i].start <= l /\ h < End(list[i])
    BY <2>2, <2>4, OneBlock, Zenon
  <2> DEFINE b == list[i]
  <2>6. b \in Blocks /\ b.start \in Nat /\ End(b) \in Nat
    BY <2>2, InBytes, SMTT(30)
  <2>7. b.start <= l /\ h < End(b)
    BY <2>5
  <2> HIDE DEF b
  <2>8. x >= b.start + HeaderSize
    BY <2>1, <2>6, <2>7, SMTT(30) DEF l
  <2>9. user_start(b, align) \in Nat /\ user_start(b, align) <= x
        /\ user_end(b, size, align) = user_start(b, align) + need(size)
    BY <2>1, <2>6, <2>8, UserFacts, SMTT(30)
  <2>10. user_end(b, size, align) <= End(b)
    BY <2>1, <2>6, <2>7, <2>9 DEF h
  <2> QED
    BY <2>10, SMTT(30) DEF fits, b
<1> QED
  BY <1>1, Invariant, PTL
=============================================================================
