----------------------------- MODULE FilesProofs -----------------------------
(***************************************************************************)
(* The user copies accept exactly what the process may access, reads of a  *)
(* descriptor are the file in order, and descriptors are private, for any  *)
(* page size, address space, files, descriptor table and arguments.        *)
(***************************************************************************)
EXTENDS Files, SequenceTheorems, WellFoundedInduction, TLAPS

------------------------------------------------------------------------------
(* User ranges.                                                             *)

LEMMA DivBounds ==
  ASSUME NEW a \in Nat, NEW k \in Nat \ {0}
  PROVE  a \div k \in Nat /\ k * (a \div k) <= a /\ a < k * (a \div k) + k
OBVIOUS

LEMMA MulMono ==
  ASSUME NEW k \in Nat \ {0}, NEW q \in Nat, NEW r \in Nat, q < r
  PROVE  k * q \in Nat /\ k * r \in Nat /\ k * q + k <= k * r
OBVIOUS

LEMMA DivGe ==
  ASSUME NEW a \in Nat, NEW k \in Nat \ {0}, NEW q \in Nat, k * q <= a
  PROVE  q <= a \div k
<1> SUFFICES ASSUME a \div k < q PROVE FALSE
  BY DivBounds
<1>1. k * (a \div k) + k <= k * q
  BY DivBounds, MulMono
<1> QED  BY <1>1, DivBounds

LEMMA DivIs ==
  ASSUME NEW a \in Nat, NEW k \in Nat \ {0}, NEW q \in Nat, k * q <= a, a < k * q + k
  PROVE  a \div k = q
<1>1. q <= a \div k
  BY DivGe
<1>2. ~(q < a \div k)
  <2> SUFFICES ASSUME q < a \div k PROVE FALSE
    OBVIOUS
  <2>1. k * q + k <= k * (a \div k)
    BY DivBounds, MulMono
  <2> QED  BY <2>1, DivBounds
<1> QED  BY <1>1, <1>2, DivBounds

\* The loop visits the pages of the bytes in the range, and no other.
LEMMA VisitedPages ==
  ASSUME NEW ptr \in Nat, NEW len \in Nat \ {0}, NEW page
  PROVE  page \in Visited(ptr, ptr + len)
           <=> \E i \in 0..(len - 1) : page = (ptr + i) \div PAGE_SIZE
<1> DEFINE k == PAGE_SIZE
           last == ptr + len + k - 1
<1>1. k \in Nat \ {0} /\ last \in Nat
  BY UserCopyAssumption
<1>2. ASSUME page \in Visited(ptr, ptr + len)
      PROVE  \E i \in 0..(len - 1) : page = (ptr + i) \div k
  <2>1. page \in Nat /\ page + 1 <= last \div k /\ ptr \div k <= page
    BY <1>1, <1>2, DivBounds DEF Visited
  <2> HIDE DEF k, last
  <2>2. k * page + k <= last
    <3>1. k * page + k = k * (page + 1)
      BY <1>1, <2>1
    <3>2. k * (page + 1) <= k * (last \div k)
      <4>1. CASE page + 1 = last \div k
        BY <4>1, <1>1, <2>1, DivBounds
      <4>2. CASE page + 1 < last \div k
        BY <4>2, <1>1, <2>1, DivBounds, MulMono
      <4> QED  BY <4>1, <4>2, <1>1, <2>1, DivBounds
    <3>3. k * (last \div k) <= last /\ k * (last \div k) \in Nat
      BY <1>1, DivBounds
    <3>4. k * page \in Nat
      BY <1>1, <2>1
    <3> QED  BY <1>1, <3>1, <3>2, <3>3, <3>4
  <2>3. k * page < ptr + len /\ k * page \in Nat
    BY <1>1, <2>1, <2>2 DEF last
  <2>4. CASE ptr <= k * page
    <3>1. (k * page) \div k = page
      BY <1>1, <2>1, <2>3, DivIs
    <3>2. k * page - ptr \in 0..(len - 1) /\ ptr + (k * page - ptr) = k * page
      BY <2>3, <2>4
    <3> QED  BY <3>1, <3>2, ZenonT(60)
  <2>5. CASE k * page < ptr
    <3>1. page <= ptr \div k
      BY <1>1, <2>1, <2>3, <2>5, DivGe
    <3>2. page = ptr \div k
      BY <1>1, <2>1, <3>1, DivBounds, SMTT(30)
    <3> QED  BY <3>2
  <2> QED  BY <2>3, <2>4, <2>5
<1>3. ASSUME NEW i \in 0..(len - 1), page = (ptr + i) \div k
      PROVE  page \in Visited(ptr, ptr + len)
  <2>1. page \in Nat /\ k * page <= ptr + i /\ k * page \in Nat
    BY <1>1, <1>3, DivBounds, SMTT(30)
  <2>2. page + 1 <= last \div k
    <3>1. k * (page + 1) = k * page + k
      BY <1>1, <2>1
    <3>2. k * (page + 1) <= last
      BY <1>1, <2>1, <3>1
    <3> HIDE DEF k, last
    <3> QED  BY <1>1, <2>1, <3>2, DivGe, SMTT(30)
  <2>3. ptr \div k <= page
    <3>1. ptr \div k \in Nat /\ k * (ptr \div k) <= ptr
      BY <1>1, DivBounds
    <3>2. k * (ptr \div k) <= ptr + i /\ ptr + i \in Nat
      BY <1>1, <3>1
    <3> HIDE DEF k, last
    <3> QED  BY <1>1, <1>3, <3>1, <3>2, DivGe, ZenonT(60)
  <2>4. last \div k \in Nat
    BY <1>1, DivBounds
  <2> QED  BY <2>1, <2>2, <2>3, <2>4, SMTT(30) DEF Visited
<1> QED  BY <1>2, <1>3, ZenonT(60)

LEMMA AcceptsExactly ==
  ASSUME NEW t, NEW perms, NEW ptr \in Nat, NEW len \in Nat \ {0}
  PROVE  accepts(t, ptr, len, perms) <=> Accessible(t, ptr, len, perms)
<1> DEFINE seq == 0..(len - 1)
           V == Visited(ptr, ptr + len)
           pageOf(i) == (ptr + i) \div PAGE_SIZE
<1>0. \A page : page \in V <=> \E i \in seq : page = pageOf(i)
  BY VisitedPages, ZenonT(60)
<1>1. (\A page \in V : t[page] \in perms) <=> \A i \in seq : t[pageOf(i)] \in perms
  <2> HIDE DEF seq, V, pageOf
  <2> QED  BY <1>0, Zenon
<1>2. ptr + len <= VA_MAX <=> ptr <= VA_MAX /\ \A i \in 0..(len - 1) : ptr + i < VA_MAX
  BY UserCopyAssumption
<1>3. ptr + len <= VA_MAX => ptr + len < USIZE
  BY UserCopyAssumption
<1> QED  BY <1>1, <1>2, <1>3, ZenonT(60) DEF accepts, Accessible

LEMMA VisitedBelow ==
  ASSUME NEW ptr \in Nat, NEW len \in Nat \ {0}, ptr + len <= VA_MAX
  PROVE  Visited(ptr, ptr + len) \subseteq UserPage
<1> SUFFICES ASSUME NEW page \in Visited(ptr, ptr + len)
             PROVE  page \in UserPage
  OBVIOUS
<1>1. PICK i \in 0..(len - 1) : page = (ptr + i) \div PAGE_SIZE
  <2>1. \A x : x \in Visited(ptr, ptr + len)
                 <=> \E i \in 0..(len - 1) : x = (ptr + i) \div PAGE_SIZE
    BY VisitedPages, ZenonT(60)
  <2> QED  BY <2>1
<1> DEFINE pages == VA_MAX \div PAGE_SIZE
<1>2. pages \in Nat /\ PAGE_SIZE * pages = VA_MAX
  BY UserCopyAssumption
<1>3. page \in Nat /\ PAGE_SIZE * page <= ptr + i /\ PAGE_SIZE * page \in Nat
  BY <1>1, DivBounds, UserCopyAssumption
<1> HIDE DEF pages
<1>4. PAGE_SIZE * page < PAGE_SIZE * pages
  <2>1. ptr + i < VA_MAX
    BY UserCopyAssumption
  <2> QED  BY <1>2, <1>3, <2>1, UserCopyAssumption
<1>5. page < pages
  <2> SUFFICES ASSUME pages <= page PROVE FALSE
    BY <1>2, <1>3, SMTT(30)
  <2>1. CASE pages = page
    BY <2>1, <1>3, <1>4, SMTT(30)
  <2>2. CASE pages < page
    <3>1. PAGE_SIZE * pages + PAGE_SIZE <= PAGE_SIZE * page
      BY <2>2, <1>2, <1>3, MulMono, UserCopyAssumption, SMTT(30)
    <3> QED  BY <3>1, <1>2, <1>3, <1>4, UserCopyAssumption, SMTT(30)
  <2> QED  BY <1>2, <1>3, <2>1, <2>2, SMTT(30)
<1> QED  BY <1>2, <1>3, <1>5, SMTT(30) DEF UserPage, pages

\* An empty range at the start of a page visits no page.
LEMMA EmptyAligned ==
  ASSUME NEW ptr \in Nat, ptr % PAGE_SIZE = 0
  PROVE  Visited(ptr, ptr + 0) = {}
<1> DEFINE k == PAGE_SIZE
           q == ptr \div k
<1>1. k \in Nat \ {0} /\ q \in Nat /\ ptr = k * q
  BY UserCopyAssumption
<1> HIDE DEF k, q
<1>2. (ptr + k - 1) \div k = q
  BY <1>1, DivIs, SMTT(30)
<1>3. q = ptr \div k
  BY DEF q
<1> QED  BY <1>1, <1>2, <1>3 DEF Visited, k

\* An empty range elsewhere visits what the byte at ptr visits.
LEMMA EmptyUnaligned ==
  ASSUME NEW ptr \in Nat, ptr % PAGE_SIZE # 0
  PROVE  /\ Visited(ptr, ptr + 0) = Visited(ptr, ptr + 1)
         /\ ptr + 0 <= VA_MAX <=> ptr + 1 <= VA_MAX
<1> DEFINE k == PAGE_SIZE
           q == ptr \div k
           m == ptr % k
<1>1. k \in Nat \ {0} /\ q \in Nat /\ m \in 1..(k - 1) /\ ptr = k * q + m
  BY UserCopyAssumption
<1>2. ptr # VA_MAX /\ VA_MAX \in Nat
  BY UserCopyAssumption
<1> HIDE DEF k, q, m
<1>3. k * (q + 1) = k * q + k /\ k * q \in Nat
  BY <1>1
<1>4. (ptr + k - 1) \div k = q + 1
  BY <1>1, <1>3, DivIs, SMTT(30)
<1>5. (ptr + 1 + k - 1) \div k = q + 1
  BY <1>1, <1>3, DivIs, SMTT(30)
<1>6. Visited(ptr, ptr + 0) = Visited(ptr, ptr + 1)
  BY <1>4, <1>5 DEF Visited, k
<1> QED  BY <1>2, <1>6

LEMMA AcceptsEmpty ==
  ASSUME NEW t, NEW perms, NEW ptr \in Nat
  PROVE  accepts(t, ptr, 0, perms) <=> Accessible(t, ptr, Extent(ptr, 0), perms)
<1>1. CASE ptr % PAGE_SIZE = 0
  <2>1. Extent(ptr, 0) = 0 /\ Visited(ptr, ptr + 0) = {}
    BY <1>1, EmptyAligned DEF Extent
  <2> QED  BY <2>1, UserCopyAssumption DEF accepts, Accessible
<1>2. CASE ptr % PAGE_SIZE # 0
  <2>1. Extent(ptr, 0) = 1
    BY <1>2 DEF Extent
  <2>2. accepts(t, ptr, 0, perms) <=> accepts(t, ptr, 1, perms)
    <3>1. /\ Visited(ptr, ptr + 0) = Visited(ptr, ptr + 1)
          /\ ptr + 0 <= VA_MAX <=> ptr + 1 <= VA_MAX
      BY <1>2, EmptyUnaligned
    <3>2. /\ ptr + 0 <= VA_MAX => ptr + 0 < USIZE
          /\ ptr + 1 <= VA_MAX => ptr + 1 < USIZE
      BY UserCopyAssumption
    <3> QED  BY <3>1, <3>2, Zenon DEF accepts
  <2>3. accepts(t, ptr, 1, perms) <=> Accessible(t, ptr, 1, perms)
    BY AcceptsExactly
  <2> QED  BY <2>1, <2>2, <2>3, Zenon
<1> QED  BY <1>1, <1>2

LEMMA VisitsUserPages ==
  ASSUME NEW ptr \in Nat, NEW len \in Nat, ptr + len <= VA_MAX
  PROVE  Visited(ptr, ptr + len) \subseteq UserPage
<1>1. CASE len # 0
  BY <1>1, VisitedBelow
<1>2. CASE len = 0 /\ ptr % PAGE_SIZE = 0
  BY <1>2, EmptyAligned
<1>3. CASE len = 0 /\ ptr % PAGE_SIZE # 0
  <2>1. Visited(ptr, ptr + len) = Visited(ptr, ptr + 1) /\ ptr + 1 <= VA_MAX
    BY <1>3, EmptyUnaligned
  <2>2. Visited(ptr, ptr + 1) \subseteq UserPage
    BY <2>1, VisitedBelow
  <2> QED  BY <2>1, <2>2
<1> QED  BY <1>1, <1>2, <1>3

\* copy_from_user and copy_to_user accept a range exactly if each byte of it
\* is accessible, and an empty one as Extent says, for any page size and
\* address width.
THEOREM RangesAreExact == Spec => []RangesExact
<1>1. ASSUME NEW t, NEW perms, NEW ptr \in Usize, NEW len \in Usize
      PROVE  accepts(t, ptr, len, perms) <=> Accessible(t, ptr, Extent(ptr, len), perms)
  <2>1. ptr \in Nat /\ len \in Nat
    BY UserCopyAssumption DEF Usize
  <2>2. CASE len = 0
    BY <2>1, <2>2, AcceptsEmpty
  <2>3. CASE len # 0
    <3>1. Extent(ptr, len) = len
      BY <2>3 DEF Extent
    <3> QED  BY <2>1, <2>3, <3>1, AcceptsExactly, SMTT(30)
  <2> QED  BY <2>2, <2>3
<1>2. ASSUME NEW ptr \in Usize, NEW len \in Usize, ptr + len <= VA_MAX
      PROVE  Visited(ptr, ptr + len) \subseteq UserPage
  BY <1>2, VisitsUserPages, UserCopyAssumption DEF Usize
<1>3. RangesExact
  BY <1>1, <1>2, ZenonT(60) DEF RangesExact, copy_from_user, copy_to_user
<1> QED  BY <1>3, PTL

------------------------------------------------------------------------------
(* Descriptors.                                                             *)

LEMMA Least ==
  ASSUME NEW S, S \subseteq Nat, S # {}
  PROVE  \E x \in S : \A y \in S : x <= y
<1>1. PICK x \in S : \A y \in S : <<y, x>> \notin OpToRel(<, Nat)
  BY NatLessThanWellFounded, WFMin, ZenonT(60)
<1>2. \A y \in S : ~(y < x)
  BY <1>1, ZenonT(60) DEF OpToRel
<1> QED  BY <1>2

Slot == {Closed} \cup [file : Name, offset : Nat]
Seen == [bytes : Seq(Nat), eof : BOOLEAN]

TypeInv ==
  /\ st \in [Pid -> {"none", "user", "gone"}]
  /\ fds \in [Pid -> [Fd -> Slot]]
  /\ seen \in [Pid -> [Fd -> Seen]]
  /\ nextPid \in Nat /\ \A p \in Pid : p >= nextPid => st[p] = "none"

\* What ReadsInOrder says of one descriptor.
Good(e, s) ==
  e # Closed =>
    /\ e.offset <= Len(data[e.file])
    /\ s.bytes = SubSeq(data[e.file], 1, e.offset)
    /\ s.eof => e.offset = Len(data[e.file])

AllGood == \A p \in Pid, fd \in Fd : Good(fds[p][fd], seen[p][fd])

IInv == TypeInv /\ AllGood

LEMMA FirstFree ==
  ASSUME NEW f \in [Fd -> Slot], Open(f) # Fd
  PROVE  first_free(f) \in Fd /\ f[first_free(f)] = Closed
<1>1. Fd \ Open(f) \subseteq Nat /\ Fd \ Open(f) # {}
  BY RamfsAssumption DEF Fd, Open
<1>2. \E x \in Fd \ Open(f) : \A y \in Fd \ Open(f) : x <= y
  BY <1>1, Least, ZenonT(60)
<1>3. first_free(f) \in Fd \ Open(f)
  BY <1>2 DEF first_free
<1> QED  BY <1>3 DEF Open

LEMMA OpenedGood ==
  ASSUME NEW name \in Name
  PROVE  /\ [file |-> name, offset |-> 0] \in Slot /\ Unseen \in Seen
         /\ Good([file |-> name, offset |-> 0], Unseen)
<1>1. data[name] \in Seq(Nat)
  BY RamfsAssumption
<1>2. SubSeq(data[name], 1, 0) = <<>>
  BY SubSeqEmpty, SMTT(30)
<1> QED  BY <1>1, <1>2 DEF Good, Slot, Seen, Unseen

\* What a read returns continues what was returned before.
LEMMA ReadExtends ==
  ASSUME NEW d \in Seq(Nat), NEW o \in Nat, NEW buf \in Seq(Nat), o + Len(buf) <= Len(d),
         \A i \in 1..Len(buf) : buf[i] = d[o + i]
  PROVE  SubSeq(d, 1, o) \o buf = SubSeq(d, 1, o + Len(buf))
<1> DEFINE n == Len(buf)
<1>1. n \in Nat /\ Len(d) \in Nat /\ \A i \in 1..Len(d) : d[i] \in Nat
  OBVIOUS
<1>3. /\ SubSeq(d, 1, o) \in Seq(Nat) /\ Len(SubSeq(d, 1, o)) = o
      /\ \A i \in 1..o : SubSeq(d, 1, o)[i] = d[i]
  BY <1>1, SubSeqProperties, SMTT(30)
<1>4. /\ SubSeq(d, 1, o + n) \in Seq(Nat) /\ Len(SubSeq(d, 1, o + n)) = o + n
      /\ \A i \in 1..(o + n) : SubSeq(d, 1, o + n)[i] = d[i]
  BY <1>1, SubSeqProperties, SMTT(30)
<1> DEFINE a == SubSeq(d, 1, o)
           b == SubSeq(d, 1, o + n)
<1>5. /\ a \o buf \in Seq(Nat) /\ Len(a \o buf) = o + n
      /\ \A i \in 1..(o + n) : (a \o buf)[i] = IF i <= o THEN a[i] ELSE buf[i - o]
  <2>1. a \in Seq(Nat) /\ Len(a) = o
    BY <1>3
  <2> HIDE DEF a
  <2>2. /\ a \o buf \in Seq(Nat) /\ Len(a \o buf) = Len(a) + Len(buf)
        /\ \A i \in 1..(Len(a) + Len(buf)) :
             (a \o buf)[i] = IF i <= Len(a) THEN a[i] ELSE buf[i - Len(a)]
    BY <2>1, ConcatProperties, ZenonT(60)
  <2> QED  BY <2>1, <2>2, ZenonT(60)
<1>6. \A i \in 1..(o + n) : (a \o buf)[i] = b[i]
  <2> HIDE DEF a, b
  <2> TAKE i \in 1..(o + n)
  <2>1. CASE i <= o
    BY <2>1, <1>3, <1>4, <1>5, SMTT(30) DEF a, b
  <2>2. CASE i > o
    <3>1. i - o \in 1..n /\ o + (i - o) = i
      BY <2>2, SMTT(60)
    <3>2. buf[i - o] = d[i]
      BY <3>1, ZenonT(60)
    <3>3. b[i] = d[i]
      BY <1>4 DEF b
    <3>4. (a \o buf)[i] = IF i <= o THEN a[i] ELSE buf[i - o]
      BY <1>5, SMTT(30)
    <3>5. ~(i <= o)
      BY <2>2
    <3> QED  BY <3>2, <3>3, <3>4, <3>5, SMTT(30)
  <2>3. i <= o \/ i > o
    OBVIOUS
  <2> QED  BY <2>1, <2>2, <2>3, Zenon
<1>7. a \o buf = b
  BY <1>4, <1>5, <1>6, SeqEqual, SMTT(30)
<1> QED  BY <1>7

\* What DescriptorsStable allows for one open descriptor.
Forward(e, f) == f.file = "closed" \/ (f.file = e.file /\ f.offset > e.offset)

Advanced(e, buf) == [e EXCEPT !.offset = @ + Len(buf)]
Extended(s, buf) == [bytes |-> s.bytes \o buf, eof |-> buf = <<>>]

LEMMA ReadGood ==
  ASSUME NEW e \in Slot, e # Closed, NEW s \in Seen, Good(e, s), NEW cap \in Nat, cap # 0,
         NEW buf, buf = read_at(e.file, e.offset, cap)
  PROVE  /\ Advanced(e, buf) \in Slot
         /\ Advanced(e, buf) = e \/ Forward(e, Advanced(e, buf))
         /\ Extended(s, buf) \in Seen /\ Good(Advanced(e, buf), Extended(s, buf))
<1> DEFINE e2 == [e EXCEPT !.offset = @ + Len(buf)]
           s2 == [bytes |-> s.bytes \o buf, eof |-> buf = <<>>]
           d == data[e.file]
           o == e.offset
           n == Less(cap, Len(d) - o)
<1>1. d \in Seq(Nat) /\ o \in Nat /\ e.file \in Name /\ e \in [file : Name, offset : Nat]
  BY RamfsAssumption, SMTT(30) DEF Slot
<1>2. o <= Len(d) /\ s.bytes = SubSeq(d, 1, o) /\ s.bytes \in Seq(Nat) /\ Len(d) \in Nat
  BY <1>1, SMTT(30) DEF Good, Seen
<1> HIDE DEF d, o
<1>3. CASE o = Len(d)
  <2>1. buf = <<>>
    <3>1. o >= Len(d)
      BY <1>2, <1>3, SMTT(30)
    <3> QED  BY <3>1, Zenon DEF read_at, d, o
  <2>2. Len(buf) = 0 /\ s.bytes \o buf = s.bytes
    BY <1>2, <2>1, SMTT(30)
  <2>3. e2 = e
    BY <1>1, <2>2, SMTT(30) DEF o
  <2>4. s2 \in Seen /\ s2.bytes = s.bytes
    BY <1>2, <2>1, <2>2, SMTT(30) DEF Seen
  <2>5. e2 \in Slot /\ e2 = e /\ s2 \in Seen /\ Good(e2, s2)
    BY <1>2, <1>3, <2>3, <2>4, ZenonT(60) DEF Good, d, o
  <2> QED  BY <2>5, Zenon DEF Advanced, Extended
<1>4. CASE o < Len(d)
  <2>1. n \in Nat /\ n # 0 /\ o + n <= Len(d)
    BY <1>1, <1>2, <1>4, SMTT(30) DEF Less
  <2>2. buf = SubSeq(d, o + 1, o + n)
    <3>1. ~(o >= Len(d))
      BY <1>1, <1>2, <1>4, SMTT(30)
    <3> QED  BY <3>1, ZenonT(60) DEF read_at, d, o
  <2> HIDE DEF n
  <2>3. buf \in Seq(Nat) /\ Len(buf) = n /\ SubSeq(d, 1, o) \o buf = SubSeq(d, 1, o + n)
    <3>1. \A i \in (o + 1)..(o + n) : d[i] \in Nat
      BY <1>1, <1>2, <2>1, SMTT(60)
    <3>2. /\ SubSeq(d, o + 1, o + n) \in Seq(Nat)
          /\ Len(SubSeq(d, o + 1, o + n)) = IF o + 1 <= o + n THEN o + n - (o + 1) + 1 ELSE 0
          /\ \A i \in 1..(o + n - (o + 1) + 1) : SubSeq(d, o + 1, o + n)[i] = d[o + 1 + i - 1]
      BY <1>1, <2>1, <3>1, SubSeqProperties, SMTT(30)
    <3>3. buf \in Seq(Nat) /\ Len(buf) = n /\ \A i \in 1..n : buf[i] = d[o + i]
      BY <1>1, <2>1, <2>2, <3>2, SMTT(30)
    <3> QED  BY <1>1, <2>1, <3>3, ReadExtends, ZenonT(60)
  <2>4. buf # <<>>
    BY <2>1, <2>3, SMTT(30)
  <2>5. e2 \in [file : Name, offset : Nat] /\ e2.file = e.file /\ e2.offset = o + n
    <3>1. e.offset + Len(buf) = o + n /\ o + n \in Nat
      BY <1>1, <2>1, <2>3, SMTT(60) DEF o
    <3> QED  BY <1>1, <3>1, SMTT(30)
  <2>6. s2 \in Seen /\ s2.bytes = SubSeq(d, 1, o + n) /\ ~s2.eof
    <3>1. s.bytes \o buf \in Seq(Nat)
      BY <1>2, <2>3, ConcatProperties, SMTT(30)
    <3> QED  BY <1>2, <2>3, <2>4, <3>1, ZenonT(60) DEF Seen
  <2>7. e2 \in Slot /\ s2 \in Seen /\ Good(e2, s2)
    BY <2>1, <2>5, <2>6, ZenonT(60) DEF Good, Slot, d
  <2>8. Forward(e, e2)
    <3>1. o + n > e.offset
      BY <1>1, <2>1, SMTT(30) DEF o
    <3> QED  BY <2>5, <3>1, Zenon DEF Forward
  <2> QED  BY <2>7, <2>8, Zenon DEF Advanced, Extended
<1>5. o = Len(d) \/ o < Len(d)
  BY <1>1, <1>2, SMTT(30)
<1> QED  BY <1>3, <1>4, <1>5, ZenonT(60)

StableStep ==
  /\ \A x, y \in Changing : x = y
  /\ \A x \in Changing :
       \/ Entry(x)'.file = "closed"
       \/ Entry(x)'.file = Entry(x).file /\ Entry(x)'.offset > Entry(x).offset
  /\ Changing # {} => UNCHANGED <<st, table>>

\* A step that closes one descriptor or moves it on, and does nothing else.
OnlyMoves(y) ==
  \A x \in Lasting : \/ fds'[x[1]][x[2]] = fds[x[1]][x[2]]
                     \/ x = y /\ Forward(fds[x[1]][x[2]], fds'[x[1]][x[2]])

LEMMA OneChanges ==
  ASSUME NEW y, OnlyMoves(y), UNCHANGED <<st, table>>
  PROVE  StableStep
<1>1. \A x \in Changing : x = y /\ Forward(Entry(x), Entry(x)')
  BY ZenonT(60) DEF Changing, Entry, OnlyMoves
<1> QED  BY <1>1, ZenonT(60) DEF StableStep, Forward

\* The steps that leave the open descriptors as they are.
LEMMA OthersChange ==
  ASSUME \A x \in Lasting : fds'[x[1]][x[2]] = fds[x[1]][x[2]]
  PROVE  StableStep
<1>1. Changing = {}
  BY ZenonT(60) DEF Changing, Entry
<1> QED  BY <1>1, ZenonT(60) DEF StableStep

LEMMA NoneChanges ==
  ASSUME IInv, UNCHANGED <<fds, seen>>, UNCHANGED nextPid,
         st' \in [Pid -> {"none", "user", "gone"}],
         \A p \in Pid : p >= nextPid => st'[p] = "none"
  PROVE  IInv' /\ StableStep
<1>1. TypeInv'
  BY DEF IInv, TypeInv
<1>2. AllGood'
  BY DEF IInv, AllGood
<1>3. StableStep
  BY OthersChange
<1> QED  BY <1>1, <1>2, <1>3 DEF IInv

\* The steps that change one.
LEMMA SlotChanges ==
  ASSUME IInv, NEW p \in Pid, NEW fd \in Fd, NEW e \in Slot, NEW s \in Seen, Good(e, s),
         fds' = [fds EXCEPT ![p] = [fds[p] EXCEPT ![fd] = e]],
         seen' = [seen EXCEPT ![p] = [seen[p] EXCEPT ![fd] = s]],
         UNCHANGED <<st, table, nextPid>>,
         fds[p][fd] = Closed \/ e = fds[p][fd] \/ Forward(fds[p][fd], e)
  PROVE  IInv' /\ StableStep
<1>1. /\ fds'[p][fd] = e /\ seen'[p][fd] = s
      /\ \A q \in Pid, x \in Fd : q # p \/ x # fd =>
           fds'[q][x] = fds[q][x] /\ seen'[q][x] = seen[q][x]
  BY DEF IInv, TypeInv
<1>2. TypeInv'
  BY DEF IInv, TypeInv
<1>3. AllGood'
  <2> SUFFICES ASSUME NEW q \in Pid, NEW x \in Fd
               PROVE  Good(fds'[q][x], seen'[q][x])
    BY ZenonT(60) DEF AllGood, Good
  <2>1. CASE q = p /\ x = fd
    BY <2>1, <1>1
  <2>2. CASE q # p \/ x # fd
    BY <2>2, <1>1, SMTT(30) DEF IInv, AllGood
  <2> QED  BY <2>1, <2>2, SMTT(30)
<1>4. StableStep
  <2> DEFINE y == <<p, fd>>
  <2>0. ASSUME NEW x \in Lasting
        PROVE  \/ fds'[x[1]][x[2]] = fds[x[1]][x[2]]
               \/ x = y /\ Forward(fds[x[1]][x[2]], fds'[x[1]][x[2]])
    <3>1. x = <<x[1], x[2]>> /\ x[1] \in Pid /\ x[2] \in Fd
      BY DEF Lasting
    <3>2. fds[x[1]][x[2]] # Closed
      BY SMTT(30) DEF Lasting, Entry, Closed
    <3>3. CASE x[1] = p /\ x[2] = fd
      BY <1>1, <3>1, <3>2, <3>3, ZenonT(60)
    <3>4. CASE x[1] # p \/ x[2] # fd
      BY <1>1, <3>1, <3>4
    <3> QED  BY <3>3, <3>4
  <2> HIDE DEF y
  <2>1. UNCHANGED <<st, table>>
    OBVIOUS
  <2>2. OnlyMoves(y)
    BY <2>0, Zenon DEF OnlyMoves
  <2> QED  BY <2>1, <2>2, OneChanges, SMTT(30)
<1> QED  BY <1>2, <1>3, <1>4, SMTT(30) DEF IInv

------------------------------------------------------------------------------
(* The actions.                                                             *)

LEMMA sys_open_OK ==
  ASSUME IInv, NEW p \in Pid, NEW ptr, NEW len, NEW name, sys_open(p, ptr, len, name)
  PROVE  IInv' /\ StableStep
<1>1. UNCHANGED <<st, table, nextPid>> /\ fds[p] \in [Fd -> Slot] /\ seen[p] \in [Fd -> Seen]
  BY DEF sys_open, IInv, TypeInv
<1>2. CASE UNCHANGED <<fds, seen>>
  BY <1>1, <1>2, NoneChanges, SMTT(30) DEF IInv, TypeInv
<1>3. CASE /\ name \in Name /\ Open(fds[p]) # Fd
           /\ fds' = [fds EXCEPT ![p] = fd_install(fds[p], name)]
           /\ seen' = [seen EXCEPT ![p][first_free(fds[p])] = Unseen]
  <2> DEFINE fd == first_free(fds[p])
             e == [file |-> name, offset |-> 0]
  <2>1. fd \in Fd /\ fds[p][fd] = Closed
    BY <1>1, <1>3, FirstFree
  <2>2. e \in Slot /\ Unseen \in Seen /\ Good(e, Unseen)
    BY <1>3, OpenedGood
  <2>3. fds' = [fds EXCEPT ![p] = [fds[p] EXCEPT ![fd] = e]]
    BY <1>3 DEF fd_install
  <2>4. seen' = [seen EXCEPT ![p] = [seen[p] EXCEPT ![fd] = Unseen]]
    BY <1>3, SMTT(30)
  <2> HIDE DEF fd, e
  <2> QED  BY <1>1, <2>1, <2>2, <2>3, <2>4, SlotChanges, ZenonT(60)
<1> QED  BY <1>2, <1>3 DEF sys_open

LEMMA sys_fread_OK ==
  ASSUME IInv, NEW p \in Pid, NEW fd, NEW ptr, NEW len \in Nat, sys_fread(p, fd, ptr, len)
  PROVE  IInv' /\ StableStep
<1> DEFINE cap == Less(len, WRITE_MAX)
           buf == read_at(fds[p][fd].file, fds[p][fd].offset, cap)
<1>1. UNCHANGED <<st, table, nextPid>> /\ fds[p] \in [Fd -> Slot] /\ seen[p] \in [Fd -> Seen]
  BY ZenonT(60) DEF sys_fread, IInv, TypeInv
<1>2. CASE UNCHANGED <<fds, seen>>
  BY <1>1, <1>2, NoneChanges DEF IInv, TypeInv
<1>3. CASE /\ fd \in Open(fds[p]) /\ cap # 0
           /\ fds' = [fds EXCEPT ![p] = fd_advance(fds[p], fd, Len(buf))]
           /\ seen' = [seen EXCEPT ![p][fd] = [bytes |-> @.bytes \o buf, eof |-> buf = <<>>]]
  <2> DEFINE e == [fds[p][fd] EXCEPT !.offset = @ + Len(buf)]
             s == [bytes |-> seen[p][fd].bytes \o buf, eof |-> buf = <<>>]
  <2>1. fd \in Fd /\ fds[p][fd] # Closed /\ fds[p][fd] \in Slot /\ seen[p][fd] \in Seen
    BY <1>1, <1>3 DEF Open
  <2>2. Good(fds[p][fd], seen[p][fd])
    BY <2>1, SMTT(30) DEF IInv, AllGood
  <2>3. cap \in Nat /\ cap # 0
    BY <1>3, FilesAssumption, SMTT(30) DEF Less
  <2>4. fds' = [fds EXCEPT ![p] = [fds[p] EXCEPT ![fd] = e]]
    BY <1>3, SMTT(30) DEF fd_advance
  <2>5. seen' = [seen EXCEPT ![p] = [seen[p] EXCEPT ![fd] = s]]
    BY <1>3
  <2>6. /\ e \in Slot /\ s \in Seen /\ Good(e, s)
        /\ e = fds[p][fd] \/ Forward(fds[p][fd], e)
    <3> DEFINE e0 == fds[p][fd]
               s0 == seen[p][fd]
    <3>1. /\ buf = read_at(e0.file, e0.offset, cap) /\ cap \in Nat /\ cap # 0
          /\ e0 \in Slot /\ e0 # Closed /\ s0 \in Seen /\ Good(e0, s0)
      BY <2>1, <2>2, <2>3
    <3>2. e = Advanced(e0, buf) /\ s = Extended(s0, buf)
      BY Zenon DEF Advanced, Extended
    <3> HIDE DEF cap, buf, e0, s0, e, s
    <3>3. /\ Advanced(e0, buf) \in Slot
          /\ Advanced(e0, buf) = e0 \/ Forward(e0, Advanced(e0, buf))
          /\ Extended(s0, buf) \in Seen /\ Good(Advanced(e0, buf), Extended(s0, buf))
      BY <3>1, ReadGood
    <3> QED  BY <3>2, <3>3 DEF e0
  <2> HIDE DEF e, s
  <2> QED  BY <1>1, <2>1, <2>4, <2>5, <2>6, SlotChanges, ZenonT(60)
<1> QED  BY <1>2, <1>3, ZenonT(60) DEF sys_fread

LEMMA sys_close_OK ==
  ASSUME IInv, NEW p \in Pid, NEW fd, sys_close(p, fd)
  PROVE  IInv' /\ StableStep
<1>1. /\ fd \in Fd /\ UNCHANGED <<st, table, nextPid>>
      /\ fds' = [fds EXCEPT ![p] = [fds[p] EXCEPT ![fd] = Closed]]
      /\ seen' = [seen EXCEPT ![p] = [seen[p] EXCEPT ![fd] = Unseen]]
  BY DEF sys_close, fd_close, Open
<1>2. Closed \in Slot /\ Unseen \in Seen /\ Good(Closed, Unseen) /\ Forward(fds[p][fd], Closed)
  BY DEF Slot, Seen, Unseen, Good, Closed, Forward
<1> QED  BY <1>1, <1>2, SlotChanges, ZenonT(60)

LEMMA fork_OK ==
  ASSUME IInv, NEW p \in Pid, fork(p)
  PROVE  IInv' /\ StableStep
<1>1. /\ nextPid \in Pid /\ nextPid' = nextPid + 1
      /\ st' = [st EXCEPT ![nextPid] = "user"]
      /\ fds' = [fds EXCEPT ![nextPid] = fds[p]]
      /\ seen' = [seen EXCEPT ![nextPid] = seen[p]]
  BY DEF fork
<1>2. st[nextPid] = "none"
  BY <1>1 DEF IInv, TypeInv
<1>3. TypeInv'
  BY <1>1, SMTT(30) DEF IInv, TypeInv, Pid
<1>4. AllGood'
  BY <1>1 DEF IInv, TypeInv, AllGood, Good
<1>5. \A x \in Lasting : x[1] \in Pid /\ x[1] # nextPid
  BY <1>2 DEF Lasting
<1>6. \A x \in Lasting : fds'[x[1]][x[2]] = fds[x[1]][x[2]]
  BY <1>1, <1>5, SMTT(30) DEF IInv, TypeInv
<1>7. StableStep
  BY <1>6, OthersChange
<1> QED  BY <1>3, <1>4, <1>7 DEF IInv

LEMMA other_OK ==
  ASSUME IInv, NEW p \in Pid, exec(p) \/ touch(p) \/ exit(p)
  PROVE  IInv' /\ StableStep
<1>1. UNCHANGED <<fds, seen>> /\ UNCHANGED nextPid
  BY DEF exec, touch, exit
<1>2. st' = st \/ (st[p] = "user" /\ st' = [st EXCEPT ![p] = "gone"])
  BY DEF exec, touch, exit
<1>3. /\ st' \in [Pid -> {"none", "user", "gone"}]
      /\ \A q \in Pid : q >= nextPid => st'[q] = "none"
  BY <1>2 DEF IInv, TypeInv
<1> QED  BY <1>1, <1>3, NoneChanges

LEMMA NextOK == IInv /\ [Next]_vars => IInv' /\ (StableStep \/ UNCHANGED vars)
<1> SUFFICES ASSUME IInv, [Next]_vars PROVE IInv' /\ (StableStep \/ UNCHANGED vars)
  OBVIOUS
<1>1. CASE UNCHANGED vars
  BY <1>1 DEF vars, IInv, TypeInv, AllGood, Good
<1>2. ASSUME NEW p \in Pid, NEW ptr \in Ptr, NEW len \in Size, NEW name \in Path,
             sys_open(p, ptr, len, name)
      PROVE  IInv' /\ StableStep
  BY <1>2, sys_open_OK
<1>3. ASSUME NEW p \in Pid, NEW ptr \in Ptr, NEW len \in Size, NEW fd \in FdArg,
             sys_fread(p, fd, ptr, len)
      PROVE  IInv' /\ StableStep
  <2>1. len \in Nat
    BY FilesAssumption, UserCopyAssumption DEF Usize
  <2> QED  BY <1>3, <2>1, sys_fread_OK
<1>4. ASSUME NEW p \in Pid, NEW fd \in FdArg, sys_close(p, fd)
      PROVE  IInv' /\ StableStep
  BY <1>4, sys_close_OK
<1>5. ASSUME NEW p \in Pid, fork(p) \/ exec(p) \/ touch(p) \/ exit(p)
      PROVE  IInv' /\ StableStep
  BY <1>5, fork_OK, other_OK
<1> QED  BY <1>1, <1>2, <1>3, <1>4, <1>5 DEF Next

LEMMA InitOK == Init => IInv
<1> SUFFICES ASSUME Init PROVE IInv
  OBVIOUS
<1>1. Closed \in Slot /\ Unseen \in Seen
  BY DEF Slot, Seen, Unseen
<1>2. TypeInv
  BY <1>1 DEF Init, TypeInv, NoFds, Pid
<1>3. AllGood
  BY DEF Init, AllGood, Good, NoFds
<1> QED  BY <1>2, <1>3 DEF IInv

\* The types and the state of every open descriptor are inductive.
THEOREM Invariant == Spec => []IInv
  BY InitOK, NextOK, PTL DEF Spec

\* Successful reads of a descriptor return the file in order, without gap or
\* repetition, and the end is reported at the end.
THEOREM ReadsAreInOrder == Spec => []ReadsInOrder
<1>1. IInv => ReadsInOrder
  BY DEF IInv, AllGood, Good, ReadsInOrder, Open
<1> QED  BY <1>1, Invariant, PTL

\* open, read and close change one open descriptor at most, by closing it or
\* moving its cursor forward; fork, exec, exit and page faults change none.
THEOREM DescriptorsAreStable == Spec => DescriptorsStable
<1>1. IInv /\ [Next]_vars => [StableStep]_vars
  BY NextOK
<1> QED  BY <1>1, Invariant, PTL DEF Spec, DescriptorsStable, StableStep
==============================================================================
