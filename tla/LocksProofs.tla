----------------------------- MODULE LocksProofs -----------------------------
(***************************************************************************)
(* The hart never spins on a lock, messages do not mix, and the levels of  *)
(* push_off nest, for any threads, any locks and any nesting that follows  *)
(* an order.                                                               *)
(***************************************************************************)
EXTENDS Locks, FiniteSetTheorems, TLAPS

Handler == {"irq", "ecall"}
FrameType == [kind : {"loop", "thread"} \cup Handler, at : {"out", "read", "cas", "drop"},
              old : {0, 1}, want : Region, held : Seq(Region)]

TypeInv ==
  /\ SIE \in {0, 1} /\ INTENA \in {0, 1} /\ NOFF \in Nat
  /\ locked \subseteq Lock /\ on \in Ctx
  /\ top \in [Ctx -> FrameType] /\ below \in [Ctx -> Seq(FrameType)]
  /\ saved \in [Thread -> {0, 1}]

\* The interrupt state outside of push_off.
Base(f) == IF f.kind \in Handler THEN 0 ELSE 1

\* The loop is the scheduler's, and only its.
Foreign(c) == IF c = "scheduler" THEN "thread" ELSE "loop"

\* A trap is taken with interrupts on, so on top of code in no region, and at
\* most once per stack.
BelowInv == \A c \in Ctx :
  /\ top[c].kind # Foreign(c)
  /\ top[c].kind \notin Handler => below[c] = <<>>
  /\ top[c].kind \in Handler =>
       /\ Len(below[c]) = 1
       /\ below[c][1].kind \notin Handler /\ below[c][1].kind # Foreign(c)
       /\ below[c][1].held = <<>> /\ below[c][1].at \in {"out", "read"}
       /\ below[c][1].at = "read" => below[c][1].old = 1

\* What does not have the hart is in a switch.
ParkedInv == \A c \in Ctx \ {on} :
  /\ top[c].at = "out" /\ top[c].held = <<"off">>
  /\ c = "scheduler" => top[c].kind = "loop"
  /\ c \in Thread => saved[c] = Base(top[c])

\* The regions of the running frame are entered in order.
OrderInv ==
  /\ \A i, j \in 1..Len(Top.held) : i < j => Rank[Top.held[i]] < Rank[Top.held[j]]
  /\ Top.at \in {"read", "cas"} => \A i \in 1..Len(Top.held) : Rank[Top.held[i]] < Rank[Top.want]
  /\ Top.at = "cas" => Top.want \in Lock
  /\ Top.at = "drop" => Top.held # <<>>

\* The locks that are taken are those the running frame is in.
Holding == IF Top.at = "drop" THEN Len(Top.held) - 1 ELSE Len(Top.held)
LockInv == \A l \in Lock : l \in locked <=> \E i \in 1..Holding : Top.held[i] = l

\* The depth counts its regions, and the intent is that of its kind.
DepthInv ==
  /\ NOFF = IF Top.at = "cas" THEN Len(Top.held) + 1 ELSE Len(Top.held)
  /\ NOFF > 0 => SIE = 0
  /\ NOFF > 0 /\ Top.kind # "loop" => INTENA = Base(Top)
  /\ NOFF = 0 /\ Top.kind # "loop" /\ panicked = "no" => SIE = Base(Top)
  /\ NOFF = 0 /\ Top.at = "read" => Top.old = Base(Top)

\* Only the running frame can have begun a message, under the console lock.
HalfInv ==
  \/ half = {}
  \/ half = {Here} /\ Top.at = "out" /\ Top.held # <<>> /\ Inner(Top) = "CONSOLE"

IInv == TypeInv /\ BelowInv /\ ParkedInv /\ OrderInv /\ LockInv /\ DepthInv /\ HalfInv

------------------------------------------------------------------------------
(* Steps of the running frame.                                              *)

\* What a new top frame leaves as it was.
LEMMA PutTop ==
  ASSUME TypeInv, NEW f \in FrameType, Put(f), on' = on
  PROVE  /\ top' \in [Ctx -> FrameType] /\ below' = below /\ Top' = f
         /\ \A c \in Ctx \ {on} : top'[c] = top[c]
BY DEF TypeInv, Put, Top

\* The other contexts, and the frames below, stay right.
LEMMA PutOthers ==
  ASSUME TypeInv, BelowInv, ParkedInv, NEW f \in FrameType, f.kind = Top.kind,
         Put(f), on' = on, saved' = saved
  PROVE  BelowInv' /\ ParkedInv'
<1>1. \A c \in Ctx : top'[c].kind = top[c].kind
  BY PutTop DEF Top
<1>2. BelowInv'
  BY <1>1, PutTop DEF BelowInv
<1>3. ParkedInv'
  BY <1>1, PutTop DEF ParkedInv, Base
<1> QED  BY <1>2, <1>3

LEMMA TopType ==
  ASSUME TypeInv
  PROVE  /\ Top \in FrameType /\ Top.old \in {0, 1} /\ Top.want \in Region
         /\ Top.kind \in {"loop", "thread"} \cup Handler
         /\ Len(Top.held) \in Nat /\ (Len(Top.held) = 0 <=> Top.held = <<>>)
         /\ \A i \in 1..Len(Top.held) : Top.held[i] \in Region /\ Rank[Top.held[i]] \in Nat
         /\ \A r \in Region : Rank[r] \in Nat
<1>1. Top \in FrameType
  BY DEF TypeInv, Top
<1>2. Top.held \in Seq(Region)
  BY <1>1 DEF FrameType
<1>3. Len(Top.held) \in Nat /\ (Len(Top.held) = 0 <=> Top.held = <<>>)
  BY <1>2
<1>4. \A i \in 1..Len(Top.held) : Top.held[i] \in Region
  BY <1>2
<1> QED  BY <1>1, <1>3, <1>4, LocksAssumption DEF FrameType

\* The frame that entered its wanted region.
LEMMA EnteredHeld ==
  ASSUME NEW f \in FrameType
  PROVE  /\ Entered(f) \in FrameType /\ Entered(f).kind = f.kind /\ Entered(f).at = "out"
         /\ Entered(f).held # <<>>
         /\ Len(Entered(f).held) = Len(f.held) + 1
         /\ \A i \in 1..Len(f.held) : Entered(f).held[i] = f.held[i]
         /\ Entered(f).held[Len(f.held) + 1] = f.want
<1>1. f.want \in Region /\ f.held \in Seq(Region) /\ "off" \in Region
  BY DEF FrameType, Region, Bare
<1>2. Append(f.held, f.want) \in Seq(Region)
  BY <1>1
<1>3. Entered(f) \in FrameType
  BY <1>1, <1>2, ZenonT(60) DEF FrameType, Entered
<1>4. /\ Entered(f).kind = f.kind /\ Entered(f).at = "out"
      /\ Entered(f).held = Append(f.held, f.want)
  BY DEF Entered, FrameType
<1> QED  BY <1>1, <1>2, <1>3, <1>4

\* Regions in order, with one of a higher rank entered last.
LEMMA Extended ==
  ASSUME NEW h, NEW k, NEW w, NEW n \in Nat, Len(h) = n, Len(k) = n + 1,
         \A i \in 1..n : k[i] = h[i] /\ Rank[h[i]] \in Nat,
         k[n + 1] = w, Rank[w] \in Nat,
         \A i, j \in 1..n : i < j => Rank[h[i]] < Rank[h[j]],
         \A i \in 1..n : Rank[h[i]] < Rank[w]
  PROVE  /\ \A i, j \in 1..Len(k) : i < j => Rank[k[i]] < Rank[k[j]]
         /\ \A x : (\E i \in 1..Len(k) : k[i] = x) <=> (x = w \/ \E i \in 1..n : h[i] = x)
<1>1. \A i \in 1..(n + 1) : i \in 1..n \/ i = n + 1
  OBVIOUS
<1>2. ASSUME NEW i \in 1..(n + 1), NEW j \in 1..(n + 1), i < j
      PROVE  Rank[k[i]] < Rank[k[j]]
  <2>1. i \in 1..n  BY <1>2
  <2>2. CASE j \in 1..n  BY <1>2, <2>1, <2>2
  <2>3. CASE j = n + 1  BY <2>1, <2>3
  <2> QED  BY <1>1, <2>2, <2>3
<1>3. ASSUME NEW x
      PROVE  (\E i \in 1..(n + 1) : k[i] = x) <=> (x = w \/ \E i \in 1..n : h[i] = x)
  <2>1. n + 1 \in 1..(n + 1) /\ \A i \in 1..n : i \in 1..(n + 1)
    OBVIOUS
  <2> QED  BY <1>1, <2>1
<1> QED  BY <1>2, <1>3

\* Entering the wanted region keeps the order and adds it to those entered.
LEMMA EnteredOrder ==
  ASSUME TypeInv, OrderInv, Top.at \in {"read", "cas"}, Top' = Entered(Top)
  PROVE  /\ OrderInv'
         /\ Top'.kind = Top.kind /\ Top'.at = "out" /\ Len(Top'.held) = Len(Top.held) + 1
         /\ \A x : (\E i \in 1..Len(Top'.held) : Top'.held[i] = x)
                  <=> (x = Top.want \/ \E i \in 1..Len(Top.held) : Top.held[i] = x)
<1> DEFINE h == Top.held
           k == Entered(Top).held
           w == Top.want
           n == Len(h)
<1>1. /\ Entered(Top).kind = Top.kind /\ Entered(Top).at = "out"
      /\ Len(k) = n + 1 /\ k[n + 1] = w /\ \A i \in 1..n : k[i] = h[i]
  BY TopType, EnteredHeld
<1>2. n \in Nat /\ Rank[w] \in Nat /\ \A i \in 1..n : Rank[h[i]] \in Nat
  BY TopType
<1>3. /\ \A i, j \in 1..n : i < j => Rank[h[i]] < Rank[h[j]]
      /\ \A i \in 1..n : Rank[h[i]] < Rank[w]
  BY DEF OrderInv
<1>4. /\ \A i, j \in 1..Len(k) : i < j => Rank[k[i]] < Rank[k[j]]
      /\ \A x : (\E i \in 1..Len(k) : k[i] = x) <=> (x = w \/ \E i \in 1..n : h[i] = x)
  <2> HIDE DEF h, k, w
  <2>1. Len(h) = n  OBVIOUS
  <2> HIDE DEF n
  <2> QED  BY <1>1, <1>2, <1>3, <2>1, Extended, SMTT(60)
<1>5. OrderInv'
  BY <1>1, <1>4 DEF OrderInv
<1> QED  BY <1>1, <1>4, <1>5

LEMMA push_off_read_OK ==
  ASSUME IInv, NEW r \in Region, push_off_read(r)
  PROVE  IInv'
<1> USE DEF IInv
<1> DEFINE f == [Top EXCEPT !.at = "read", !.old = SIE, !.want = r]
<1>1. /\ Top.at = "out" /\ r \in Enters(Top) /\ Here \notin half /\ panicked = "no"
      /\ Top.kind = "loop" /\ Top.held = <<>> => SIE = 1
      /\ Put(f) /\ UNCHANGED <<SIE, NOFF, INTENA, locked, on, saved, half, panicked>>
  BY DEF push_off_read, At, intr
<1>2. f \in FrameType /\ f.kind = Top.kind /\ f.held = Top.held /\ f.at = "read"
      /\ f.old = SIE /\ f.want = r
  BY TopType, ZenonT(60) DEF FrameType, TypeInv
<1>3. Top' = f /\ top' \in [Ctx -> FrameType] /\ below' = below
  BY <1>1, <1>2, PutTop
<1>4. TypeInv'
  BY <1>1, <1>3 DEF TypeInv
<1>5. BelowInv' /\ ParkedInv'
  BY <1>1, <1>2, PutOthers, ZenonT(60)
<1>6. OrderInv'
  <2>1. Top.held # <<>> => <<Inner(Top), r>> \in Nest
    BY <1>1 DEF Enters
  <2>2. Top.held # <<>> => Rank[Inner(Top)] < Rank[r]
    BY <2>1, LocksAssumption, SMTT(30)
  <2>3. \A i \in 1..Len(Top.held) : Rank[Top.held[i]] < Rank[r]
    BY <2>2, TopType, SMTT(60) DEF OrderInv, Inner
  <2> QED  BY <1>2, <1>3, <2>3 DEF OrderInv
<1>7. LockInv'
  BY <1>1, <1>2, <1>3 DEF LockInv, Holding
<1>8. DepthInv'
  <2>1. NOFF = Len(Top.held) /\ NOFF' = NOFF
    BY <1>1, SMTT(30) DEF DepthInv
  <2>2. NOFF = 0 => SIE = Base(Top)
    BY <1>1, <2>1, TopType, SMTT(30) DEF DepthInv, Base, Handler
  <2> QED  BY <1>1, <1>2, <1>3, <2>1, <2>2 DEF DepthInv, Base
<1>9. HalfInv'
  BY <1>1 DEF HalfInv
<1> QED  BY <1>4, <1>5, <1>6, <1>7, <1>8, <1>9

LEMMA push_off_OK ==
  ASSUME IInv, push_off
  PROVE  IInv'
<1> USE DEF IInv
<1> DEFINE g == [Top EXCEPT !.at = "cas", !.old = 0]
<1> DEFINE f == IF Top.want \in Bare THEN Entered(Top) ELSE g
<1>1. /\ Top.at = "read" /\ panicked = "no" /\ SIE' = 0 /\ NOFF' = NOFF + 1
      /\ INTENA' = IF NOFF = 0 THEN Top.old ELSE INTENA
      /\ Put(f) /\ UNCHANGED <<locked, on, saved, half, panicked>>
  BY DEF push_off, At
<1>2. /\ g \in FrameType /\ g.kind = Top.kind /\ g.held = Top.held /\ g.at = "cas"
      /\ g.want = Top.want
  BY TopType, ZenonT(60) DEF FrameType
<1>3. f \in FrameType /\ f.kind = Top.kind
  BY <1>2, TopType, EnteredHeld
<1>4. Top' = f /\ top' \in [Ctx -> FrameType] /\ below' = below
  BY <1>1, <1>3, PutTop
<1>5. TypeInv'
  BY <1>1, <1>4, TopType DEF TypeInv
<1>6. BelowInv' /\ ParkedInv'
  BY <1>1, <1>3, PutOthers, ZenonT(60)
<1>7. HalfInv'
  BY <1>1 DEF HalfInv
<1>8. CASE Top.want \in Bare
  <2>1. Top' = Entered(Top) /\ Top.at \in {"read", "cas"}
    BY <1>1, <1>4, <1>8, SMTT(30)
  <2>2. OrderInv'
    BY <2>1, EnteredOrder, SMTT(30)
  <2>3. LockInv'
    BY <1>1, <1>8, <2>1, EnteredOrder, LocksAssumption, ZenonT(60) DEF LockInv, Holding
  <2>4. DepthInv'
    BY <1>1, <2>1, TopType, EnteredOrder DEF DepthInv, Base
  <2> QED  BY <1>5, <1>6, <1>7, <2>2, <2>3, <2>4
<1>9. CASE Top.want \notin Bare
  <2>1. Top' = g  BY <1>4, <1>9
  <2>2. OrderInv'
    BY <1>1, <1>2, <1>9, <2>1, TopType DEF OrderInv, FrameType, Region
  <2>3. LockInv'
    BY <1>1, <1>2, <2>1, SMTT(30) DEF LockInv, Holding
  <2>4. DepthInv'
    BY <1>1, <1>2, <2>1, TopType, SMTT(30) DEF DepthInv, Base
  <2> QED  BY <1>5, <1>6, <1>7, <2>2, <2>3, <2>4
<1> QED  BY <1>8, <1>9

\* The lock is free, and its owner is the running frame afterwards.
LEMMA lock_OK ==
  ASSUME IInv, lock
  PROVE  IInv'
<1> USE DEF IInv
<1>1. /\ Top.at = "cas" /\ panicked = "no" /\ locked' = locked \cup {Top.want}
      /\ Put(Entered(Top)) /\ UNCHANGED <<SIE, NOFF, INTENA, on, saved, half, panicked>>
  BY SMTT(30) DEF lock, At, intr
<1>2. Entered(Top) \in FrameType /\ Entered(Top).kind = Top.kind
  BY TopType, EnteredHeld, SMTT(30)
<1>3. Top' = Entered(Top) /\ top' \in [Ctx -> FrameType] /\ below' = below
  BY <1>1, <1>2, PutTop, SMTT(30)
<1>4. TypeInv'
  BY <1>1, <1>3 DEF TypeInv, OrderInv
<1>5. BelowInv' /\ ParkedInv'
  BY <1>1, <1>2, PutOthers
<1>6. OrderInv'
  BY <1>1, <1>3, EnteredOrder, SMTT(30)
<1>7. LockInv'
  BY <1>1, <1>3, EnteredOrder, ZenonT(60) DEF LockInv, Holding
<1>8. DepthInv'
  BY <1>1, <1>3, TopType, EnteredOrder DEF DepthInv, Base
<1>9. HalfInv'
  BY <1>1 DEF HalfInv
<1> QED  BY <1>4, <1>5, <1>6, <1>7, <1>8, <1>9, SMTT(30)

LEMMA drop_OK ==
  ASSUME IInv, drop
  PROVE  IInv'
<1> USE DEF IInv
<1> DEFINE f == [Top EXCEPT !.at = "drop"]
<1>1. /\ Top.at = "out" /\ Top.held # <<>> /\ Here \notin half /\ panicked = "no"
      /\ locked' = locked \ {Inner(Top)}
      /\ Put(f) /\ UNCHANGED <<SIE, NOFF, INTENA, on, saved, half, panicked>>
  BY DEF drop, At, intr
<1>2. f \in FrameType /\ f.kind = Top.kind /\ f.held = Top.held /\ f.at = "drop"
  BY TopType DEF FrameType
<1>3. Top' = f /\ top' \in [Ctx -> FrameType] /\ below' = below
  BY <1>1, <1>2, PutTop, SMTT(30)
<1>4. TypeInv'
  BY <1>1, <1>3, SMTT(30) DEF TypeInv
<1>5. BelowInv' /\ ParkedInv'
  BY <1>1, <1>2, PutOthers, ZenonT(60)
<1>6. OrderInv'
  BY <1>1, <1>2, <1>3 DEF OrderInv
<1>7. LockInv'
  <2>1. Len(Top.held) \in Nat /\ Len(Top.held) > 0
    BY <1>1, TopType, SMTT(30)
  <2>2. \A i \in 1..(Len(Top.held) - 1) : Top.held[i] # Top.held[Len(Top.held)]
    BY <2>1, TopType, SMTT(30) DEF OrderInv
  <2>3. Holding = Len(Top.held) /\ Holding' = Len(Top.held) - 1
    BY <1>1, <1>2, <1>3, SMTT(30) DEF Holding
  <2>4. \A l : (\E i \in 1..(Len(Top.held) - 1) : Top.held[i] = l)
                <=> (l # Inner(Top) /\ \E i \in 1..Len(Top.held) : Top.held[i] = l)
    BY <2>1, <2>2, SMTT(30) DEF Inner
  <2>5. \A l \in Lock : l \in locked <=> \E i \in 1..Len(Top.held) : Top.held[i] = l
    BY <2>3, SMTT(30) DEF LockInv
  <2>6. \A l \in Lock : l \in locked' <=> \E i \in 1..(Len(Top.held) - 1) : Top.held[i] = l
    BY <1>1, <2>4, <2>5, ZenonT(60)
  <2> QED  BY <1>2, <1>3, <2>3, <2>6 DEF LockInv
<1>8. DepthInv'
  BY <1>1, <1>2, <1>3, TopType DEF DepthInv, Base
<1>9. HalfInv'
  BY <1>1, SMTT(30) DEF HalfInv
<1> QED  BY <1>4, <1>5, <1>6, <1>7, <1>8, <1>9

\* The last region is left; what is held are the outer ones.
LEMMA pop_off_OK ==
  ASSUME IInv, pop_off
  PROVE  IInv'
<1> USE DEF IInv
<1> DEFINE f == [Top EXCEPT !.at = "out", !.held = Outer(Top)]
<1>1. /\ Top.at = "drop" /\ panicked = "no" /\ NOFF' = NOFF - 1
      /\ SIE' = IF NOFF = 1 /\ INTENA = 1 THEN 1 ELSE SIE
      /\ Put(f) /\ UNCHANGED <<INTENA, locked, on, saved, half, panicked>>
  BY SMTT(30) DEF pop_off, At
<1>2. /\ Outer(Top) \in Seq(Region) /\ Len(Outer(Top)) = Len(Top.held) - 1
      /\ \A i \in 1..(Len(Top.held) - 1) : Outer(Top)[i] = Top.held[i]
      /\ Len(Top.held) \in Nat \ {0} /\ NOFF = Len(Top.held)
  <2>1. Top.held \in Seq(Region) /\ Len(Top.held) \in Nat \ {0}
    BY <1>1, TopType DEF OrderInv, FrameType
  <2>2. NOFF = Len(Top.held)
    BY <1>1, SMTT(30) DEF DepthInv
  <2> QED  BY <2>1, <2>2, SMTT(30) DEF Outer
<1>3. f \in FrameType /\ f.kind = Top.kind /\ f.held = Outer(Top) /\ f.at = "out"
  BY <1>2, TopType, ZenonT(60) DEF FrameType
<1>4. Top' = f /\ top' \in [Ctx -> FrameType] /\ below' = below
  BY <1>1, <1>3, PutTop
<1>5. TypeInv'
  BY <1>1, <1>2, <1>4, SMTT(30) DEF TypeInv
<1>6. BelowInv' /\ ParkedInv'
  BY <1>1, <1>3, PutOthers, ZenonT(60)
<1>7. OrderInv'
  BY <1>2, <1>3, <1>4, SMTT(60) DEF OrderInv
<1>8. LockInv'
  <2>1. Holding = Len(Top.held) - 1 /\ Holding' = Len(Top.held) - 1
    BY <1>1, <1>2, <1>3, <1>4 DEF Holding
  <2>2. \A l \in Lock : l \in locked <=> \E i \in 1..(Len(Top.held) - 1) : Outer(Top)[i] = l
    BY <1>2, <2>1, SMTT(60) DEF LockInv
  <2> QED  BY <1>1, <1>3, <1>4, <2>1, <2>2 DEF LockInv
<1>9. DepthInv'
  <2>1. SIE = 0 /\ (Top.kind # "loop" => INTENA = Base(Top)) /\ Base(Top) \in {0, 1}
    BY <1>2 DEF DepthInv, Base
  <2>2. NOFF' = Len(Top'.held) /\ NOFF' \in Nat
    BY <1>1, <1>2, <1>3, <1>4
  <2>3. NOFF \in Nat \ {0} /\ NOFF' = NOFF - 1 /\ SIE' = IF NOFF = 1 /\ INTENA = 1 THEN 1 ELSE SIE
    BY <1>1, <1>2
  <2>4. /\ NOFF' > 0 => SIE' = 0
        /\ NOFF' = 0 /\ Top.kind # "loop" => SIE' = Base(Top)
    BY <2>1, <2>3
  <2>5. Base(Top)' = Base(Top) /\ Top'.kind = Top.kind /\ Top'.at = "out"
    BY <1>3, <1>4 DEF Base
  <2> QED  BY <1>1, <2>1, <2>2, <2>3, <2>4, <2>5 DEF DepthInv
<1>10. HalfInv'
  BY <1>1 DEF HalfInv
<1> QED  BY <1>5, <1>6, <1>7, <1>8, <1>9, <1>10

LEMMA print_OK ==
  ASSUME IInv, print
  PROVE  IInv'
<1> USE DEF IInv
<1>1. /\ Top.at = "out" /\ Top.held # <<>> /\ Inner(Top) = "CONSOLE"
      /\ half' = IF Here \in half THEN half \ {Here} ELSE half \cup {Here}
      /\ UNCHANGED <<SIE, NOFF, INTENA, locked, on, top, below, saved, panicked>>
  BY DEF print, At, intr
<1>2. UNCHANGED <<Top, Here>>
  BY <1>1 DEF Top, Here
<1>3. TypeInv' /\ BelowInv' /\ ParkedInv'
  BY <1>1 DEF TypeInv, BelowInv, ParkedInv
<1>4. OrderInv' /\ LockInv' /\ DepthInv'
  BY <1>1, <1>2 DEF OrderInv, LockInv, Holding, DepthInv
<1>5. half' = {} \/ half' = {Here}
  BY <1>1 DEF HalfInv
<1>6. HalfInv'
  BY <1>1, <1>2, <1>5 DEF HalfInv, Inner
<1> QED  BY <1>3, <1>4, <1>6

------------------------------------------------------------------------------
(* Traps, switches and the panic.                                           *)

\* A trap comes with interrupts on, so on top of code in no region.
LEMMA trap_OK ==
  ASSUME IInv, NEW kind \in Handler, trap(kind)
  PROVE  IInv'
<1> USE DEF IInv
<1>1. /\ panicked = "no" /\ SIE = 1 /\ SIE' = 0
      /\ top' = [top EXCEPT ![on] = Frame(kind, <<>>)]
      /\ below' = [below EXCEPT ![on] = Append(@, Top)]
      /\ UNCHANGED <<NOFF, INTENA, locked, on, saved, half, panicked>>
  BY DEF trap
<1>2. NOFF = 0 /\ Len(Top.held) = 0 /\ Top.held = <<>> /\ Top.at \in {"out", "read"}
  <2>1. NOFF = 0
    BY <1>1 DEF DepthInv, TypeInv
  <2>2. Top.at # "cas" /\ Len(Top.held) = 0 /\ Top.held = <<>>
    BY <2>1, TopType DEF DepthInv
  <2>3. Top.at # "drop"
    BY <2>2 DEF OrderInv
  <2> QED  BY <2>1, <2>2, <2>3, TopType DEF FrameType
<1>3. Top.kind \notin Handler /\ kind # Foreign(on)
  BY <1>1, <1>2 DEF DepthInv, Base, Handler, Foreign
<1>4. below[on] = <<>> /\ on \in Ctx /\ Top.kind # Foreign(on)
  BY <1>3 DEF BelowInv, Top, TypeInv
<1>5. Frame(kind, <<>>) \in FrameType
  BY DEF Frame, FrameType, Region, Bare
<1>6. Top' = Frame(kind, <<>>) /\ below'[on] = <<Top>>
  BY <1>1, <1>4 DEF Top, TypeInv
<1>7. /\ Top'.kind = kind /\ Top'.at = "out" /\ Top'.held = <<>> /\ Len(Top'.held) = 0
  BY <1>6 DEF Frame
<1>8. TypeInv'
  <2>1. <<Top>> \in Seq(FrameType)  BY TopType, SMTT(30)
  <2> QED  BY <1>1, <1>4, <1>5, <2>1 DEF TypeInv
<1>9. BelowInv'
  <2>1. Top.at = "read" => Top.old = 1
    BY <1>2, <1>3 DEF DepthInv, Base
  <2>2. Len(below'[on]) = 1 /\ below'[on][1] = Top
    BY <1>6
  <2>3. ASSUME NEW c \in Ctx, c # on
        PROVE  top'[c] = top[c] /\ below'[c] = below[c]
    BY <1>1, <2>3, SMTT(30) DEF TypeInv
  <2>4. top'[on].kind \in Handler /\ top'[on].kind # Foreign(on)
    BY <1>1, <1>3, <1>7, SMTT(30) DEF Top
  <2> QED  BY <1>2, <1>3, <1>4, <2>1, <2>2, <2>3, <2>4 DEF BelowInv
<1>10. ParkedInv'
  BY <1>1 DEF ParkedInv, TypeInv, Base
<1>11. OrderInv'
  BY <1>7 DEF OrderInv
<1>12. locked = {}
  BY <1>2 DEF LockInv, Holding, TypeInv
<1>13. LockInv'
  BY <1>1, <1>7, <1>12, SMTT(30) DEF LockInv, Holding
<1>14. DepthInv'
  BY <1>1, <1>2, <1>7 DEF DepthInv, Base
<1>15. HalfInv'
  BY <1>1, <1>2 DEF HalfInv
<1> QED  BY <1>8, <1>9, <1>10, <1>11, <1>13, <1>14, <1>15

\* The interrupted code goes on where it was, with interrupts on again.
LEMMA trap_return_OK ==
  ASSUME IInv, trap_return
  PROVE  IInv'
<1> USE DEF IInv
<1>1. /\ Top.at = "out" /\ panicked = "no" /\ Top.kind \in Handler /\ Top.held = <<>> /\ SIE' = 1
      /\ top' = [top EXCEPT ![on] = below[on][Len(below[on])]]
      /\ below' = [below EXCEPT ![on] = SubSeq(@, 1, Len(@) - 1)]
      /\ UNCHANGED <<NOFF, INTENA, locked, on, saved, half, panicked>>
  BY DEF trap_return, At, Handler
<1> DEFINE f == below[on][1]
<1>2. /\ Len(below[on]) = 1 /\ f.kind \notin Handler /\ f.held = <<>> /\ f.at \in {"out", "read"}
      /\ f.at = "read" => f.old = 1
      /\ f.kind # Foreign(on)
  BY <1>1 DEF BelowInv, Top, TypeInv
<1>3. f \in FrameType /\ below[on] \in Seq(FrameType) /\ on \in Ctx
  <2>1. below[on] \in Seq(FrameType) /\ on \in Ctx
    BY DEF TypeInv
  <2> QED  BY <1>2, <2>1
<1>4. Top' = f /\ below'[on] = <<>> /\ top'[on] = f
  <2>1. SubSeq(below[on], 1, 0) = <<>>
    BY <1>3, SMTT(30)
  <2> QED  BY <1>1, <1>2, <1>3, <2>1, SMTT(30) DEF Top, TypeInv
<1>5. NOFF = 0 /\ Len(f.held) = 0
  BY <1>1, <1>2, TopType, SMTT(30) DEF DepthInv
<1>6. TypeInv'
  <2>1. <<>> \in Seq(FrameType)  OBVIOUS
  <2>2. below' = [below EXCEPT ![on] = <<>>]
    BY <1>1, <1>3, <1>4, ZenonT(60) DEF TypeInv
  <2> QED  BY <1>1, <1>2, <1>3, <2>1, <2>2 DEF TypeInv
<1>7. BelowInv'
  <2>1. ASSUME NEW c \in Ctx, c # on
        PROVE  top'[c] = top[c] /\ below'[c] = below[c]
    BY <1>1, <2>1, SMTT(30) DEF TypeInv
  <2> QED  BY <1>2, <1>4, <2>1 DEF BelowInv
<1>8. ParkedInv'
  BY <1>1, SMTT(30) DEF ParkedInv, TypeInv, Base
<1>9. OrderInv'
  BY <1>2, <1>4, <1>5, SMTT(60) DEF OrderInv
<1>10. locked = {}
  BY <1>1, TopType DEF LockInv, Holding, TypeInv
<1>11. LockInv'
  BY <1>1, <1>2, <1>4, <1>5, <1>10, SMTT(30) DEF LockInv, Holding
<1>12. DepthInv'
  BY <1>1, <1>2, <1>4, <1>5, SMTT(30) DEF DepthInv, Base
<1>13. HalfInv'
  BY <1>1, SMTT(30) DEF HalfInv
<1> QED  BY <1>6, <1>7, <1>8, <1>9, <1>11, <1>12, <1>13, SMTT(30)

\* A switch is between frames that are both in one bare push_off.
LEMMA SwitchedOK ==
  ASSUME TypeInv, OrderInv, LockInv, DepthInv, Top.at = "out", Top.held = <<"off">>,
         Top'.at = "out", Top'.held = <<"off">>,
         Top'.kind # "loop" => INTENA' = IF Top'.kind \in Handler THEN 0 ELSE 1,
         UNCHANGED <<SIE, NOFF, locked>>
  PROVE  OrderInv' /\ LockInv' /\ DepthInv'
<1>1. Len(Top.held) = 1 /\ Len(Top'.held) = 1 /\ Holding = 1 /\ Holding' = 1 /\ NOFF = 1
  BY SMTT(30) DEF DepthInv, Holding
<1>2. OrderInv'
  BY <1>1, SMTT(30) DEF OrderInv
<1>3. LockInv'
  BY <1>1, SMTT(30) DEF LockInv
<1>4. DepthInv'
  <2>1. NOFF' = NOFF /\ SIE' = SIE
    OBVIOUS
  <2>2. NOFF > 0 => SIE = 0
    BY DEF DepthInv
  <2>3. NOFF' = 1 /\ SIE' = 0
    BY <1>1, <2>1, <2>2
  <2> QED  BY <1>1, <2>3, ZenonT(60) DEF DepthInv, Base
<1> QED  BY <1>2, <1>3, <1>4, SMTT(30)

\* A thread gives the hart to the scheduler loop.
LEMMA sched_OK ==
  ASSUME IInv, sched
  PROVE  IInv'
<1> USE DEF IInv
<1>1. /\ Top.at = "out" /\ Top.held = <<"off">> /\ on \in Thread /\ on' = "scheduler"
      /\ saved' = [saved EXCEPT ![on] = INTENA]
      /\ UNCHANGED <<SIE, NOFF, INTENA, locked, top, below, half, panicked>>
  BY SMTT(30) DEF sched, MaySwitch, At, intr
<1>2. "scheduler" \in Ctx \ {on} /\ on \in Ctx /\ NOFF = 1
  BY <1>1, LocksAssumption, SMTT(30) DEF Ctx, DepthInv
<1>3. Top'.at = "out" /\ Top'.held = <<"off">> /\ Top'.kind = "loop"
  BY <1>1, <1>2, SMTT(30) DEF ParkedInv, Top
<1>4. TypeInv'
  BY <1>1, <1>2, SMTT(30) DEF TypeInv
<1>5. BelowInv'
  BY <1>1, SMTT(30) DEF BelowInv
<1>6. ParkedInv'
  <2>1. Top.kind # "loop"
    BY <1>1, <1>2, LocksAssumption, SMTT(30) DEF BelowInv, Foreign, Top
  <2>2. INTENA = Base(Top)
    BY <1>2, <2>1, SMTT(30) DEF DepthInv
  <2>3. saved'[on] = Base(top'[on]) /\ top'[on].at = "out" /\ top'[on].held = <<"off">>
    BY <1>1, <2>2 DEF TypeInv, Top, Base
  <2>4. \A c \in Thread \ {on} : saved'[c] = saved[c]
    BY <1>1, SMTT(30) DEF TypeInv
  <2> QED  BY <1>1, <2>3, <2>4, LocksAssumption, SMTT(30) DEF ParkedInv, Ctx, Base
<1>7. half = {}
  BY <1>1, LocksAssumption, SMTT(30) DEF HalfInv, Inner, Bare
<1>8. HalfInv'
  BY <1>1, <1>7, SMTT(30) DEF HalfInv
<1>9. OrderInv' /\ LockInv' /\ DepthInv'
  BY <1>1, <1>2, <1>3, SwitchedOK, SMTT(30)
<1> QED  BY <1>4, <1>5, <1>6, <1>8, <1>9, SMTT(30)

\* The scheduler loop gives the hart to a thread.
LEMMA run_OK ==
  ASSUME IInv, NEW t \in Thread, run(t)
  PROVE  IInv'
<1> USE DEF IInv
<1>1. /\ Top.at = "out" /\ Top.held = <<"off">> /\ on = "scheduler" /\ on' = t
      /\ below[on] = <<>> /\ INTENA' = saved[t]
      /\ UNCHANGED <<SIE, NOFF, locked, top, below, saved, half, panicked>>
  BY DEF run, MaySwitch, At
<1>2. t \in Ctx \ {on} /\ on \in Ctx /\ t # "scheduler"
  BY <1>1, LocksAssumption, SMTT(30) DEF Ctx
<1>3. Top'.at = "out" /\ Top'.held = <<"off">> /\ INTENA' = Base(Top')
  BY <1>1, <1>2, SMTT(30) DEF ParkedInv, Top, Base
<1>4. TypeInv'
  BY <1>1, <1>2, SMTT(30) DEF TypeInv
<1>5. BelowInv'
  BY <1>1, ZenonT(60) DEF BelowInv
<1>6. ParkedInv'
  <2>1. Top.kind = "loop"
    <3>1. Top.kind \notin Handler
      BY <1>1, <1>2, SMTT(60) DEF BelowInv, Top
    <3>2. Top.kind # "thread"
      BY <1>1, <1>2, ZenonT(60) DEF BelowInv, Foreign, Top
    <3> QED  BY <3>1, <3>2, TopType, SMTT(30)
  <2>2. SUFFICES ASSUME NEW c \in Ctx \ {t}
                 PROVE  /\ top[c].at = "out" /\ top[c].held = <<"off">>
                        /\ c = "scheduler" => top[c].kind = "loop"
                        /\ c \in Thread => saved[c] = Base(top[c])
    BY <1>1, ZenonT(60) DEF ParkedInv, Base
  <2>3. CASE c = on
    BY <1>1, <2>1, <2>3, LocksAssumption, ZenonT(60) DEF Top
  <2>4. CASE c # on
    BY <2>4, SMTT(30) DEF ParkedInv
  <2> QED  BY <2>3, <2>4, ZenonT(60)
<1>7. half = {}
  BY <1>1, LocksAssumption, SMTT(30) DEF HalfInv, Inner, Bare
<1>8. HalfInv'
  BY <1>1, <1>7, SMTT(30) DEF HalfInv
<1>9. OrderInv' /\ LockInv' /\ DepthInv'
  BY <1>1, <1>3, SwitchedOK, SMTT(30) DEF Base
<1> QED  BY <1>4, <1>5, <1>6, <1>8, <1>9, SMTT(30)

\* The scheduler loop enables interrupts, in no region.
LEMMA intr_on_OK ==
  ASSUME IInv, intr_on
  PROVE  IInv'
<1> USE DEF IInv
<1>1. /\ Top.at = "out" /\ Top.kind = "loop" /\ Top.held = <<>> /\ SIE' = 1
      /\ UNCHANGED <<NOFF, INTENA, locked, on, top, below, saved, half, panicked>>
  BY SMTT(30) DEF intr_on, At
<1>2. UNCHANGED <<Top, Here>> /\ NOFF = 0
  BY <1>1, TopType, ZenonT(60) DEF Top, Here, DepthInv
<1>3. TypeInv' /\ BelowInv' /\ ParkedInv'
  BY <1>1, ZenonT(60) DEF TypeInv, BelowInv, ParkedInv
<1>4. OrderInv' /\ LockInv' /\ HalfInv'
  BY <1>1, <1>2, ZenonT(60) DEF OrderInv, LockInv, Holding, HalfInv, Inner
<1>5. DepthInv'
  BY <1>1, <1>2, TopType, SMTT(60) DEF DepthInv, Base
<1> QED  BY <1>3, <1>4, <1>5, SMTT(30)

\* After a panic nothing of this changes but SIE, which is then 0.
LEMMA panic_OK ==
  ASSUME IInv, panic \/ print_emergency
  PROVE  IInv'
<1> USE DEF IInv
<1>1. /\ SIE' \in {0, SIE} /\ panicked' # "no"
      /\ UNCHANGED <<NOFF, INTENA, locked, on, top, below, saved, half>>
  BY SMTT(30) DEF panic, print_emergency, intr
<1>2. UNCHANGED <<Top, Here>>
  BY <1>1, SMTT(30) DEF Top, Here
<1>3. TypeInv' /\ BelowInv' /\ ParkedInv'
  BY <1>1, ZenonT(60) DEF TypeInv, BelowInv, ParkedInv
<1>4. OrderInv' /\ LockInv' /\ HalfInv'
  BY <1>1, <1>2, ZenonT(60) DEF OrderInv, LockInv, Holding, HalfInv, Inner
<1>5. DepthInv'
  BY <1>1, <1>2, SMTT(30) DEF DepthInv
<1> QED  BY <1>3, <1>4, <1>5, SMTT(30)

------------------------------------------------------------------------------
(* The theorems.                                                            *)

LEMMA InitInv == Init => IInv
<1> SUFFICES ASSUME Init PROVE IInv
  OBVIOUS
<1> USE DEF Init
<1>1. "off" \in Region /\ "scheduler" \in Ctx
  BY SMTT(30) DEF Region, Bare, Ctx
<1>2. Frame("loop", <<>>) \in FrameType /\ Frame("thread", <<"off">>) \in FrameType
  BY <1>1, SMTT(30) DEF Frame, FrameType
<1>3. /\ top["scheduler"] = Frame("loop", <<>>)
      /\ \A t \in Thread : top[t] = Frame("thread", <<"off">>)
  BY <1>1, LocksAssumption, SMTT(30) DEF Ctx
<1>4. TypeInv
  BY <1>1, <1>2, SMTT(30) DEF TypeInv
<1>5. Top.held = <<>> /\ Top.at = "out" /\ Top.kind = "loop"
  BY <1>3, SMTT(30) DEF Top, Frame
<1>6. BelowInv
  BY <1>3, SMTT(30) DEF BelowInv, Ctx, Frame, Foreign, Handler
<1>7. ParkedInv
  BY <1>3 DEF ParkedInv, Ctx, Frame, Base, Handler
<1>8. OrderInv /\ DepthInv /\ HalfInv
  BY <1>5 DEF OrderInv, DepthInv, HalfInv
<1>9. LockInv
  BY <1>5 DEF LockInv, Holding
<1> QED  BY <1>4, <1>6, <1>7, <1>8, <1>9, SMTT(30) DEF IInv

LEMMA NextInv == IInv /\ [Next]_vars => IInv'
<1> SUFFICES ASSUME IInv, [Next]_vars PROVE IInv'
  OBVIOUS
<1>1. ASSUME NEW r \in Region, push_off_read(r) PROVE IInv'
  BY <1>1, push_off_read_OK
<1>2. CASE push_off
  BY <1>2, push_off_OK
<1>3. CASE lock
  BY <1>3, lock_OK
<1>4. CASE drop
  BY <1>4, drop_OK
<1>5. CASE pop_off
  BY <1>5, pop_off_OK
<1>6. CASE print
  BY <1>6, print_OK
<1>7. ASSUME NEW kind \in {"irq", "ecall"}, trap(kind) PROVE IInv'
  BY <1>7, trap_OK DEF Handler
<1>8. CASE trap_return
  BY <1>8, trap_return_OK
<1>9. CASE sched
  BY <1>9, sched_OK
<1>10. ASSUME NEW t \in Thread, run(t) PROVE IInv'
  BY <1>10, run_OK
<1>11. CASE intr_on
  BY <1>11, intr_on_OK
<1>12. CASE panic \/ print_emergency
  BY <1>12, panic_OK
<1>13. CASE UNCHANGED vars
  <2>1. TypeInv' /\ BelowInv' /\ ParkedInv'
    BY <1>13, ZenonT(60) DEF vars, intr, IInv, TypeInv, BelowInv, ParkedInv, Base
  <2>2. Top' = Top
    BY <1>13, ZenonT(60) DEF vars, Top, Here
  <2>3. OrderInv' /\ LockInv'
    BY <1>13, <2>2, ZenonT(60) DEF vars, IInv, OrderInv, LockInv, Holding, Inner
  <2>4. DepthInv' /\ HalfInv'
    BY <1>13, <2>2, ZenonT(60) DEF vars, intr, IInv, DepthInv, HalfInv, Base, Here, Inner
  <2> QED
    BY <2>1, <2>3, <2>4, ZenonT(60) DEF IInv
<1> QED
  BY <1>1, <1>2, <1>3, <1>4, <1>5, <1>6, <1>7, <1>8, <1>9, <1>10, <1>11, <1>12, <1>13
     DEF Next, KernelStep

\* The inductive invariant: the locks taken are those of the running frame,
\* entered in order, and every other context is in a switch or under a trap
\* that found it in no region.
THEOREM Invariant == Spec => []IInv
  BY InitInv, NextInv, PTL DEF Spec

\* SpinLock::lock never finds its lock taken, for any threads, locks and any
\* nesting that follows an order.
THEOREM Unspun == Spec => []NeverSpins
<1>1. IInv => NeverSpins
  <2> SUFFICES ASSUME IInv, Top.at = "cas" PROVE Top.want \notin locked
    BY DEF NeverSpins
  <2>1. Top.want \in Lock /\ \A i \in 1..Len(Top.held) : Rank[Top.held[i]] < Rank[Top.want]
    BY DEF IInv, OrderInv
  <2>2. /\ Top.want \in Region /\ Len(Top.held) \in Nat
        /\ \A i \in 1..Len(Top.held) : Top.held[i] \in Region
    BY TopType DEF IInv
  <2>3. \A i \in 1..Len(Top.held) : Top.held[i] # Top.want
    BY <2>1, <2>2, LocksAssumption
  <2> QED  BY <2>1, <2>3 DEF IInv, LockInv, Holding
<1> QED  BY <1>1, Invariant, PTL

\* Messages of _print do not mix.
THEOREM WholeLines == Spec => []LinesWhole
<1>1. IInv => LinesWhole
  <2> SUFFICES ASSUME IInv PROVE Cardinality(half) <= 1
    BY DEF LinesWhole
  <2>1. CASE half = {}
    BY <2>1, FS_EmptySet
  <2>2. CASE half = {Here}
    BY <2>2, FS_Singleton
  <2> QED  BY <2>1, <2>2 DEF IInv, HalfInv
<1> QED  BY <1>1, Invariant, PTL

\* The asserts of pop_off and sched hold, and the interrupt state that the
\* outermost push_off saw is restored.
THEOREM NestedSections == Spec => []SectionsNest
<1>1. IInv => SectionsNest
  <2> SUFFICES ASSUME IInv PROVE SectionsNest
    OBVIOUS
  <2>1. NOFF \in Nat /\ Len(Top.held) \in Nat /\ (Len(Top.held) = 0 <=> Top.held = <<>>)
    BY TopType DEF IInv, TypeInv
  <2>2. Top.at = "drop" => SIE = 0 /\ NOFF > 0
    <3>1. Top.at = "drop" => NOFF = Len(Top.held) /\ Top.held # <<>>
      BY DEF IInv, OrderInv, DepthInv
    <3>2. NOFF > 0 => SIE = 0
      BY DEF IInv, DepthInv
    <3> QED  BY <2>1, <3>1, <3>2
  <2>3. Top.held = <<"off">> /\ Top.at = "out" => SIE = 0 /\ NOFF = 1
    BY <2>1 DEF IInv, DepthInv
  <2>4. Top.at = "out" /\ Top.held = <<>> => NOFF = 0
    BY <2>1 DEF IInv, DepthInv
  <2>5. panicked = "no" /\ Top.at = "out" /\ Top.held = <<>> =>
          (Top.kind = "thread" => SIE = 1) /\ (Top.kind \in {"irq", "ecall"} => SIE = 0)
    BY <2>4 DEF IInv, DepthInv, Base, Handler
  <2> QED  BY <2>2, <2>3, <2>4, <2>5 DEF SectionsNest
<1> QED  BY <1>1, Invariant, PTL
==============================================================================
