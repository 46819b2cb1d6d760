-------------------------------- MODULE Heap --------------------------------
(***************************************************************************)
(* The kernel heap of heap.rs: first fit over an address-ordered free      *)
(* list, with splitting at both ends and coalescing with both neighbours.  *)
(*                                                                         *)
(* Both operations hold the HEAP lock, so each is one step.  The intrusive *)
(* list is a sequence, spliced where the code rewires pointers; that it    *)
(* stays in address order is a property, not built in.                     *)
(***************************************************************************)
EXTENDS Integers, Sequences, FiniteSets

CONSTANTS
  heap_start, HEAP_SIZE,
  ALIGN,         \* granule of addresses and sizes
  MIN_BLOCK,     \* smallest remainder kept on the free list
  HeaderSize,    \* size_of::<AllocHeader>()
  Size, Align    \* the layouts that are asked for

Region == heap_start..(heap_start + HEAP_SIZE - 1)

ASSUME HeapAssumption ==
  /\ heap_start \in Nat /\ ALIGN \in Nat \ {0}
  /\ heap_start % ALIGN = 0 /\ HEAP_SIZE % ALIGN = 0
  /\ HeaderSize % ALIGN = 0 /\ HeaderSize \in Nat \ {0}
  /\ MIN_BLOCK = HeaderSize + ALIGN
  /\ HEAP_SIZE \in Nat /\ HEAP_SIZE >= MIN_BLOCK
  /\ Size \subseteq Nat /\ Align \subseteq Nat \ {0}
  /\ \A a \in Align : a % ALIGN = 0 \/ ALIGN % a = 0

VARIABLES
  list,          \* the free blocks from head on
  free_bytes,
  live           \* the allocations: pointer, layout and header

vars == <<list, free_bytes, live>>

Block(start, end) == [start |-> start, size |-> end - start]
End(b) == b.start + b.size

----------------------------------------------------------------------------
(* Operations.                                                             *)

align_up(x, align) == ((x + align - 1) \div align) * align

Greater(x, y) == IF x > y THEN x ELSE y

need(size) == align_up(Greater(size, 1), ALIGN)

\* Mutant: aligns the header instead of the payload.
user_start_unaligned(b, align) == align_up(b.start, Greater(align, ALIGN)) + HeaderSize

user_start(b, align) == align_up(b.start + HeaderSize, Greater(align, ALIGN))
user_end(b, size, align) == user_start(b, align) + need(size)

\* Mutant: an exact fit is refused.
fits_strictly(b, size, align) == user_end(b, size, align) < End(b)

fits(b, size, align) == user_end(b, size, align) <= End(b)

\* Mutant: a back remainder below MIN_BLOCK is neither kept nor absorbed.
carve_drops_back(b, size, align) ==
  LET front_gap == user_start(b, align) - HeaderSize - b.start
      start == IF front_gap >= MIN_BLOCK THEN b.start + front_gap ELSE b.start
      end == user_end(b, size, align)
  IN [front |-> IF front_gap >= MIN_BLOCK THEN <<Block(b.start, start)>> ELSE <<>>,
      taken |-> Block(start, end),
      back |-> IF End(b) - end >= MIN_BLOCK THEN <<Block(end, End(b))>> ELSE <<>>]

\* What a block is cut into: the front and the back that stay free, each a
\* sequence of at most one block, and the block in between.
carve(b, size, align) ==
  LET front_gap == user_start(b, align) - HeaderSize - b.start
      back_gap == End(b) - user_end(b, size, align)
      start == IF front_gap >= MIN_BLOCK THEN b.start + front_gap ELSE b.start
      end == IF back_gap >= MIN_BLOCK THEN user_end(b, size, align) ELSE End(b)
  IN [front |-> IF front_gap >= MIN_BLOCK THEN <<Block(b.start, start)>> ELSE <<>>,
      taken |-> Block(start, end),
      back |-> IF back_gap >= MIN_BLOCK THEN <<Block(end, End(b))>> ELSE <<>>]

Init ==
  /\ list = <<Block(heap_start, heap_start + HEAP_SIZE)>>
  /\ free_bytes = HEAP_SIZE
  /\ live = {}

Allocation(ptr, size, align, block) ==
  [ptr |-> ptr, size |-> size, align |-> align, block |-> block]

\* alloc_inner, when some block fits.  Null is returned otherwise, and
\* nothing changes.
alloc_inner(size, align) ==
  \E i \in DOMAIN list :
    /\ fits(list[i], size, align)
    /\ \A j \in 1..(i - 1) : ~fits(list[j], size, align)
    /\ LET c == carve(list[i], size, align) IN
       /\ list' = SubSeq(list, 1, i - 1) \o c.front \o c.back
                    \o SubSeq(list, i + 1, Len(list))
       /\ free_bytes' = free_bytes - c.taken.size
       /\ live' = live \cup
            {Allocation(user_start(list[i], align), size, align, c.taken)}

\* Mutant: b is not merged into the block before it.
insert_forward_only(b) ==
  LET before == SelectSeq(list, LAMBDA x : x.start < b.start)
      after == SubSeq(list, Len(before) + 1, Len(list))
      forward == after # <<>> /\ End(b) = Head(after).start
  IN before \o (IF forward THEN <<Block(b.start, End(Head(after)))>> \o Tail(after)
                ELSE <<b>> \o after)

\* The free list with b linked in before the first block that is not below
\* it, merged with the neighbours it touches.
insert(b) ==
  LET n == Cardinality({i \in DOMAIN list : \A j \in 1..i : list[j].start < b.start})
      before == SubSeq(list, 1, n)
      after == SubSeq(list, n + 1, Len(list))
      forward == after # <<>> /\ End(b) = Head(after).start
      block == IF forward THEN Block(b.start, End(Head(after))) ELSE b
      rest == IF forward THEN Tail(after) ELSE after
      backward == n > 0 /\ End(list[n]) = b.start
  IN IF backward THEN SubSeq(list, 1, n - 1) \o <<Block(list[n].start, End(block))>> \o rest
     ELSE before \o <<block>> \o rest

dealloc_inner(a) ==
  /\ list' = insert(a.block)
  /\ free_bytes' = free_bytes + a.block.size
  /\ live' = live \ {a}

Next ==
  \/ \E size \in Size, align \in Align : alloc_inner(size, align)
  \/ \E a \in live : dealloc_inner(a)

Spec == Init /\ [][Next]_vars

----------------------------------------------------------------------------
(* Correctness.                                                            *)

Bytes(b) == b.start..(End(b) - 1)
FreeBytes == UNION {Bytes(list[i]) : i \in DOMAIN list}

\* Every byte of the region is in exactly one free block or one allocation:
\* splitting, absorbing and merging neither lose memory nor hand it out twice,
\* and the counter that the shell's `mem' shows is the number of free bytes.
Partition ==
  /\ free_bytes = Cardinality(FreeBytes)
  /\ FreeBytes \cup UNION {Bytes(a.block) : a \in live} = Region
  /\ \A i, j \in DOMAIN list : i # j => Bytes(list[i]) \cap Bytes(list[j]) = {}
  /\ \A a, b \in live : a # b => Bytes(a.block) \cap Bytes(b.block) = {}
  /\ \A a \in live : Bytes(a.block) \cap FreeBytes = {}

\* What alloc returns is aligned as asked, and its header and payload lie in
\* the block that dealloc will give back.
AllocationsSound ==
  \A a \in live :
    /\ a.ptr % a.align = 0
    /\ (a.ptr - HeaderSize)..(a.ptr + a.size - 1) \subseteq Bytes(a.block)

\* The free list is in address order, has no two blocks that touch, and every
\* block has room for a FreeBlock: fragmentation is only what is in use.
Coalesced ==
  /\ \A i \in 1..(Len(list) - 1) : End(list[i]) < list[i + 1].start
  /\ \A i \in DOMAIN list : list[i].size >= MIN_BLOCK /\ list[i].start % ALIGN = 0

\* First fit is complete: when alloc returns null there is no place at all for
\* a header and an aligned payload among the free bytes.
NullOnlyWhenFull ==
  \A size \in Size, align \in Align :
    (\A i \in DOMAIN list : ~fits(list[i], size, align)) =>
      ~\E x \in Region :
         /\ x % align = 0 /\ x % ALIGN = 0
         /\ (x - HeaderSize)..(x + align_up(Greater(size, 1), ALIGN) - 1) \subseteq FreeBytes
=============================================================================
