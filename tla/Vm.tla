--------------------------------- MODULE Vm ---------------------------------
(***************************************************************************)
(* Page frames and user address spaces: kalloc.rs, the user tables of      *)
(* vm.rs, and the operations of proc.rs that build, change and free them.  *)
(*                                                                         *)
(* A frame is a page of words; page tables are frames whose words are      *)
(* PTEs, walked as the code walks them.  System calls, page faults and     *)
(* reaping run with interrupts off (Sched: SectionsExclusive) and are one  *)
(* step; a kernel thread in spawn_user is preempted between any two calls  *)
(* of the page allocator.                                                  *)
(***************************************************************************)
EXTENDS Integers, Sequences, SequencesExt, FiniteSets

CONSTANTS
  NFrames,       \* page frames between the kernel heap and PHYS_TOP
  Dtb,           \* where the device tree may be: its first byte and its end
  Loader,        \* kernel threads that call spawn_user
  MaxPid,        \* bound: processes in a run
  MaxExec,       \* bound: calls of exec in a run
  Prog,          \* program images: their lengths in pages
  L1Entries,     \* entries of a level-1 table that are used
  L0Entries,     \* entries of a level-0 table
  PAGE_SIZE,     \* addresses per page
  StackPage,     \* the page below USER_STACK_TOP (USER_TEXT is page 0)
  HeapPage,      \* the page at USER_HEAP_BASE
  HeapPages,     \* pages up to USER_HEAP_MAX
  USIZE,         \* 2^64: addresses and lengths are below it
  Delta,         \* arguments of sbrk
  Val            \* what programs store

Frame == 1..NFrames
None == 0
Pid == 1..MaxPid
Page == 0..(L1Entries * L0Entries - 1)
Addr == 0..(L1Entries * L0Entries * PAGE_SIZE - 1)
USER_HEAP_BASE == HeapPage * PAGE_SIZE
USER_HEAP_MAX == (HeapPage + HeapPages) * PAGE_SIZE

ASSUME VmAssumption ==
  /\ NFrames \in Nat \ {0} /\ MaxPid \in Nat /\ MaxExec \in Nat
  /\ L1Entries \in Nat \ {0, 1} /\ L0Entries \in 1..L1Entries /\ PAGE_SIZE \in Nat \ {0}
  /\ Prog \subseteq 1..StackPage
  /\ StackPage < HeapPage /\ HeapPage + HeapPages <= L1Entries * L0Entries
  /\ USIZE \in Nat /\ USER_HEAP_MAX < USIZE /\ Delta \subseteq 0..(USIZE - 1)
  /\ Dtb \subseteq Nat \X Nat

VARIABLES
  dtb,       \* the device tree of this boot
  KERNEL_ROOT,
  free,      \* FreeList: the frames from head on
  mem,       \* the words of every frame
  proc,      \* the processes
  load,      \* the loaders' progress
  nextPid,   \* NEXT_PID
  execs,     \* calls of exec so far
  panic      \* "no", or the operation that panicked

boot == <<dtb, KERNEL_ROOT>>
vars == <<boot, free, mem, proc, load, nextPid, execs, panic>>

----------------------------------------------------------------------------
(* Words and pages.                                                        *)

Slot == 0..(L1Entries - 1)
KernelSlot == 0      \* the root's entries with the kernel mapping
USER_L2_INDEX == 1   \* the root's entry for user mappings

Dram == [type |-> "dram"]   \* what the firmware left
Zero == [type |-> "data", val |-> 0]
Poison == [type |-> "data", val |-> -1]
Kernel == [type |-> "kernel"]
PTE(pa, perm) == [type |-> "pte", pa |-> pa, perm |-> perm]
Datum(v) == [type |-> "data", val |-> v]
PageOf(x) == [i \in Slot |-> x]

\* pte & PTE_V: neither zero nor poison has the bit.
Valid(word) == word.type = "pte"
Writable(word) == Valid(word) /\ "W" \in word.perm

RX == {"R", "X", "U"}
RW == {"R", "W", "U"}

----------------------------------------------------------------------------
(* kalloc.rs and vm.rs, as operators on a memory m: the free list, the     *)
(* frames, and whether an expect or assert has failed (ok = FALSE).        *)

Memory == [free |-> free, mem |-> mem, ok |-> TRUE]

Failed(m) == [m EXCEPT !.ok = FALSE]

\* Mutant: the page is handed out as free left it.
alloc_dirty(m) ==
  IF m.free = <<>> THEN [m |-> m, f |-> None]
  ELSE [m |-> [m EXCEPT !.free = Tail(@)], f |-> Head(m.free)]

\* kalloc::alloc: the memory after it, and the zeroed frame or None.
alloc(m) ==
  IF m.free = <<>> THEN [m |-> m, f |-> None]
  ELSE [m |-> [m EXCEPT !.free = Tail(@), !.mem[Head(m.free)] = PageOf(Zero)],
        f |-> Head(m.free)]

\* kalloc::free: poison the frame and put it at the head.
kfree(m, f) == [m EXCEPT !.free = <<f>> \o @, !.mem[f] = PageOf(Poison)]

\* kalloc::init over the frames in address order, frame f being the page at
\* f * PAGE_SIZE; <<0, 0>> stands for no reservation.
kalloc_init(m, reserved) ==
  LET res_start == (reserved[1] \div PAGE_SIZE) * PAGE_SIZE
      res_end == ((reserved[2] + PAGE_SIZE - 1) \div PAGE_SIZE) * PAGE_SIZE
      usable(f) == f * PAGE_SIZE >= res_end \/ (f + 1) * PAGE_SIZE <= res_start
  IN FoldLeft(kfree, m, SelectSeq([f \in Frame |-> f], usable))

\* kmain's test of the allocator: the first two pages change places.
self_test(m) ==
  LET a == alloc(m)
      b == alloc(a.m)
  IN kfree(kfree(b.m, a.f), b.f)

\* The memory that kvmmake finds.
Raw == [free |-> <<>>, mem |-> [f \in Frame |-> PageOf(Dram)], ok |-> TRUE]
Seeded(reserved) == self_test(kalloc_init(Raw, reserved))

Entry(m, table, i) == m.mem[table][i]
SetEntry(m, table, i, pte) == [m EXCEPT !.mem[table][i] = pte]

\* One level of walk with alloc = true; None when out of pages.
descend(m, table, i) ==
  IF table = None THEN [m |-> m, f |-> None]
  ELSE IF Valid(Entry(m, table, i)) THEN [m |-> m, f |-> Entry(m, table, i).pa]
  ELSE LET a == alloc(m) IN
       IF a.f = None THEN a
       ELSE [m |-> SetEntry(a.m, table, i, PTE(a.f, {})), f |-> a.f]

\* walk: the level-0 table for a page, with the tables on the way allocated.
walk(m, root, va) ==
  LET l1 == descend(m, root, USER_L2_INDEX) IN
  descend(l1.m, l1.f, va \div L0Entries)

\* map_pages for one page: panics when out of pages, or on a remap.
map_page(m, root, va, pa, perm) ==
  LET l0 == walk(m, root, va) IN
  IF l0.f = None \/ Valid(Entry(l0.m, l0.f, va % L0Entries)) THEN Failed(l0.m)
  ELSE SetEntry(l0.m, l0.f, va % L0Entries, PTE(pa, perm))

\* walk without alloc and translate: the page's PTE, invalid if there is none.
translate(m, root, va) ==
  LET e2 == Entry(m, root, USER_L2_INDEX)
      e1 == Entry(m, e2.pa, va \div L0Entries)
  IN IF ~Valid(e2) THEN Zero
     ELSE IF ~Valid(e1) THEN Zero
     ELSE Entry(m, e1.pa, va % L0Entries)

\* Mutant: the kernel's entries are not copied.
make_user_table_bare(m) ==
  LET a == alloc(m) IN
  IF a.f = None THEN [m |-> Failed(m), f |-> None] ELSE a

\* make_user_table: a root with the kernel's entries; [m, f], ok false when
\* out of pages.
make_user_table(m) ==
  LET a == alloc(m) IN
  IF a.f = None THEN [m |-> Failed(m), f |-> None]
  ELSE [m |-> [a.m EXCEPT !.mem[a.f] = a.m.mem[KERNEL_ROOT]], f |-> a.f]

\* A frame with the given content, mapped at va: alloc, copy, map_pages.
map_copy(m, root, va, content, perm) ==
  LET a == alloc(m) IN
  IF ~m.ok \/ a.f = None THEN Failed(m)
  ELSE map_page([a.m EXCEPT !.mem[a.f] = content], root, va, a.f, perm)

\* The mapped pages of a table in the order of its entries.
Mapped(m, root) ==
  SelectSeq([i \in 1..Cardinality(Page) |-> i - 1],
            LAMBDA va : Valid(translate(m, root, va)))

\* Mutant: the child maps the parent's frames.
clone_user_table_shared(m, parent) ==
  LET child == make_user_table(m)
      share(acc, va) == LET e0 == translate(m, parent, va) IN
                        map_page(acc, child.f, va, e0.pa, e0.perm)
  IN [m |-> IF child.m.ok THEN FoldLeft(share, child.m, Mapped(m, parent)) ELSE child.m,
      f |-> child.f]

\* clone_user_table.
clone_user_table(m, parent) ==
  LET child == make_user_table(m)
      copy(acc, va) == LET e0 == translate(m, parent, va) IN
                       map_copy(acc, child.f, va, m.mem[e0.pa], e0.perm)
  IN [m |-> IF child.m.ok THEN FoldLeft(copy, child.m, Mapped(m, parent)) ELSE child.m,
      f |-> child.f]

\* Mutant: the level-0 tables are not freed.
FreeOrder_keeps_l0(m, root) ==
  LET e2 == Entry(m, root, USER_L2_INDEX)
      Ptrs(t, n) == SelectSeq([i \in 1..n |-> Entry(m, t, i - 1)], Valid)
      Leaves(e1) == [i \in DOMAIN Ptrs(e1.pa, L0Entries) |-> Ptrs(e1.pa, L0Entries)[i].pa]
      subtree(acc, e1) == acc \o Leaves(e1)
  IN FoldLeft(subtree, <<>>, Ptrs(e2.pa, L1Entries)) \o <<e2.pa, root>>

\* The frames of a table in the order free_user_table frees them.
FreeOrder(m, root) ==
  LET e2 == Entry(m, root, USER_L2_INDEX)
      Ptrs(t, n) == SelectSeq([i \in 1..n |-> Entry(m, t, i - 1)], Valid)
      Leaves(e1) == [i \in DOMAIN Ptrs(e1.pa, L0Entries) |-> Ptrs(e1.pa, L0Entries)[i].pa]
      subtree(acc, e1) == acc \o Leaves(e1) \o <<e1.pa>>
  IN (IF Valid(e2)
      THEN FoldLeft(subtree, <<>>, Ptrs(e2.pa, L1Entries)) \o <<e2.pa>> ELSE <<>>)
     \o <<root>>

free_user_table(m, root) == FoldLeft(kfree, m, FreeOrder(m, root))

\* load_user_image: text pages, then the stack.  The image's words are the
\* program's name.
load_user_image(m, prog) ==
  LET new == make_user_table(m)
      text(acc, va) == map_copy(acc, new.f, va, PageOf(Datum(prog)), RX)
      loaded == FoldLeft(text, new.m, [i \in 1..prog |-> i - 1])
  IN [m |-> IF new.m.ok THEN map_copy(loaded, new.f, StackPage, PageOf(Zero), RW)
            ELSE new.m,
      f |-> new.f]

----------------------------------------------------------------------------
(* Processes.                                                              *)

NoProc == [st |-> "none", table |-> None, brk |-> 0]
Idle == [at |-> "idle", prog |-> 0, root |-> None, next |-> 0, hand |-> None]

\* kmain up to vm::init: kalloc::init, its test, and the kernel's table.
Init ==
  /\ dtb \in Dtb
  /\ LET a == alloc(Seeded(dtb)) IN
     /\ KERNEL_ROOT = a.f
     /\ free = a.m.free
     /\ mem = [a.m.mem EXCEPT ![a.f][KernelSlot] = Kernel]
  /\ proc = [p \in Pid |-> NoProc]
  /\ load = [l \in Loader |-> Idle]
  /\ nextPid = 1 /\ execs = 0 /\ panic = "no"

\* A zombie is reaped before anything else runs (Sched: ReapSafe).
Running == panic = "no" /\ \A p \in Pid : proc[p].st # "zombie"

\* The step leaves memory m, or panics if an expect in it failed.
Commit(m, op) ==
  /\ panic' = IF m.ok THEN panic ELSE op
  /\ IF m.ok THEN free' = m.free /\ mem' = m.mem ELSE UNCHANGED <<free, mem>>

\* A pid is left within the bound, over those the loads under way will take.
PidLeft == nextPid + Cardinality({l \in Loader : load[l].at # "idle"}) <= MaxPid

Process(table, brk) == [st |-> "user", table |-> table, brk |-> brk]

\* spawn_user by a kernel thread: load_user_image, one allocation at a time.
spawn_user(l, prog) ==
  /\ Running /\ load[l].at = "idle" /\ PidLeft
  /\ load' = [load EXCEPT ![l] = [Idle EXCEPT !.at = "root", !.prog = prog]]
  /\ UNCHANGED <<boot, free, mem, proc, nextPid, execs, panic>>

load_root(l) ==
  /\ Running /\ load[l].at = "root"
  /\ LET new == make_user_table(Memory) IN
     /\ Commit(new.m, "spawn")
     /\ load' = [load EXCEPT ![l].at = "page", ![l].root = new.f]
  /\ UNCHANGED <<boot, proc, nextPid, execs>>

\* The page being loaded: text, then the stack.
Loading(l) == IF load[l].next < load[l].prog THEN load[l].next ELSE StackPage
Image(l) == IF load[l].next < load[l].prog THEN Datum(load[l].prog) ELSE Zero
ImagePerm(l) == IF load[l].next < load[l].prog THEN RX ELSE RW

load_alloc(l) ==
  /\ Running /\ load[l].at = "page" /\ load[l].hand = None
  /\ LET a == alloc(Memory) IN
     /\ Commit(IF a.f = None THEN Failed(a.m)
               ELSE [a.m EXCEPT !.mem[a.f] = PageOf(Image(l))], "spawn")
     /\ load' = [load EXCEPT ![l].hand = a.f]
  /\ UNCHANGED <<boot, proc, nextPid, execs>>

\* map_pages up to its next allocation: a table that is missing, or the leaf.
load_map(l) ==
  /\ Running /\ load[l].at = "page" /\ load[l].hand # None
  /\ LET root == load[l].root
         i == Loading(l) \div L0Entries
         e2 == Entry(Memory, root, USER_L2_INDEX)
         missing(table, k) ==
           LET d == descend(Memory, table, k) IN
           /\ Commit(IF d.f = None THEN Failed(d.m) ELSE d.m, "spawn")
           /\ UNCHANGED load
     IN \/ ~Valid(e2) /\ missing(root, USER_L2_INDEX)
        \/ Valid(e2) /\ ~Valid(Entry(Memory, e2.pa, i)) /\ missing(e2.pa, i)
        \/ /\ Valid(e2) /\ Valid(Entry(Memory, e2.pa, i))
           /\ Commit(map_page(Memory, root, Loading(l), load[l].hand, ImagePerm(l)), "spawn")
           /\ load' = [load EXCEPT ![l].hand = None, ![l].next = @ + 1,
                                   ![l].at = IF Loading(l) = StackPage THEN "publish" ELSE "page"]
  /\ UNCHANGED <<boot, proc, nextPid, execs>>

\* spawn_with and attach_user_space.
load_publish(l) ==
  /\ Running /\ load[l].at = "publish"
  /\ proc' = [proc EXCEPT ![nextPid] = Process(load[l].root, USER_HEAP_BASE)]
  /\ nextPid' = nextPid + 1
  /\ load' = [load EXCEPT ![l] = Idle]
  /\ UNCHANGED <<boot, free, mem, execs, panic>>

\* Mutant: the child keeps the empty heap of attach_user_space.
fork_forgets_brk(p) ==
  /\ Running /\ proc[p].st = "user" /\ PidLeft
  /\ LET child == clone_user_table(Memory, proc[p].table) IN
     /\ Commit(child.m, "fork")
     /\ IF child.m.ok
        THEN /\ proc' = [proc EXCEPT ![nextPid] = Process(child.f, USER_HEAP_BASE)]
             /\ nextPid' = nextPid + 1
        ELSE UNCHANGED <<proc, nextPid>>
  /\ UNCHANGED <<boot, load, execs>>

\* fork, in the parent's system call.
fork(p) ==
  /\ Running /\ proc[p].st = "user" /\ PidLeft
  /\ LET child == clone_user_table(Memory, proc[p].table) IN
     /\ Commit(child.m, "fork")
     /\ IF child.m.ok
        THEN /\ proc' = [proc EXCEPT ![nextPid] = Process(child.f, proc[p].brk)]
             /\ nextPid' = nextPid + 1
        ELSE UNCHANGED <<proc, nextPid>>
  /\ UNCHANGED <<boot, load, execs>>

\* exec: build the new image, then free the old one.
exec(p, prog) ==
  /\ Running /\ proc[p].st = "user" /\ execs < MaxExec
  /\ LET new == load_user_image(Memory, prog) IN
     /\ Commit(IF new.m.ok THEN free_user_table(new.m, proc[p].table) ELSE new.m, "exec")
     /\ proc' = IF new.m.ok
                THEN [proc EXCEPT ![p] = Process(new.f, USER_HEAP_BASE)] ELSE proc
  /\ execs' = execs + 1
  /\ UNCHANGED <<boot, load, nextPid>>

\* Mutant: a sum that wraps.
sbrk_wraps(p, delta) ==
  LET new == (proc[p].brk + delta) % USIZE IN
  /\ Running /\ proc[p].st = "user"
  /\ new <= USER_HEAP_MAX
  /\ proc' = [proc EXCEPT ![p].brk = new]
  /\ UNCHANGED <<boot, free, mem, load, nextPid, execs, panic>>

\* sbrk that succeeds: checked_add and the limit.
sbrk(p, delta) ==
  LET new == proc[p].brk + delta IN
  /\ Running /\ proc[p].st = "user"
  /\ new < USIZE /\ new <= USER_HEAP_MAX
  /\ proc' = [proc EXCEPT ![p].brk = new]
  /\ UNCHANGED <<boot, free, mem, load, nextPid, execs, panic>>

PteOf(p, va) == translate(Memory, proc[p].table, va)

\* A store by the program itself; the page's words stand for its content.
store(p, va, v) ==
  /\ Running /\ proc[p].st = "user" /\ Writable(PteOf(p, va))
  /\ mem' = [mem EXCEPT ![PteOf(p, va).pa] = PageOf(Datum(v))]
  /\ UNCHANGED <<boot, free, proc, load, nextPid, execs, panic>>

exit(p) ==
  /\ Running /\ proc[p].st = "user"
  /\ proc' = [proc EXCEPT ![p].st = "zombie"]
  /\ UNCHANGED <<boot, free, mem, load, nextPid, execs, panic>>

\* A load or store that the table does not allow: service_page_fault maps a
\* heap page, or kerneltrap kills the process.
page_fault(p, addr) ==
  LET va == addr \div PAGE_SIZE
      pte == PteOf(p, va)
      a == alloc(Memory)
  IN
  /\ Running /\ proc[p].st = "user" /\ ~Writable(pte)
  /\ IF /\ addr >= USER_HEAP_BASE /\ addr < proc[p].brk
        /\ ~Valid(pte) /\ a.f # None
     THEN /\ Commit(map_page(a.m, proc[p].table, va, a.f, RW), "page_fault")
          /\ UNCHANGED proc
     ELSE /\ proc' = [proc EXCEPT ![p].st = "zombie"]
          /\ UNCHANGED <<free, mem, panic>>
  /\ UNCHANGED <<boot, load, nextPid, execs>>

\* The scheduler frees the address space of a zombie.
reap(p) ==
  /\ panic = "no" /\ proc[p].st = "zombie"
  /\ Commit(free_user_table(Memory, proc[p].table), "reap")
  /\ proc' = [proc EXCEPT ![p] = NoProc]
  /\ UNCHANGED <<boot, load, nextPid, execs>>

----------------------------------------------------------------------------
Loads == \E l \in Loader :
  \/ \E prog \in Prog : spawn_user(l, prog)
  \/ load_root(l) \/ load_alloc(l) \/ load_map(l) \/ load_publish(l)

Processes == \E p \in Pid :
  \/ fork(p) \/ exit(p) \/ reap(p)
  \/ \E prog \in Prog : exec(p, prog)
  \/ \E delta \in Delta : sbrk(p, delta)
  \/ \E addr \in Addr : page_fault(p, addr)
  \/ \E va \in Page, v \in Val : store(p, va, v)

Next == Loads \/ Processes

Spec == Init /\ [][Next]_vars

----------------------------------------------------------------------------
(* Correctness.                                                            *)

Roots ==
  {proc[p].table : p \in {p \in Pid : proc[p].st # "none"}}
    \cup {load[l].root : l \in {l \in Loader : load[l].root # None}}

Pointers(tables) == {<<t, i>> \in tables \X Slot : Valid(mem[t][i])}
Targets(tables) == {mem[x[1]][x[2]].pa : x \in Pointers(tables)}

\* The frames that are page tables of an address space.
Tables == LET l1 == Targets(Roots) IN Roots \cup l1 \cup Targets(l1)

\* Everything that says where a frame is: a place in the free list, a process
\* or a loader that owns a root, a frame in a loader's hand, a valid PTE.
References ==
  {<<"free", 0, i, free[i]>> : i \in DOMAIN free}
    \cup {<<"root", 0, p, proc[p].table>> : p \in {p \in Pid : proc[p].st # "none"}}
    \cup {<<"load", 0, l, load[l].root>> : l \in {l \in Loader : load[l].root # None}}
    \cup {<<"hand", 0, l, load[l].hand>> : l \in {l \in Loader : load[l].hand # None}}
    \cup {<<"pte", x[1], x[2], mem[x[1]][x[2]].pa>> : x \in Pointers(Tables)}

\* The frames with a byte of the device tree.
DtbFrames == {f \in Frame : f * PAGE_SIZE < dtb[2] /\ dtb[1] < (f + 1) * PAGE_SIZE}
Managed == (Frame \ DtbFrames) \ {KERNEL_ROOT}

\* Frame ownership: every frame but the device tree's and the kernel's is free
\* or in use, in exactly one place.  No frame is mapped twice, freed while in
\* use, freed twice or lost, over any sequence of spawns, forks, execs, faults
\* and exits, and the device tree is as the firmware left it.
FramesPartitioned ==
  /\ panic = "no" => /\ {x[4] : x \in References} = Managed
                     /\ Cardinality(References) = Cardinality(Managed)
  /\ \A f \in DtbFrames : mem[f] = PageOf(Dram)

\* Every user table has the kernel's mapping, and the kernel's own table has no
\* user mappings: traps run on whatever table is active (switch_to).
KernelMapped ==
  /\ \A root \in Roots : mem[root][KernelSlot] = Kernel
  /\ ~Valid(mem[KERNEL_ROOT][USER_L2_INDEX])

MappedPages(p) == {va \in Page : Valid(PteOf(p, va))}

\* A process has its text, one stack page, and heap pages only below its break:
\* what sbrk hands out and what faults map agree, also when sbrk is asked for
\* so much that the sum overflows; nothing is both writable and executable.
LayoutOK ==
  \A p \in Pid : proc[p].st = "user" =>
    /\ proc[p].brk \in USER_HEAP_BASE..USER_HEAP_MAX
    /\ {0, StackPage} \subseteq MappedPages(p)
    /\ \A va \in MappedPages(p) :
         \/ va < StackPage /\ PteOf(p, va).perm = RX
         \/ va = StackPage /\ PteOf(p, va).perm = RW
         \/ va >= HeapPage /\ va * PAGE_SIZE < proc[p].brk /\ PteOf(p, va).perm = RW

\* What a process sees at its mapped pages.
View(p) ==
  [va \in MappedPages(p) |-> mem[PteOf(p, va).pa]]

Lives(p) == proc[p].st = "user"

\* A step changes the memory of at most one process, and none when a process
\* is created, exits or is reaped: address spaces are private.
Isolated ==
  [][LET changed == {p \in Pid : Lives(p) /\ Lives(p)' /\ View(p) # View(p)'} IN
     /\ Cardinality(changed) <= 1
     /\ {p \in Pid : Lives(p)} # {p \in Pid : Lives(p)}' => changed = {}]_vars

\* Text, a zeroed stack and an empty heap.
FreshImage(p) ==
  /\ proc[p].brk = USER_HEAP_BASE
  /\ \E prog \in Prog :
       View(p) = [va \in 0..(prog - 1) \cup {StackPage} |->
                    IF va = StackPage THEN PageOf(Zero) ELSE PageOf(Datum(prog))]

\* A new process starts as an exact copy of a living one, its break included
\* (fork), or as a fresh image with an empty heap (spawn_user); a process that
\* gets another table has such an image in it (exec).
BornAsCopyOrImage ==
  [][\A c \in Pid : Lives(c)' =>
       /\ ~Lives(c) => \/ FreshImage(c)'
                       \/ \E p \in Pid : /\ Lives(p) /\ View(p) = View(c)'
                                         /\ proc[p].brk = proc'[c].brk
       /\ Lives(c) /\ proc[c].table # proc'[c].table => FreshImage(c)']_vars

\* A heap page appears zeroed: nothing of an earlier owner, nor the
\* allocator's poison, shows through.
DemandPagesAreZero ==
  [][\A p \in Pid : Lives(p) /\ Lives(p)' /\ proc[p].table = proc'[p].table =>
       \A va \in (MappedPages(p))' \ MappedPages(p) : View(p)'[va] = PageOf(Zero)]_vars

\* What the comments of kerneltrap and service_page_fault say: "A faulting user
\* process dies; the kernel does not."
FaultsSpareTheKernel == panic # "page_fault"
============================================================================
