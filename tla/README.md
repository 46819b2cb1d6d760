# Osmium: TLA+ models and proofs

Osmium is a small RISC-V kernel in Rust: one hart, preemptive threads, user
processes with private Sv39 address spaces, a ramfs and a serial console.  This
directory models its components in TLA+, model-checks them with TLC on small
instances and proves their main properties with TLAPS for all instances.

## The system

Inventory of the source (`src/`), in the order the parts depend on each other.

| Part | Source | State | Operations |
|---|---|---|---|
| Interrupt nesting | `spinlock.rs` | `SIE`, `NOFF`, `INTENA` | `push_off`, `pop_off`, `saved_intena`, `set_intena` |
| Spinlock | `spinlock.rs` | lock word | `lock`, guard drop |
| Trap entry/return | `kernelvec.S`, `userret.S`, `trap.rs` | trap stack, `sscratch`, `sstatus` | `kernelvec`, `userret`, `kerneltrap` |
| Context switch | `switch.S` | callee-saved registers | `swtch` |
| Threads, scheduler | `proc.rs` | slot table, `current`, `next_slot`, thread states | `spawn_with`, `thread_entry`, `sched`, `yield_now`, `on_tick_preempt`, `sleep`, `wakeup`, `exit`, `join`, `scheduler` |
| Timer | `timer.rs` | `TICKS` | `on_tick`, `sleep_ticks` |
| Semaphore, Channel | `sync.rs` | counts, queue | `wait`, `signal`, `send`, `recv` |
| Console | `console.rs`, `uart.rs`, `plic.rs` | 256-byte input ring | `on_input`, `getchar`, `getchar_blocking`, RX interrupt |
| Page allocator | `kalloc.rs` | free list, count | `init`, `alloc`, `free` |
| Page tables | `vm.rs` | tables | `walk`, `map_pages`, `make/clone/free_user_table` |
| Address spaces | `proc.rs`, `vm.rs` | tables and heap bounds per process | `load_user_image`, `exec`, `fork`, `sbrk`, `service_page_fault`, reaping |
| Kernel heap | `heap.rs` | address-ordered free list | `alloc_inner`, `dealloc_inner` |
| System calls | `syscall.rs` | none of its own | `dispatch`, `copy_from_user`, `copy_to_user`, `sys_*` |
| Files | `proc.rs`, `fs.rs` | fd table per process, ramfs | `fd_*`, `lookup`, `read_at` |
| Shell | `shell.rs` | line buffer | `read_line`, `run_command`, `cat` |
| User programs | `user.rs` | registers, stack | ten programs in assembly |
| Boot | `main.rs`, `entry.S`, `memlayout.rs` | | `kmain` |
| Firmware, CSRs, power | `sbi.rs`, `riscv.rs`, `power.rs` | | register accessors |

Everything rests on one argument, stated in several comments of the source:
there is one hart, so code that runs with interrupts off is alone.  The thread
table has no lock at all; semaphores, the console ring and the allocators have
spinlocks that are only ever taken with interrupts off.  `Sched` and `Locks`
model the instructions this argument depends on and do not assume it; the other
modules take a section with interrupts off as one step, which is what
`SectionsExclusive` of `Sched` and `NeverSpins` of `Locks` allow.

The modules are layers.  `Sched` is the hart and the threads on it.  `Locks` puts
spinlocks, printing and panics on the same hart.  `Sync`, `Console`, `Vm` and
`Heap` are the kernel's services, `Files` with `UserCopy` and `Ramfs` the system
calls on files, and `Programs` the whole seen from above: the user programs, the
calls they make, and the shell that starts them.

## Modules

| Module | What it is |
|---|---|
| `Sched` | the processor core: interrupt nesting, traps, switch, thread table, `join`, `sleep_ticks` |
| `SchedInv` | the inductive invariant of `Sched` |
| `MCSched` | `Sched` on small instances |
| `SchedSteps` | proofs that steps in place and steps that switch away or spawn preserve the invariant |
| `SchedProofs` | proofs for traps and the scheduler loop, and the theorems |
| `Sync` | semaphores and the bounded channel, at the granularity of sections |
| `Fifo` | the abstract queue a channel implements |
| `MCSync` | `Sync` on small instances |
| `SyncProofs` | the channel's theorems, refinement included |
| `Console` | console input: RX interrupt, ring, the shell's line editor and `sys_read` |
| `InputQueue` | the abstract queue the ring implements |
| `MCConsole` | `Console` on small instances |
| `ConsoleProofs` | the ring's theorems, refinement included |
| `Vm` | page frames, user page tables and the life of an address space |
| `MCVm` | `Vm` on small instances |
| `Heap` | the kernel heap: first fit, splitting, coalescing |
| `MCHeap` | `Heap` on a small instance |
| `HeapProofs` | the heap's theorems |
| `Locks` | spinlocks, console output and the panic handler on one hart |
| `MCLocks` | `Locks` with the kernel's kinds of nesting |
| `LocksProofs` | the inductive invariant of `Locks` and its theorems |
| `UserCopy` | the range checks of `copy_from_user` and `copy_to_user`, as operators |
| `Ramfs` | the ramfs and the descriptor table, as operators |
| `Files` | file descriptors over the life of processes |
| `MCFiles` | `Files` on a small instance |
| `FilesProofs` | theorems on the range checks and on descriptors |
| `UserPrograms` | the embedded programs as tables of calls and branches |
| `Programs` | programs, system calls and the shell together |
| `MCPrograms` | `Programs` on a small instance |
| `ProgramsProofs` | the programs' theorems |

### Sched

State.  `SIE`, `NOFF` and `INTENA` are the interrupt bit and the two statics of
`spinlock.rs` (bits are 0 and 1).  `mode`, `sscratch` and `satp` are hart
registers; a kernel stack and a private page table are named by the pid that
owns them, 0 standing for "none" and for the kernel's table.  `on` is the
context that has the hart: `Boot`, the scheduler loop, or a pid.  `procs`,
`current`, `next_slot` and `NEXT_PID` are the fields of `struct Scheduler`
(slots are counted from 1, so `next_slot` is the number of the slot run last);
`state[p]` is the process state, `Sleeping(c)` written as the channel `c`.
`remaining[p]` is `target - ticks()` of the sleep `p` is in.

`frame[c]` is the kernel stack of context `c`, one record per activation: the
code of the context and the trap handlers on top of it.  A record holds the
function it is in (`op`), the place in it (`at`) and the locals that survive an
interruption: `old` of `push_off`, `intena` of `sched` (`sav`), the call's
argument, and the saved `SPIE`/`SPP` of a trap frame.

Steps.  A step ends wherever an interrupt could be taken or where another
context could see the difference.  `push_off` is two steps.  Code between
`push_off` and `pop_off` is one step per section, from which a switch leaves
(`sched`) and to which it comes back (`sched_return`, `scheduler_return`).
That sections are not interrupted is not built in: `timer_interrupt` is enabled
whenever `SIE = 1` or in U-mode, also at a section's places, and
`SectionsExclusive` says that it never is.  `enter_user` is three steps, because
the order of clearing `SIE`, arming `sscratch` and the `sret` is what it is
about.

Calls.  Threads and user processes choose any call at any time (`thread_call`,
`dispatch`): `yield`, `join` of any pid (also one not spawned yet, its own, or
one long gone), `nap` (`sleep_ticks`; 0 ticks only from kernel threads, since
`SYS_SLEEP_MS` has `.max(1)`), `spawn` (`spawn`, `spawn_user` and `fork`),
`exec`, `exit` (also the kill path of `kerneltrap`), and `nop` for calls and
breakpoints that return without touching this state.

Abstractions.

- Read-only sections of a system call (`with_current` in `fork`,
  `current_pid`) are left out: a handler runs with interrupts off from trap to
  `sret`, and a section without effect is then invisible.
- `exec` keeps `satp`, since the table is named by its owner; building and
  freeing tables is in `Vm`.
- `yield_now` with `current = None` is not modelled: only thread code yields.
- The UART interrupt and spurious `wfi` wake-ups are left out; both look like a
  timer interrupt that changes less.
- A panic is the absence of a step, and TLC checks for deadlock: in a section
  nothing else is enabled, so an `expect` or `unreachable!` that could fire
  would be reported.  (`exit` has no step after its switch for that reason.)

### Sync

Any number of threads call `send` and `recv` on one channel.  A step is one
section with interrupts off; `Sched` proves that such a section runs alone
(`SectionsExclusive`), so the preemption points of a call are the gaps between
sections: after `wait`, after the buffer operation, and between the increment
and the `wakeup` of `signal`.  `count` holds the two semaphores, `buf` the
buffer, `asleep` the semaphore whose address a thread sleeps on.  An empty
`pop_front`, where the code panics, is the absence of a step; `ItemsConserved`
excludes it.

`Fifo` is the promise: a bounded queue on which a call takes effect at one
instant.  The refinement mapping lets a call take effect when `buf` changes.
Its progress is that of a group: some blocked sender gets through while there is
room.  `wakeup` wakes every sleeper and they race for the permit, so no
particular caller is promised anything, and the code gives no such promise.

### Console

Bytes come from the UART's receive FIFO (external) and end with the readers: the
shell, a kernel thread in `read_line`, and user processes in `sys_read`.  `r` and
`w` are the running indices of the ring, which is indexed modulo `INPUT_CAP`.
Steps are sections: the interrupt (claim, drain the FIFO through `on_input`,
complete) runs to its end with interrupts off; a reader checks the ring and
falls asleep in one section, and is woken by any `on_input`.  What a call has
taken goes to its caller in one piece: the first byte blocks, the rest of
`sys_read` takes what is there, up to `WRITE_MAX`.  That no interrupt comes
between a reader's check and its sleep is not shown here but by
`SectionsExclusive` of `sched`.

`InputQueue` is the promise.  It has the input stream as well: `fifo`, what the
device has received, and `arrived`, the number of bytes so far, are Console's own
variables, and its queue `q` is the part of the ring between `r` and `w`.
`Enqueue` takes the device's oldest byte and must append it to `q`, CR as NL,
unless `INPUT_CAP` bytes are in `q`; so neither a byte dropped early nor another
byte in its place is a step or a stutter of `InputQueue`.  `Take` gives a reader
the oldest bytes, each to one reader and in order.

### Vm

`mem` holds the words of every frame, and page tables are frames whose words are
PTEs: `walk`, `map_pages`, `clone_user_table` and `free_user_table` are operators
that read and write those words as the code does, so ownership of frames is not
built into the state.  `free` is the free list from its head; `free` poisons and
`alloc` zeroes.  An operator returns the memory after it, with `ok` false when an
`expect` or `assert` has failed; the action then records a `panic` and the kernel
stops.

System calls, page faults and reaping run with interrupts off and are one step
each (`SectionsExclusive`).  `spawn_user` is called by kernel threads, which are
preempted, so its image is loaded one allocation at a time (`load_root`,
`load_alloc`, `load_map`, `load_publish`).  The window between taking a frame and
zeroing it or storing its PTE is not split further: the frame is known to that
thread only.  An exiting process is reaped before anything else runs, since the
loop reaps before it picks (`ReapSafe`: no thread runs beside a zombie).

The initial state is the boot's: `kalloc_init` frees the pages in address order,
leaving out those that overlap the device tree (`Dtb`, byte addresses; the first
frame is the page at `PAGE_SIZE`), `self_test` is the allocator test of `kmain`,
which leaves two pages swapped, and the kernel's root is the next page.

Addresses are pages of the user slot, `L1Entries` by `L0Entries` instead of 512
by 512, and the kernel's entries of a root are one word.  A page's content is
one value: the program for text, what was stored last for stack and heap.
A refused `sbrk`, because the sum overflows `usize` or exceeds `USER_HEAP_MAX`,
changes nothing and is no step.  The kernel heap, which holds
process structures and stacks, is modelled by `Heap`, apart from this module.

### Heap

`list` is the free list from its head, `live` the allocations with what their
headers record.  Both operations hold the heap's lock throughout and are one step
each.  `carve` cuts a block as `alloc_inner` does, keeping remainders of at least
`MIN_BLOCK` and absorbing smaller ones; `insert` is the walk, the forward merge
and the backward merge of `dealloc_inner`.  Pointers are abstracted to the
sequence they form; address order is checked, not assumed.

### Locks

The hart with `SIE`, `NOFF` and `INTENA` as in `Sched`, and the lock words.  A
context has a stack of frames: `top` and, `below` it, what traps have
interrupted.  A frame is in a sequence of regions (`held`), locks and bare
`push_off` sections, the inner last.  `push_off` is two steps, since an interrupt
may come between reading and clearing `SIE`; `lock` is a `push_off` and the
`compare_exchange`; releasing is the store (`drop`) and `pop_off`.  Traps are
enabled whenever `SIE = 1`.  A switch is possible where `sched()` may be called:
with one bare level held and nothing else.

What code takes which locks is a constant, read off the source: `Nest` has the
pairs of a region and one entered inside it (an allocation under `FS`, `INPUT`
and the heap under `push_off`, `wakeup` in `exit`), and `IrqRegion` and
`LoopRegion` what handlers and the scheduler loop enter.  `Rank` says that the
pairs are ordered; it is the one assumption about lock order.

`print` writes a message in two pieces under the console lock.  A panic may come
at any step, also inside a print, and ends in `print_emergency`.

### UserCopy, Ramfs and Files

`UserCopy` is the loop over pages of the user copies: the wrap-around check, the
bound, and a page table given as what `translate` finds at each page.  `USIZE`
stands for 2^64.  `Ramfs` has `read_at` and the four descriptor operations; the
files do not change after boot, so their bytes are a constant.

`Files` is processes that call `sys_open`, `sys_fread` and `SYS_CLOSE` with any
pointer, length and descriptor, fork, replace their images, fault in a heap page
(so that a buffer rejected before is accepted) and exit.  A call runs with
interrupts off and is one step.  `seen` is a history variable: what the calls on
a descriptor have returned.

### UserPrograms and Programs

`UserPrograms` gives each program of `user.rs` as a sequence of its calls and
traps with the branches taken on the results; the instructions in between are
register moves.  `Programs` runs them: `proc[p]` is a process with its program
counter, `a0`, `s0`, the bytes in its stack buffer, its descriptors, break and
heap pages; `shell` is the thread that is `init` at first and then the shell.
Every arm of `dispatch` that a program uses is an action, with the checks of
`UserCopy` and the operators of `Ramfs`, and so are breakpoints, page faults and
the commands of the shell.  Exit and reaping are one step, memory suffices (`Vm`
has the rest), and a pid is reused when no process and no join can name it any
more, which keeps runs without end finite.  A machine that the firmware refuses
to reset parks the shell's thread while the processes go on.

## Runs

| Run | Instance | Checks |
|---|---|---|
| `sched` | 3 pids, 2 at boot, pids 2 and 3 user processes, all calls, naps of one tick, 3 frames per stack; 456,583 states | the invariants and `NoOvertaking` |
| `sched_live` | 2 pids, kernel thread and user process, `join`, `nap`, `exit`; 15,185 states | liveness |
| `sync` | 3 threads, 2 items, capacity 2; 18,181 states | conservation, no lost signal, refinement, also with progress |
| `console` | shell and 2 processes, ring of 2, 4 bytes out of 3 kinds, FIFO of 1; 655,782 states up to symmetry of processes | no missed byte, refinement |
| `console_live` | a smaller instance; 15,970 states | liveness |
| `console_line` | 1 process | expected violation, see Findings |
| `vm` | 2 processes, 1 loader, 1 `exec`, 17 frames, with no device tree and with one over five of them; a text, a stack and a heap page under three level-0 tables; 53,889 states | ownership and isolation |
| `vm_fault` | 1 process, 8 frames | expected violation, see Findings |
| `heap` | 13 granules, 3 sizes, 3 alignments; 34,147 states | partition, coalescing, completeness |
| `locks` | 2 threads, 4 locks, 2 traps per stack; 56,681 states | no self-deadlock, whole messages, nesting, panic |
| `files` | 2 processes, 2 descriptors, a file of 3 bytes, 4 pages of 2 bytes; 20,880 states | ranges, reads, descriptors |
| `programs` | 4 processes at a time, 3 programs at boot, all commands and kinds of input; 3,889 states | one reader, self-tests, termination |

Properties of `sched`:

- `SectionsExclusive`: the debug assertions of `sched_data`, `sched` and
  `pop_off` never fire.
- `InterruptIntent`: thread code always has interrupts on and handlers have
  them off, although `INTENA` is shared; no stack holds more than one trap.
- `CurrentIsOnHart`: states, `current` and `satp` agree with the hart.
- `ReapSafe`: nothing in use is freed, and no thread runs beside a zombie.
- `NoLostWakeup`: sleepers in `join` and `sleep_ticks` have a reason to sleep.
- `SscratchTellsMode`: the U/S test of `kernelvec` is right whenever a trap can
  be taken.
- `NoOvertaking`: while a thread stays runnable, each dispatch of another
  thread brings the scan strictly nearer to it, also with slot reuse and growth.

Properties of `sched_live`: `RunnableRuns` (no starvation) and `CallsEnd` (a nap
ends, and a join on a process that has exited returns and finds it reaped).

Properties of `sync`:

- `SlotsConserved`, `ItemsConserved`: every slot is free, held or filled, and
  every item counted or held, whatever the preemptions; so the buffer never
  exceeds the capacity and the `expect` of `recv` never fires.
- `NoLostSignal`: a sleeper whose semaphore has permits has a wakeup coming.
- `BlockedOnlyAtLimit`: senders and receivers never block each other.
- `ImplementsFifo`: the channel is a bounded FIFO with atomic calls.
- `ImplementsFairFifo`: the same with progress.

Deadlock is not checked here: all threads may wait in `recv`.

Properties of `console`: `NothingMissed` (no reader is asleep while a byte is
in the ring), `ImplementsInputQueue` (every byte received is queued unless the
ring is full, and readers take the bytes in order, each once).  Property of
`console_live`: `InputIsRead`, a byte does not stay in the ring while somebody is
in a read.

Properties of `vm`:

- `FramesPartitioned`: every frame is free or in use, in exactly one place; no
  leak, double free or shared frame over any sequence of operations.  The frames
  with a byte of the device tree are neither, and stay as the firmware left them.
- `KernelMapped`: every user root has the kernel's entries, and nothing of a user
  gets into the kernel's table.
- `LayoutOK`: text is executable, stack and heap writable, heap pages only below
  the break, the break never above `USER_HEAP_MAX` nor below the heap.
- `Isolated`: a step changes the memory of at most one process, and of none when
  a process comes or goes.
- `BornAsCopyOrImage`: a new process is an exact copy with the same break, or a
  fresh image with a zeroed stack and an empty heap, also when the load was
  preempted; after `exec` it is such an image.
- `DemandPagesAreZero`: a heap page appears zeroed.

Deadlock is not checked in the `vm` runs: all processes may be gone, or the kernel may
have panicked for lack of frames.

Properties of `heap`:

- `Partition`: each byte is in exactly one free block or allocation, and the
  counter of free bytes is exact.
- `AllocationsSound`: pointers are aligned, header and payload are inside the
  block that will be given back.
- `Coalesced`: the list is in address order and no two free blocks touch.
- `NullOnlyWhenFull`: a request is refused only if no aligned place for it exists
  among the free bytes, whatever the blocks.

Properties of `locks`:

- `NeverSpins`: whoever comes to the `compare_exchange`, thread or handler, finds
  the lock free; on one hart a lock that is waited for is a hang.
- `LinesWhole`: at most one message is partly printed at any time.
- `SectionsNest`: the assertions of `pop_off` and `sched` hold, and outside of all
  levels threads have interrupts on and handlers off.
- `PanicHeard`: the message of a panic comes out, also when the console lock is
  held for ever.

Properties of `files`:

- `RangesExact`: the page loop accepts a range exactly if each of its bytes is
  accessible, and never hands `walk` an address its assertion would reject; over
  all pointers and lengths.  An empty range has no bytes, but the loop starts at
  the page of the pointer: it visits that page unless the pointer is its first
  byte.  So an empty range at an unaligned pointer is accepted exactly if the
  byte there is accessible, and at an aligned one always up to `VA_MAX`.
  `sys_fread` at the end of a file therefore returns `ERR`, not 0, for an
  unaligned pointer into a page that is not writable (`Extent`).
- `ReadsInOrder`: what a descriptor has returned is the file up to its cursor.
- `DescriptorsStable`: of the open descriptors of the processes that live on, a
  step closes one, or moves the cursor of one forward in the same file, or leaves
  them all; `fork`, `exec`, `exit` and page faults leave them all.

Properties of `programs`:

- `OneReader`: of the shell and all processes at most one reads the console.
- `SelfTestsPass`: no program gets to the branch of a failed test, what `catfile`
  and `cat` print is the file, and a parent speaks after its child has finished.
- `ProgramsEnd`: a program that does not read the console ends, and the shell that
  waits for it gets the console back.

Deadlock is not checked in these three runs: the hart stops after a panic, all
processes may have exited, and the machine may be switched off.

Bounds.  In `heap`, sizes are scaled down (`ALIGN` 16 to 2), the region is not
aligned to the largest alignment asked for, and up to six allocations are live at
once; front and back remainders of one granule (absorbed) and of more (kept) all
occur.  In `console`, four bytes take the indices of a two-slot ring around
twice, with drops.  In `vm`, without a device tree sixteen frames are
exactly two processes with their heaps, so fork of a full process succeeds and
little runs out.  With one, which begins and ends within a page, eleven are
left: `spawn_user`, `fork` and `exec` all run out, and a process that faults
while a load has the last frame is killed, reaped, and its frames used by the
load.  The heap page
has a level-0 table of its own, so a fault allocates twice, and `PAGE_SIZE = 2`
allows a break in the middle of a page.  `sbrk` is also asked for `USIZE - 1`,
with which a sum that wrapped would move the break down.  `PidLeft` keeps a pid for a load
under way, so a fork and a load run together only up to `MaxPid`.

In `sync`, three threads on two slots allow two senders and a receiver, or two
receivers and a sender, inside their calls at once, with the channel empty, half
full and full.

In `locks`, `MaxDepth = 2` is one more than any reachable stack, and the four locks
are the ones that differ in who takes them and inside what.  In `files`, the
lengths and pointers passed are few but include zero, a range over two pages and
one beyond the path and transfer limits, while `RangesExact` goes through all
pointers and lengths, zero included, of an address space whose last page ends at
`VA_MAX`; two files of different length show a descriptor of the wrong one.  In
`programs`, `Chunk = 2` reads a file of three bytes in two rounds, four
processes are `ush`, its child and the grandchild that the child may fork, with
another program beside them.

In `sched`, `MaxPid` bounds the pids ever allocated; three give a parent, a child
and a third thread to switch to, slot reuse after a reap, and table growth.
`MaxNap = 1` is enough because a longer sleep only repeats the loop.
`MaxDepth = 3` is one more than any reachable stack, so a second trap on a
handler would be seen.

Fairness.  `FairSpec` asks for progress of kernel code only, never of a thread
body or a user program between calls:

- a trap handler runs to its end (it cannot be interrupted);
- code of each context that is executed again and again eventually makes its
  next step: `on_tick` re-arms the timer `TICK_INTERVAL` ahead, so between two
  ticks interrupted code executes;
- the timer interrupt is taken if it can be taken again and again: it stays
  pending until the handler re-arms it.

`FairSpec` of `Sync` is weak fairness of each thread's code inside a call, which
is `RunnableRuns` of `sched_live`; a thread need not make calls.  `FairSpec` of
`Console` is the same for readers inside a call, and weak fairness of the
interrupt, which stays pending until it is served.  In `Locks` only the panic
handler is fair.  In `Programs` every process and the shell are, by `RunnableRuns`
and `CallsEnd`; nobody has to type.

## Findings

- `vm_fault`: `service_page_fault` lets the process die when there is no frame
  for the heap page, but when there is one and none for the page table it needs,
  `map_pages` panics.  `trap.rs` says there: "A faulting user process dies; the
  kernel does not."
- `console_line`: `user.rs` says that `echoline` reads one line with one
  `SYS_READ`; `sys_read` returns after the first byte and what is buffered, so a
  typed line comes in pieces.

## Proofs

`SchedProofs` proves `Spec => []IInv` and from it `TypeOK`,
`SectionsExclusive`, `InterruptIntent`, `CurrentIsOnHart`, `ReapSafe`,
`NoLostWakeup` and `SscratchTellsMode`, for every value of the constants that
satisfies `ConstantsAssumption`: some threads at boot, any user pids, any subset
of the calls, at least two frames per stack.

None of these is inductive alone.  `IInv` adds what the code relies on without
saying so:

- `StacksOK`: what each frame may hold.  Only thread or scheduler code can be
  interrupted, and only outside sections, so a trap frame on a kernel stack is
  the second and last one; `old` and `sav` always hold the intent of the frame's
  own kind of code.  This is why the shared `INTENA` does no harm: an
  interruption inside `push_off` is over, with `NOFF = 0` again, before the
  interrupted code reads anything.
- `HartOK`: `SIE`, `NOFF`, `INTENA` and `sscratch` as a function of the place
  that executes.
- `WaitingOK`: every context that does not execute waits in `swtch` (or is
  fresh), holding the one level it will get back.
- `TableOK`, `SlotsOK`: states and slots follow `on`; a pid has one slot.
- `SpawnsOK`: a spawn in progress owns a pid nobody else has.

The proofs have a lemma per action, grouped by what the step does to the
contexts: it stays or switches to the loop (`SchedSteps`), enters or leaves the
kernel, or runs the loop (`SchedProofs`).

`SyncProofs` proves for any finite set of threads and any positive capacity that
`TypeOK /\ SlotsConserved /\ ItemsConserved /\ NoLostSignal` is inductive,
derives `BlockedOnlyAtLimit` from it, and proves `Spec => ImplementsFifo`: each
step maps to a step of `Fifo` or to a stutter, where `SlotsConserved` gives the
room for `push_back`.

`ConsoleProofs` proves for any readers, any ring, any lengths and any input that
no reader sleeps on a byte (`NothingMissed`) and that the ring is a queue of the
bytes received (`Spec => ImplementsInputQueue`).  The invariant adds that the indices are in
order and at most `INPUT_CAP` apart, and that a process in a read has asked for
at least one byte.  The heart is modular arithmetic: two indices less than
`INPUT_CAP` apart are different slots, so a byte stored at `w` changes none of
those between `r` and `w`.

`FilesProofs` proves `RangesExact` for every page size, page table, pointer and
length: the pages of the loop are those with a byte of the range, and for an
empty range none or the one of the pointer.  It proves
`ReadsInOrder` from an invariant with the types of tables and cursors, and the
action property `DescriptorsStable`.

`LocksProofs` proves `NeverSpins`, `LinesWhole` and `SectionsNest` for any threads,
any locks whose nesting is ordered, and any depth of traps.  The invariant says
who has a lock: it is taken exactly if it is among the regions of the running
frame, because every other frame is outside of all regions (interrupted, so
outside of sections) or holds one bare level (switched out).  Order within the
frame (`OrderInv`) then excludes taking a lock twice, `NOFF` is the number of
regions (`DepthInv`), and a half-printed message is in the running frame
(`HalfInv`).

`HeapProofs` proves all four properties of `Heap` for every region, granule,
header and layout that satisfy `HeapAssumption`: the region and the header are
multiples of `ALIGN`, there is room for one block, and an alignment divides
`ALIGN` or is a multiple of it (both are powers of two).  The invariant is
`Partition`, `AllocationsSound` and `Coalesced` with the types.  A list after an
operation is a splice of the list before (`Splice`: what comes before, the new
blocks, what comes after), and `Spliced` says when a splice is in order and what
it covers; `CarveFacts` and `InsertFacts` show that `carve` and the two merges of
`insert` are such splices.  That first fit refuses only what fits nowhere needs
`OneBlock`: consecutive free bytes are in one block, because blocks do not touch.

`ProgramsProofs` proves `OneReader` and `SelfTestsPass` for any number of
processes, any files, and any sizes that satisfy `ProgramsAssumption` (the
pieces `catfile` reads fit a page and pids are below the error code).  The
invariant says for every program where it may be and with what: `catfile` has
printed the file up to its cursor or has the next piece in its buffer, `heapgrow`
has as many pages as its buffer says, a parent with a child alive is in the wait
for it, and a process that may come to read the console is the one the shell has
joined.  `Sites` lists the calls of the programs once for all lemmas.

Only model-checked: `Vm`, whose tables are built and freed by folds over
sequences of pages and would need induction over them; liveness (outside the
prover's reach, as is everything about `ENABLED`); and `NoOvertaking`, whose
modulus changes with the table's length.

## Not modelled

- `entry.S`, the linker's layout, and the permissions and inner tables of the
  kernel's own page table (`kvmmake`): fixed data, built once; in `Vm` the kernel's
  mapping is one word of a root.
- The self-tests of `kmain` for translation, heap and ramfs, and the demonstration
  threads at boot (ping and pong, busy and monitor, producer and consumer):
  straight-line assertions, or instances of what `Sched` and `Sync` do for
  arbitrary callers.
- Time.  `init` gives the boot programs 60 ticks and asserts that they are gone;
  whether that is long enough is a question of speed.  `Programs` lets `init` wait
  for the condition instead.
- `sbi.rs` and `riscv.rs`: firmware calls and single CSR instructions.  The bits that
  matter are state of `Sched`; version numbers and names are only printed.
- Register programming of UART and PLIC, formatting of messages, the names and
  layout of what the shell prints (`help`, `ls`, `ps`, `mem`, `uptime`).
- `sys_exec` copies the program's name to the kernel heap and does not come back
  to free it when `exec` succeeds; the name is a value in `Programs`, and `Heap`
  has arbitrary callers, so no property speaks of the bytes that stay allocated.
- Memory running out in the kernel heap: Rust's allocation handler panics.
