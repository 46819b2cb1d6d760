------------------------------ MODULE UserCopy ------------------------------
(***************************************************************************)
(* User ranges: the checks of copy_from_user and copy_to_user in           *)
(* syscall.rs, as operators on what a process's page table says.           *)
(***************************************************************************)
EXTENDS Integers

CONSTANTS
  PAGE_SIZE,
  VA_MAX,        \* end of the addresses that walk accepts
  USIZE          \* 2^64: addresses and lengths are below it

ASSUME UserCopyAssumption ==
  /\ PAGE_SIZE \in Nat \ {0} /\ VA_MAX \in Nat /\ USIZE \in Nat
  /\ VA_MAX % PAGE_SIZE = 0 /\ VA_MAX < USIZE

Usize == 0..(USIZE - 1)
UserPage == 0..(VA_MAX \div PAGE_SIZE - 1)

\* What translate finds at a page: nothing, a kernel page (no PTE_U), or a
\* user page that is readable only or writable.
PagePerm == {"none", "kernel", "rx", "rw"}

\* The pages that the loop hands to translate.
Visited(ptr, end) ==
  {page \in 0..((end + PAGE_SIZE - 1) \div PAGE_SIZE - 1) : page >= ptr \div PAGE_SIZE}

\* Mutant: the end of the range wraps.
accepts_wrapping(table, ptr, len, perms) ==
  LET end == (ptr + len) % USIZE IN
  /\ end <= VA_MAX
  /\ \A page \in Visited(ptr, end) : table[page] \in perms

\* The range is not rejected: checked_add, the bound, and every page.
accepts(table, ptr, len, perms) ==
  LET end == ptr + len IN
  /\ end < USIZE
  /\ end <= VA_MAX
  /\ \A page \in Visited(ptr, end) : table[page] \in perms

copy_from_user(table, ptr, len) == accepts(table, ptr, len, {"rx", "rw"})
copy_to_user(table, ptr, len) == accepts(table, ptr, len, {"rw"})
=============================================================================
