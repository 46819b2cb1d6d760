-------------------------------- MODULE Files --------------------------------
(***************************************************************************)
(* File descriptors over the life of processes: sys_open, sys_fread and    *)
(* SYS_CLOSE of syscall.rs with any arguments, fork, exec, exit and the    *)
(* page faults that change which buffers are accepted.                     *)
(*                                                                         *)
(* A system call runs with interrupts off and is one step.  A call that    *)
(* returns ERR leaves everything as it is.                                 *)
(***************************************************************************)
EXTENDS UserCopy, Ramfs

CONSTANTS
  MaxPid,        \* bound: processes in a run
  PATH_MAX, WRITE_MAX,
  Path,          \* what a path buffer may hold: names of files and other text
  Ptr, Size,     \* the pointers and lengths that are passed
  FdArg,         \* the descriptors that are passed
  Image,         \* the page table of a fresh image
  HeapPage       \* the page below the break that may be touched

Pid == 1..MaxPid

ASSUME FilesAssumption ==
  /\ MaxPid \in Nat \ {0}
  /\ PATH_MAX \in Nat /\ WRITE_MAX \in Nat
  /\ Ptr \subseteq Usize /\ Size \subseteq Usize /\ FdArg \subseteq Nat
  /\ Image \in [UserPage -> PagePerm] /\ HeapPage \in UserPage

VARIABLES
  st,            \* "none", "user" or "gone"
  fds,           \* the descriptor tables
  table,         \* the page tables
  nextPid,
  seen           \* history: per open descriptor, the bytes that calls returned
                 \* since it was opened, and whether one reported the end

vars == <<st, fds, table, nextPid, seen>>

Unseen == [bytes |-> <<>>, eof |-> FALSE]

\* One process, from spawn_user.
Init ==
  /\ st = [p \in Pid |-> IF p = 1 THEN "user" ELSE "none"]
  /\ fds = [p \in Pid |-> NoFds]
  /\ table = [p \in Pid |-> Image]
  /\ nextPid = 2
  /\ seen = [p \in Pid |-> [fd \in Fd |-> Unseen]]

\* name is what the path buffer holds.
sys_open(p, ptr, len, name) ==
  /\ st[p] = "user"
  /\ IF /\ len # 0 /\ len <= PATH_MAX
        /\ copy_from_user(table[p], ptr, len)
        /\ name \in Name
        /\ Open(fds[p]) # Fd
     THEN /\ fds' = [fds EXCEPT ![p] = fd_install(@, name)]
          /\ seen' = [seen EXCEPT ![p][first_free(fds[p])] = Unseen]
     ELSE UNCHANGED <<fds, seen>>
  /\ UNCHANGED <<st, table, nextPid>>

\* Mutant: the cursor moves although the buffer is rejected.
sys_fread_advances(p, fd, ptr, len) ==
  LET cap == Less(len, WRITE_MAX) IN
  /\ st[p] = "user"
  /\ IF fd \in Open(fds[p]) /\ cap # 0
     THEN LET buf == read_at(fds[p][fd].file, fds[p][fd].offset, cap) IN
          /\ fds' = [fds EXCEPT ![p] = fd_advance(@, fd, Len(buf))]
          /\ seen' = IF copy_to_user(table[p], ptr, Len(buf))
                     THEN [seen EXCEPT ![p][fd] = [bytes |-> @.bytes \o buf, eof |-> buf = <<>>]]
                     ELSE seen
     ELSE UNCHANGED <<fds, seen>>
  /\ UNCHANGED <<st, table, nextPid>>

sys_fread(p, fd, ptr, len) ==
  LET cap == Less(len, WRITE_MAX) IN
  /\ st[p] = "user"
  /\ \/ /\ fd \notin Open(fds[p]) \/ cap = 0
        /\ UNCHANGED <<fds, seen>>
     \/ /\ fd \in Open(fds[p]) /\ cap # 0
        /\ LET buf == read_at(fds[p][fd].file, fds[p][fd].offset, cap) IN
           IF copy_to_user(table[p], ptr, Len(buf))
           THEN /\ fds' = [fds EXCEPT ![p] = fd_advance(@, fd, Len(buf))]
                /\ seen' = [seen EXCEPT ![p][fd] =
                              [bytes |-> @.bytes \o buf, eof |-> buf = <<>>]]
           ELSE UNCHANGED <<fds, seen>>
  /\ UNCHANGED <<st, table, nextPid>>

sys_close(p, fd) ==
  /\ st[p] = "user" /\ fd \in Open(fds[p])
  /\ fds' = [fds EXCEPT ![p] = fd_close(@, fd)]
  /\ seen' = [seen EXCEPT ![p][fd] = Unseen]
  /\ UNCHANGED <<st, table, nextPid>>

\* The child gets copies of the page table and of the descriptors.
fork(p) ==
  /\ st[p] = "user" /\ nextPid \in Pid
  /\ st' = [st EXCEPT ![nextPid] = "user"]
  /\ fds' = [fds EXCEPT ![nextPid] = fds[p]]
  /\ table' = [table EXCEPT ![nextPid] = table[p]]
  /\ seen' = [seen EXCEPT ![nextPid] = seen[p]]
  /\ nextPid' = nextPid + 1

\* Mutant: a new image starts without open files.
exec_closes(p) ==
  /\ st[p] = "user"
  /\ table' = [table EXCEPT ![p] = Image]
  /\ fds' = [fds EXCEPT ![p] = NoFds]
  /\ seen' = [seen EXCEPT ![p] = [fd \in Fd |-> Unseen]]
  /\ UNCHANGED <<st, nextPid>>

\* exec: a fresh address space, the same open files.
exec(p) ==
  /\ st[p] = "user"
  /\ table' = [table EXCEPT ![p] = Image]
  /\ UNCHANGED <<st, fds, nextPid, seen>>

\* A first touch of the heap, served by service_page_fault.
touch(p) ==
  /\ st[p] = "user" /\ table[p][HeapPage] = "none"
  /\ table' = [table EXCEPT ![p][HeapPage] = "rw"]
  /\ UNCHANGED <<st, fds, nextPid, seen>>

exit(p) ==
  /\ st[p] = "user"
  /\ st' = [st EXCEPT ![p] = "gone"]
  /\ UNCHANGED <<fds, table, nextPid, seen>>

Next == \E p \in Pid :
  \/ \E ptr \in Ptr, len \in Size :
       \/ \E name \in Path : sys_open(p, ptr, len, name)
       \/ \E fd \in FdArg : sys_fread(p, fd, ptr, len)
  \/ \E fd \in FdArg : sys_close(p, fd)
  \/ fork(p) \/ exec(p) \/ touch(p) \/ exit(p)

Spec == Init /\ [][Next]_vars

------------------------------------------------------------------------------
(* Correctness.                                                             *)

\* What the successful reads of a descriptor returned since it was opened is
\* the file up to the cursor, in order and without gap or repetition, also
\* when buffers were rejected in between, across exec, and on both sides of a
\* fork; the end is reported only when all of the file has been returned.
ReadsInOrder ==
  \A p \in Pid : \A fd \in Open(fds[p]) :
    LET e == fds[p][fd] IN
    /\ e.offset <= Len(data[e.file])
    /\ seen[p][fd].bytes = SubSeq(data[e.file], 1, e.offset)
    /\ seen[p][fd].eof => e.offset = Len(data[e.file])

Entry(x) == fds[x[1]][x[2]]

\* The open descriptors of the processes that live on, and those of them that
\* a step changes.
Lasting == {x \in Pid \X Fd :
  Entry(x).file # "closed" /\ st[x[1]] = "user" /\ st'[x[1]] = "user"}
Changing == {x \in Lasting : Entry(x)' # Entry(x)}

\* Of the open descriptors of the processes that live on, a step closes one,
\* or moves the cursor of one forward in the same file, or leaves them all:
\* open takes a free slot and never one in use, of the same file or another;
\* fork, exec, exit and demand paging leave them all.
DescriptorsStable ==
  [][/\ \A x, y \in Changing : x = y
     /\ \A x \in Changing :
          \/ Entry(x)'.file = "closed"
          \/ Entry(x)'.file = Entry(x).file /\ Entry(x)'.offset > Entry(x).offset
     /\ Changing # {} => UNCHANGED <<st, table>>]_vars

\* The process may access every one of len bytes from ptr on.
Accessible(t, ptr, len, perms) ==
  /\ ptr <= VA_MAX
  /\ \A i \in 0..(len - 1) :
       ptr + i < VA_MAX /\ t[(ptr + i) \div PAGE_SIZE] \in perms

\* An empty range has no bytes, yet the loop starts at the page of ptr and
\* visits it unless ptr is its first byte.
Extent(ptr, len) == IF len = 0 /\ ptr % PAGE_SIZE # 0 THEN 1 ELSE len

\* The user copies accept a range exactly if the process may access each byte
\* of it, for every pointer and every length up to usize::MAX.  An empty range
\* (sys_fread at the end of a file) is accepted like the one byte at ptr,
\* except at the start of a page, where it is accepted up to VA_MAX.  No range
\* leads walk to an address at or above VA_MAX, where its assert would panic
\* the kernel.
RangesExact ==
  \A t \in {table[p] : p \in Pid} : \A ptr \in Usize, len \in Usize :
    LET n == Extent(ptr, len) IN
    /\ copy_from_user(t, ptr, len) <=> Accessible(t, ptr, n, {"rx", "rw"})
    /\ copy_to_user(t, ptr, len) <=> Accessible(t, ptr, n, {"rw"})
    /\ ptr + len <= VA_MAX => Visited(ptr, ptr + len) \subseteq UserPage
==============================================================================
