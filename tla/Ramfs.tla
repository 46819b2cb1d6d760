-------------------------------- MODULE Ramfs --------------------------------
(***************************************************************************)
(* The ramfs of fs.rs and the descriptor tables of proc.rs, as operators.  *)
(* Files are read-only after boot, so their data is a constant.            *)
(***************************************************************************)
EXTENDS Integers, Sequences

CONSTANTS
  Name,          \* the names of the files
  data,          \* their bytes, by name
  MAX_FDS

ASSUME RamfsAssumption ==
  /\ MAX_FDS \in Nat /\ "closed" \notin Name
  /\ DOMAIN data = Name /\ \A f \in Name : data[f] \in Seq(Nat)

Fd == 0..(MAX_FDS - 1)
Closed == [file |-> "closed", offset |-> 0]
NoFds == [fd \in Fd |-> Closed]
Open(fds) == {fd \in Fd : fds[fd] # Closed}

Less(x, y) == IF x < y THEN x ELSE y

\* read_at: the bytes copied out of a file from an offset on.
read_at(file, offset, cap) ==
  IF offset >= Len(data[file]) THEN <<>>
  ELSE SubSeq(data[file], offset + 1, offset + Less(cap, Len(data[file]) - offset))

\* The slot that fd_install takes; the table must not be full.
first_free(fds) == CHOOSE fd \in Fd \ Open(fds) : \A x \in Fd \ Open(fds) : fd <= x

fd_install(fds, file) == [fds EXCEPT ![first_free(fds)] = [file |-> file, offset |-> 0]]
fd_advance(fds, fd, delta) == [fds EXCEPT ![fd].offset = @ + delta]
fd_close(fds, fd) == [fds EXCEPT ![fd] = Closed]
==============================================================================
