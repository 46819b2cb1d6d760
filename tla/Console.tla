------------------------------ MODULE Console -------------------------------
(***************************************************************************)
(* Console input: the UART's receive FIFO, the external interrupt that     *)
(* drains it into the ring of console.rs, the kernel shell's line editor   *)
(* and user processes in SYS_READ.                                         *)
(*                                                                         *)
(* A step is a section that runs with interrupts off (Sched:               *)
(* SectionsExclusive).  For the shell that is one turn of the loop in      *)
(* getchar_blocking.  A system call runs with interrupts off from trap to  *)
(* sret unless it sleeps, so there it is all of sys_read up to its sleep   *)
(* or its return.  Only the device goes on while the handler runs.         *)
(***************************************************************************)
EXTENDS Integers, Sequences

CONSTANTS
  Shell,       \* kernel threads that read lines
  User,        \* processes that call SYS_READ
  INPUT_CAP,   \* slots of the ring
  MAX_LINE,    \* longest line of the shell
  WRITE_MAX,   \* the most one SYS_READ returns
  ReadLen,     \* the lengths SYS_READ is called with
  Received,    \* bytes that arrive: of "char", "cr", "nl", "bs", "ctl"
  FifoDepth,   \* depth of the UART's receive FIFO
  MaxBytes     \* bound: bytes that arrive in a run

Reader == Shell \cup User
Queued == {"char", "nl", "bs", "ctl"}
Rejected == <<"ERR">>

ASSUME ConsoleAssumption ==
  /\ Shell \cap User = {}
  /\ INPUT_CAP \in Nat \ {0} /\ MAX_LINE \in Nat /\ WRITE_MAX \in Nat \ {0}
  /\ ReadLen \subseteq Nat /\ FifoDepth \in Nat /\ MaxBytes \in Nat
  /\ Received \subseteq Queued \cup {"cr"}

VARIABLES
  fifo,        \* the UART's receive FIFO
  arrived,     \* number of bytes received so far
  irq,         \* the external interrupt is being handled
  buf, r, w,   \* Input
  at,          \* per reader: "out" of a read, about to "try" again, or "asleep"
  cap,         \* sys_read's `cap'
  line,        \* the shell's line so far
  got          \* what a reader got last: a line's byte, or sys_read's buffer

device == <<fifo, arrived, irq>>
input == <<buf, r, w>>
vars == <<device, input, at, cap, line, got>>

Init ==
  /\ fifo = <<>> /\ arrived = 0 /\ irq = FALSE
  /\ buf = [i \in 0..(INPUT_CAP - 1) |-> "zero"] /\ r = 0 /\ w = 0
  /\ at = [t \in Reader |-> "out"]
  /\ cap = [p \in User |-> 0]
  /\ line = [s \in Shell |-> <<>>]
  /\ got = [t \in Reader |-> <<>>]

----------------------------------------------------------------------------
(* The device and its interrupt.                                           *)

receive(b) ==
  /\ arrived < MaxBytes
  /\ arrived' = arrived + 1
  /\ fifo' = IF Len(fifo) < FifoDepth THEN Append(fifo, b) ELSE fifo
  /\ UNCHANGED <<irq, input, at, cap, line, got>>

\* kerneltrap: claim.  The line stays raised while there are bytes.
claim ==
  /\ ~irq /\ fifo # <<>>
  /\ irq' = TRUE
  /\ UNCHANGED <<fifo, arrived, input, at, cap, line, got>>

normalized(b) == IF b = "cr" THEN "nl" ELSE b

\* Mutant: no wakeup.
on_input_silent ==
  /\ irq /\ fifo # <<>>
  /\ fifo' = Tail(fifo)
  /\ IF w - r < INPUT_CAP
     THEN /\ buf' = [buf EXCEPT ![w % INPUT_CAP] = normalized(Head(fifo))]
          /\ w' = w + 1
     ELSE UNCHANGED <<buf, w>>
  /\ UNCHANGED <<arrived, irq, r, at, cap, line, got>>

\* Mutant: a byte is dropped although one slot is left.
on_input_early ==
  /\ irq /\ fifo # <<>>
  /\ fifo' = Tail(fifo)
  /\ IF w - r < INPUT_CAP - 1
     THEN /\ buf' = [buf EXCEPT ![w % INPUT_CAP] = normalized(Head(fifo))]
          /\ w' = w + 1
     ELSE UNCHANGED <<buf, w>>
  /\ at' = [t \in Reader |-> IF at[t] = "asleep" THEN "try" ELSE at[t]]
  /\ UNCHANGED <<arrived, irq, r, cap, line, got>>

\* One turn of handle_interrupt: a byte goes into the ring or is dropped, and
\* all sleepers are woken.
on_input ==
  /\ irq /\ fifo # <<>>
  /\ fifo' = Tail(fifo)
  /\ IF w - r < INPUT_CAP
     THEN /\ buf' = [buf EXCEPT ![w % INPUT_CAP] = normalized(Head(fifo))]
          /\ w' = w + 1
     ELSE UNCHANGED <<buf, w>>
  /\ at' = [t \in Reader |-> IF at[t] = "asleep" THEN "try" ELSE at[t]]
  /\ UNCHANGED <<arrived, irq, r, cap, line, got>>

complete ==
  /\ irq /\ fifo = <<>>
  /\ irq' = FALSE
  /\ UNCHANGED <<fifo, arrived, input, at, cap, line, got>>

----------------------------------------------------------------------------
(* Readers.                                                                *)

\* The n oldest bytes of the ring.
oldest(n) == [i \in 1..n |-> buf[(r + i - 1) % INPUT_CAP]]

sleep(t) ==
  /\ r = w
  /\ at' = [at EXCEPT ![t] = "asleep"]
  /\ UNCHANGED <<r, got>>

\* The shell's read_line starts with an empty line.
read_line(s) ==
  /\ ~irq /\ at[s] = "out"
  /\ at' = [at EXCEPT ![s] = "try"]
  /\ line' = [line EXCEPT ![s] = <<>>]
  /\ UNCHANGED <<device, input, cap, got>>

\* The line after one more byte.
edited(l, byte) ==
  CASE byte = "bs" /\ l # <<>>             -> SubSeq(l, 1, Len(l) - 1)
    [] byte = "char" /\ Len(l) < MAX_LINE  -> Append(l, byte)
    [] OTHER                               -> l

\* One turn of getchar_blocking, and what read_line does with the byte.
getchar_blocking(s) ==
  /\ ~irq /\ at[s] = "try"
  /\ \/ sleep(s) /\ UNCHANGED line
     \/ /\ r < w
        /\ LET byte == oldest(1)[1] IN
           /\ got' = [got EXCEPT ![s] = <<byte>>]
           /\ line' = [line EXCEPT ![s] = edited(@, byte)]
           /\ at' = [at EXCEPT ![s] = IF byte = "nl" THEN "out" ELSE "try"]
        /\ r' = r + 1
  /\ UNCHANGED <<device, buf, w, cap>>

Min2(a, b) == IF a < b THEN a ELSE b

\* Mutant: a reader that waits for a full buffer.
attempt_full(p, c) ==
  \/ /\ w - r < c
     /\ at' = [at EXCEPT ![p] = "asleep"]
     /\ UNCHANGED <<r, got>>
  \/ /\ w - r >= c
     /\ \E result \in {oldest(c), Rejected} : got' = [got EXCEPT ![p] = result]
     /\ r' = r + c
     /\ at' = [at EXCEPT ![p] = "out"]

\* sys_read from its getchar_blocking on: sleep, or drain up to c bytes and
\* copy them out.  The bytes are gone even if copy_to_user rejects the buffer.
attempt(p, c) ==
  \/ sleep(p)
  \/ /\ r < w
     /\ LET n == Min2(c, w - r) IN
        /\ \E result \in {oldest(n), Rejected} : got' = [got EXCEPT ![p] = result]
        /\ r' = r + n
     /\ at' = [at EXCEPT ![p] = "out"]

sys_read(p, len) ==
  /\ ~irq /\ at[p] = "out"
  /\ IF len = 0
     THEN got' = [got EXCEPT ![p] = <<>>] /\ UNCHANGED <<r, at, cap>>
     ELSE /\ cap' = [cap EXCEPT ![p] = Min2(len, WRITE_MAX)]
          /\ attempt(p, Min2(len, WRITE_MAX))
  /\ UNCHANGED <<device, buf, w, line>>

\* Back from proc::sleep.
sys_read_woken(p) ==
  /\ ~irq /\ at[p] = "try"
  /\ attempt(p, cap[p])
  /\ UNCHANGED <<device, buf, w, cap, line>>

----------------------------------------------------------------------------
Interrupt == claim \/ on_input \/ complete

Reading(t) ==
  \/ t \in Shell /\ getchar_blocking(t)
  \/ t \in User /\ sys_read_woken(t)

Next ==
  \/ \E b \in Received : receive(b)
  \/ Interrupt
  \/ \E s \in Shell : read_line(s)
  \/ \E p \in User : \E len \in ReadLen : sys_read(p, len)
  \/ \E t \in Reader : Reading(t)

Spec == Init /\ [][Next]_vars

\* A raised interrupt is taken and its handler runs; a runnable reader runs
\* (Sched: RunnableRuns).  Nobody need type, and nobody need read.
FairSpec == Spec /\ WF_vars(Interrupt) /\ \A t \in Reader : WF_vars(Reading(t))

----------------------------------------------------------------------------
(* Correctness.                                                            *)

\* No input is missed: while a byte is in the ring no reader sleeps, although
\* readers race each other and the interrupt that fills it.
NothingMissed == \A t \in Reader : at[t] = "asleep" => r = w

Q == INSTANCE InputQueue WITH q <- oldest(w - r)

\* The ring with its two growing indices is a bounded queue of the bytes the
\* device receives: on_input drops a byte only when the ring holds INPUT_CAP
\* bytes and otherwise stores the very byte received, CR as NL; each byte is
\* read by one reader, in order; SYS_READ gets consecutive bytes, not mixed
\* with those another reader takes.
ImplementsInputQueue == Q!Spec

\* Input is read: while some reader is in a read, a byte in the ring does not
\* stay there.
InputIsRead ==
  \A n \in 0..MaxBytes :
    (r = n /\ n < w /\ \E t \in Reader : at[t] # "out") ~> (r > n)

\* What the comment of the echoline program says of SYS_READ ("read one line
\* from the console"): a read that returns less than was asked for returns a
\* line up to its end.
ReadsALine ==
  \A p \in User :
    got[p] \notin {<<>>, Rejected} /\ Len(got[p]) < cap[p] => got[p][Len(got[p])] = "nl"
============================================================================
