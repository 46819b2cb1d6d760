---------------------------- MODULE UserPrograms ----------------------------
(***************************************************************************)
(* The embedded user programs of user.rs, as tables of the calls and traps *)
(* they make.  The instructions between two of them belong to the one      *)
(* before: after a call a program goes to `go' of what a0 and the buffer   *)
(* then are ("err", "zero", "pos", and for a line "blank" or "q"), or else *)
(* to the next entry.                                                      *)
(***************************************************************************)
EXTENDS Integers, Sequences

NoJump == [class \in {} |-> 0]
Jump(call, arg, go) == [call |-> call, arg |-> arg, go |-> go]
Op(call, arg) == Jump(call, arg, NoJump)

Write(text) == Op("write", text)   \* a text of the program, or its buffer
Exit(code) == Op("exit", code)
Nap == Op("sleep_ms", "none")

\* The three rounds are unrolled.
greeter ==
  << Write("hello"), Nap, Write("hello"), Nap, Write("hello"), Nap,
     Op("getpid", "none"), Write("stack"), Exit("success") >>

trespasser == << Write("about_to_touch"), Op("load", "kernel"), Exit("failure") >>

badsys ==
  << Op("ebreak", "none"),
     Jump("write", "past", [zero |-> 7, pos |-> 7]),
     Jump("write", "wraps", [zero |-> 7, pos |-> 7]),
     Nap, Write("survived"), Exit("success"),
     Write("FAILED"), Exit("failure") >>

uname == << Op("uname", "none"), Write("stack"), Exit("success") >>

echoline ==
  << Write("type_a_line"), Op("read", "none"), Write("you_typed"), Write("stack"),
     Exit("success") >>

catfile ==
  << Jump("open", "motd", [err |-> 6]),
     Jump("fread", "none", [zero |-> 4, err |-> 4]),
     Jump("write", "stack", [zero |-> 2, pos |-> 2, err |-> 2]),
     Op("close", "none"), Exit("success"),
     Write("FAILED"), Exit("failure") >>

heapgrow ==
  << Jump("sbrk", "none", [err |-> 7]),
     Op("store", "heap0"), Op("store", "heap1"),
     Write("demand-paged"), Write("stack"), Exit("success"),
     Write("FAILED"), Exit("failure") >>

forker ==
  << Jump("fork", "none", [zero |-> 5]),
     Op("wait", "none"), Write("parent"), Exit("success"),
     Write("child"), Exit("success") >>

forkexec ==
  << Jump("fork", "none", [zero |-> 5]),
     Op("wait", "none"), Write("parent"), Exit("success"),
     Op("exec", "greeter"), Write("FAILED"), Exit("failure") >>

ush ==
  << Write("osh$"),
     Jump("read", "none", [zero |-> 1, err |-> 1, blank |-> 1, q |-> 7]),
     Jump("fork", "none", [zero |-> 4, pos |-> 8]),
     \* The parent waits at 8.
     Op("exec", "stack"), Write("unknown_command"), Exit("failure"),
     Exit("success"),
     Jump("wait", "none", [zero |-> 1]) >>

Code ==
  [greeter |-> greeter, trespasser |-> trespasser, badsys |-> badsys,
   uname |-> uname, echoline |-> echoline, catfile |-> catfile,
   heapgrow |-> heapgrow, forker |-> forker, forkexec |-> forkexec, ush |-> ush]
Program == DOMAIN Code

\* What SYS_EXEC finds.
lookup == {"greeter", "uname", "heapgrow", "forker", "catfile"}
=============================================================================
