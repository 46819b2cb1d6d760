------------------------------- MODULE MCLocks -------------------------------
(* Locks with two threads and the kinds of nesting in the kernel: an        *)
(* allocation under FS, getchar under push_off, wakeup inside exit, and the *)
(* reaping of a process by the scheduler loop.                              *)
EXTENDS Locks

Nesting == {<<"FS", "HEAP">>, <<"off", "INPUT">>, <<"off", "HEAP">>, <<"off", "wakeup">>}
Order == [r \in Region |-> IF r = "off" THEN 0 ELSE IF r = "HEAP" THEN 2 ELSE 1]
==============================================================================
