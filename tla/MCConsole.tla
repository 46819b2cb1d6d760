----------------------------- MODULE MCConsole ------------------------------
(* Console on small instances. *)
EXTENDS Console, TLC

Users == Permutations(User)
============================================================================
