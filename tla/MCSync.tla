------------------------------- MODULE MCSync -------------------------------
(* Sync on a small instance. *)
EXTENDS Sync
============================================================================
