------------------------------ MODULE MCSched ------------------------------
(* Sched on small instances. *)
EXTENDS SchedInv
============================================================================
