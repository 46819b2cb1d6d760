------------------------------- MODULE MCHeap -------------------------------
(* Heap on small instances. *)
EXTENDS Heap
=============================================================================
