-------------------------------- MODULE MCVm --------------------------------
(* Vm on small instances. *)
EXTENDS Vm

NoDtb == {<<0, 0>>}

\* No device tree, or one that begins and ends within a page, over five pages.
Dtbs == NoDtb \cup {<<21, 29>>}
============================================================================
