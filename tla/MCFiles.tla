------------------------------- MODULE MCFiles -------------------------------
(* Files on a small instance. *)
EXTENDS Files, TLC

Data == "motd" :> <<1, 2>> @@ "readme" :> <<3>>

\* A kernel page, text, stack and a heap that ends at VA_MAX.
Layout == [page \in UserPage |->
  CASE page = 0 -> "kernel" [] page = 1 -> "rx" [] page = 2 -> "rw" [] OTHER -> "none"]
==============================================================================
