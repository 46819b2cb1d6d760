----------------------------- MODULE MCPrograms -----------------------------
(* Programs on a small instance: three programs at boot, then any commands.   *)
EXTENDS Programs, TLC

BootPrograms == <<"forkexec", "badsys", "catfile">>
Data == "motd" :> <<1, 2, 3>>
=============================================================================
