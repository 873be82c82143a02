------------------------------ MODULE MCProcess ------------------------------
(* The instance of Process that TLC checks: all eight mains, every set of    *)
(* dependencies that answer at the start, one that fails and comes back.      *)
EXTENDS Process
=============================================================================
