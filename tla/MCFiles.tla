------------------------------- MODULE MCFiles --------------------------------
(* file-service on a small instance; see Files.cfg. *)
EXTENDS Files, TLC

MCMaker == [f \in Files |-> "ann"]

Symmetry == Permutations(Reqs) \cup Permutations(Uploads)
=============================================================================
