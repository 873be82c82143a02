---------------------------- MODULE MCGroupCache ------------------------------
(* The cache on a small instance; see GroupCache.cfg. *)
EXTENDS GroupCache, TLC
=============================================================================
