---------------------------- MODULE MCCommunity ----------------------------
(* The instance of Community that TLC checks; see Community.cfg. *)
EXTENDS Community
=============================================================================
