-------------------------------- MODULE MCReads --------------------------------
(***************************************************************************)
(* The instances of Listings and MessageSync, the two readers of Paging,   *)
(* that TLC checks.  They share nothing: in a behaviour either a client    *)
(* reads lists or a tab shows messages.                                    *)
(***************************************************************************)
EXTENDS Listings, MessageSync

VARIABLE reader   \* "list" or "tab"

\* Bounds: a search has three messages to find, one more than its limit, and is
\* not followed any further once it has answered.
FewMessages == mode = "search" => taken < MaxKey
SearchIsOver == mode = "search" /\ phase \in {"done", "failed"}

ReadsInit ==
  \/ reader = "list" /\ ListInit /\ FewMessages /\ SyncInit /\ scope = "dm" /\ given = 0
  \/ /\ reader = "tab" /\ SyncInit /\ ListInit
     /\ list = "friends" /\ mode = "scroll" /\ rows = {}

ReadsNext ==
  \/ /\ reader = "list" /\ ~SearchIsOver /\ ListNext /\ FewMessages'
     /\ UNCHANGED <<reader, syncVars>>
  \/ reader = "tab" /\ SyncNext /\ UNCHANGED <<reader, listVars>>

ReadsSpec == ReadsInit /\ [][ReadsNext]_<<reader, listVars, syncVars>>
             /\ WF_syncVars(reader = "tab" /\ Poll)
=============================================================================
