----------------------------- MODULE ReadThrough ------------------------------
(***************************************************************************)
(* What a node's read-through cache promises to its callers.               *)
(*                                                                         *)
(* Rows carry versions, numbered from 1 in the order of their commits.     *)
(* servable[k] is the set of versions of k that some caller may still be   *)
(* given.  A version becomes servable only while it is the committed one,  *)
(* and once it is dropped it does not come back: an answer is never made   *)
(* up and never resurrected.  How long a superseded version stays servable *)
(* is not promised.                                                        *)
(***************************************************************************)
EXTENDS Naturals

CONSTANTS Keys, Procs

VARIABLES db,       \* db[k]: the committed version, 0 when there is no row
          servable,
          ans       \* ans[p]: what p was last told, 0 for an error

Init == /\ db \in [Keys -> {0, 1}]
        /\ servable = [k \in Keys |-> {}]
        /\ ans = [p \in Procs |-> 0]

Commit(k) == /\ db' = [db EXCEPT ![k] = @ + 1]
             /\ servable' \in {servable, [servable EXCEPT ![k] = @ \cup {db[k] + 1}]}
             /\ UNCHANGED ans

\* The committed version is read, kept for others or not, and told or not.
Load(k) == /\ db[k] > 0
           /\ servable' \in {servable, [servable EXCEPT ![k] = @ \cup {db[k]}]}
           /\ \/ UNCHANGED ans
              \/ \E p \in Procs : ans' = [ans EXCEPT ![p] = db[k]]
           /\ UNCHANGED db

\* Some callers are told a servable version, or of a failure; some versions go.
Tell == /\ \A k \in Keys : servable'[k] \subseteq servable[k]
        /\ \E k \in Keys : \E v \in servable[k] \cup {0} :
             \A p \in Procs : ans'[p] \in {ans[p], v}
        /\ DOMAIN servable' = Keys /\ DOMAIN ans' = Procs
        /\ UNCHANGED db

Next == Tell \/ \E k \in Keys : Commit(k) \/ Load(k)

Spec == Init /\ [][Next]_<<db, servable, ans>>
=============================================================================
