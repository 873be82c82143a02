---------------------------- MODULE DirectMessages ----------------------------
(***************************************************************************)
(* Direct messages: SendDM and GetDMHistory of some user-service nodes,    *)
(* each with its relation cache, over the tables they share, and clients   *)
(* that send a message again when they are not told that it was accepted.  *)
(*                                                                         *)
(* A handler is the sequence of its queries; other requests, and changes   *)
(* of the relations, come between any two of them.                         *)
(***************************************************************************)
EXTENDS Naturals, FiniteSets

CONSTANTS Users, Nodes, Reqs, None,
          Msgs,        \* what clients want to send or to read
          From, To,    \* From[m] sends m to To[m], or reads the history with To[m]
          Histories,   \* the members of Msgs that only read
          Attaching,   \* the messages that carry a file
          MaxChanges,  \* bound on the changes of relations
          MaxFaults    \* bound on failed queries, lost answers and restarts

ASSUME DirectAssumption ==
  /\ From \in [Msgs -> Users] /\ To \in [Msgs -> Users]
  /\ Histories \subseteq Msgs /\ Attaching \subseteq Msgs
  /\ MaxChanges \in Nat /\ MaxFaults \in Nat
  /\ None \notin {"none", "friend", "blocked"}
  /\ Reqs \cap {"ready", "failed", "denied", "accepted"} = {}

VARIABLES rel,      \* rel[d]: the user_relations row of d = <<user, target>>
          cache,    \* cache[n][d]: what node n remembers of rel[d], or None
          flight,   \* flight[n][d]: what node n has read of rel[d] to cache it
          convs,    \* dm_conversations: sets of two users
          rows,     \* rows[m]: rows of dm_messages that hold m
          files,    \* files[m]: rows of attachments that belong to m
          events,   \* events[m]: dm.created events published for m
          req,      \* req[r]: an attempt and where its handler is
          client,   \* client[m]: what the sender of m knows
          unsure,   \* unsure[m]: attempts whose outcome the sender was not told
          moved,    \* moved[n]: what has changed since node n read it (history)
          changes, faults

tables  == <<rel, convs, rows, files>>
vars    == <<rel, cache, flight, convs, rows, files, events, req, client, unsure, moved,
             changes, faults>>
caches  == <<cache, flight>>

Directions == {d \in Users \X Users : d[1] # d[2]}
Free == [msg |-> None, node |-> None, pc |-> "free"]

Init ==
  /\ rel \in [Directions -> {"none", "blocked"}]
  /\ cache = [n \in Nodes |-> [d \in Directions |-> None]] /\ flight = cache
  /\ convs = {}
  /\ rows = [m \in Msgs |-> 0] /\ files = [m \in Msgs |-> 0]
  /\ events = [m \in Msgs |-> 0] /\ unsure = [m \in Msgs |-> 0]
  /\ req = [r \in Reqs |-> Free] /\ client = [m \in Msgs |-> "ready"]
  /\ moved = [n \in Nodes |-> {}] /\ changes = 0 /\ faults = 0

-----------------------------------------------------------------------------
Pc(r, c)  == req' = [req EXCEPT ![r].pc = c]
Fault     == faults < MaxFaults /\ faults' = faults + 1
Pair(m)   == {From[m], To[m]}

\* The handler returns.  The answer reaches the client if it still waits for
\* this attempt.
Waits(r) == client[req[r].msg] = r
Return(r, v) ==
  /\ req' = [req EXCEPT ![r] = Free]
  /\ client' = IF Waits(r) THEN [client EXCEPT ![req[r].msg] = v] ELSE client

\* A client sends, or sends again what was not accepted and not refused.
Submit(r, n, m) ==
  /\ req[r] = Free /\ client[m] \in {"ready", "failed"}
  /\ req' = [req EXCEPT ![r] = [msg |-> m, node |-> n,
                                pc |-> IF m \in Histories THEN "select" ELSE "theirs"]]
  /\ client' = [client EXCEPT ![m] = r]
  /\ UNCHANGED <<tables, caches, events, unsure, moved, changes, faults>>

-----------------------------------------------------------------------------
(* The blocklist, in both directions. *)

\* A user has no relation with himself; that is remembered like any other.
Known(n, d) == IF d \in Directions THEN cache[n][d] ELSE "none"

\* What the node remembers decides; "no relation" is remembered too, and nothing
\* is ever invalidated.  Else the first to ask reads the table, and what it read
\* is cached a step later, however the relation has changed by then; whoever asks
\* meanwhile waits for the same value.  A read that fails fails its handler.
CheckRelation(r, d, next) ==
  LET n == req[r].node
      v == Known(n, d)
  IN /\ \/ /\ v # None
           /\ IF v = "blocked" THEN Return(r, "denied") ELSE Pc(r, next) /\ UNCHANGED client
           /\ UNCHANGED <<caches, faults>>
        \/ /\ v = None /\ flight[n][d] = None
           /\ flight' = [flight EXCEPT ![n][d] = rel[d]]
           /\ UNCHANGED <<cache, req, client, faults>>
        \/ /\ v = None /\ flight[n][d] # None
           /\ cache' = [cache EXCEPT ![n][d] = flight[n][d]]
           /\ flight' = [flight EXCEPT ![n][d] = None]
           /\ UNCHANGED <<req, client, faults>>
        \/ /\ d \in Directions => v = None /\ flight[n][d] = None
           /\ Fault /\ Return(r, "failed")
           /\ UNCHANGED caches
     /\ UNCHANGED <<tables, events, unsure, moved, changes>>

CheckTheirs(r) ==
  LET m == req[r].msg IN
  req[r].pc = "theirs" /\ CheckRelation(r, <<To[m], From[m]>>, "ours")

\* One direction is enough.
SkipOurs(r) ==
  /\ req[r].pc = "ours" /\ Pc(r, "select")
  /\ UNCHANGED <<tables, caches, events, client, unsure, moved, changes, faults>>

CheckOurs(r) ==
  LET m == req[r].msg IN
  req[r].pc = "ours" /\ CheckRelation(r, <<From[m], To[m]>>, "select")

-----------------------------------------------------------------------------
(* GetOrCreateConversation: a SELECT, and an INSERT if it found nothing. *)

AfterConversation(r) == IF req[r].msg \in Histories THEN "read" ELSE "insert"

\* No look before the INSERT.
AlwaysCreate(r) ==
  /\ req[r].pc = "select" /\ Pc(r, "create")
  /\ UNCHANGED <<tables, caches, events, client, unsure, moved, changes, faults>>

SelectConversation(r) ==
  LET m == req[r].msg IN
  /\ req[r].pc = "select"
  /\ \/ /\ Pc(r, IF Pair(m) \in convs THEN AfterConversation(r) ELSE "create")
        /\ UNCHANGED <<client, faults>>
     \/ Fault /\ Return(r, "failed")
  /\ UNCHANGED <<tables, caches, events, unsure, moved, changes>>

\* The pair is unique, and user_a_id < user_b_id: of two first messages one
\* fails, and so does every message to oneself.
CreateConversation(r) ==
  LET m == req[r].msg IN
  /\ req[r].pc = "create"
  /\ \/ /\ Pair(m) \notin convs /\ From[m] # To[m]
        /\ convs' = convs \cup {Pair(m)}
        /\ Pc(r, AfterConversation(r))
        /\ UNCHANGED <<client, faults>>
     \/ /\ Pair(m) \in convs \/ From[m] = To[m]
        /\ Return(r, "failed") /\ UNCHANGED <<convs, faults>>
     \/ Fault /\ Return(r, "failed") /\ UNCHANGED convs
  /\ UNCHANGED <<rel, rows, files, caches, events, unsure, moved, changes>>

ReadHistory(r) ==
  /\ req[r].pc = "read"
  /\ \/ Return(r, "accepted") /\ UNCHANGED faults
     \/ Fault /\ Return(r, "failed")
  /\ UNCHANGED <<tables, caches, events, unsure, moved, changes>>

-----------------------------------------------------------------------------
(* The message, its files, its event. *)

\* An INSERT that fails may have been committed.
InsertDMMessage(r) ==
  LET m == req[r].msg IN
  /\ req[r].pc = "insert"
  /\ \/ /\ rows' = [rows EXCEPT ![m] = @ + 1]
        /\ Pc(r, "attach")
        /\ UNCHANGED <<client, unsure, faults>>
     \/ /\ Fault /\ Return(r, "failed")
        /\ \/ UNCHANGED <<rows, unsure>>
           \/ /\ rows' = [rows EXCEPT ![m] = @ + 1]
              /\ unsure' = [unsure EXCEPT ![m] = @ + 1]
  /\ UNCHANGED <<rel, convs, files, caches, events, moved, changes>>

\* A message whose file could not be attached is refused.
AttachOrFail(r) ==
  LET m == req[r].msg IN
  /\ req[r].pc = "attach"
  /\ \/ /\ files' = [files EXCEPT ![m] = IF m \in Attaching THEN @ + 1 ELSE @]
        /\ Pc(r, "publish") /\ UNCHANGED <<client, faults>>
     \/ /\ m \in Attaching /\ Fault
        /\ Return(r, "failed") /\ UNCHANGED files
  /\ UNCHANGED <<rel, convs, rows, caches, events, unsure, moved, changes>>

\* An error is logged and the message goes on without its file.
InsertAttachments(r) ==
  LET m == req[r].msg IN
  /\ req[r].pc = "attach" /\ Pc(r, "publish")
  /\ \/ /\ files' = [files EXCEPT ![m] = IF m \in Attaching THEN @ + 1 ELSE @]
        /\ UNCHANGED faults
     \/ m \in Attaching /\ Fault /\ UNCHANGED files
  /\ UNCHANGED <<rel, convs, rows, caches, events, client, unsure, moved, changes>>

\* An error is logged and the answer is success.
publishDMCreated(r) ==
  LET m == req[r].msg IN
  /\ req[r].pc = "publish" /\ Return(r, "accepted")
  /\ \/ events' = [events EXCEPT ![m] = @ + 1] /\ UNCHANGED faults
     \/ Fault /\ UNCHANGED events
  /\ UNCHANGED <<tables, caches, unsure, moved, changes>>

-----------------------------------------------------------------------------
\* The client stops waiting: the answer is lost or too late, the handler goes on.
GiveUp(r) ==
  /\ req[r] # Free /\ Waits(r) /\ Fault
  /\ client' = [client EXCEPT ![req[r].msg] = "failed"]
  /\ unsure' = [unsure EXCEPT ![req[r].msg] = @ + 1]
  /\ UNCHANGED <<tables, caches, events, req, moved, changes>>

\* A node dies, with its cache and the requests it was working on.
Restart(n) ==
  LET gone == {r \in Reqs : req[r] # Free /\ req[r].node = n} IN
  /\ Fault
  /\ cache' = [cache EXCEPT ![n] = [d \in Directions |-> None]]
  /\ flight' = [flight EXCEPT ![n] = cache'[n]]
  /\ moved' = [moved EXCEPT ![n] = {}]
  /\ req' = [r \in Reqs |-> IF r \in gone THEN Free ELSE req[r]]
  /\ client' = [m \in Msgs |-> IF client[m] \in gone THEN "failed" ELSE client[m]]
  /\ unsure' = [m \in Msgs |-> IF client[m] \in gone THEN unsure[m] + 1 ELSE unsure[m]]
  /\ UNCHANGED <<tables, events, changes>>

\* CreateRelation and DeleteRelation: no RPC calls them, so no node hears of it.
ChangeRelation(d, v) ==
  /\ changes < MaxChanges /\ rel[d] # v
  /\ rel' = [rel EXCEPT ![d] = v]
  /\ moved' = [n \in Nodes |-> IF cache[n][d] = None /\ flight[n][d] = None
                               THEN moved[n] ELSE moved[n] \cup {d}]
  /\ changes' = changes + 1
  /\ UNCHANGED <<convs, rows, files, caches, events, req, client, unsure, faults>>

Step(r) == \/ CheckTheirs(r) \/ CheckOurs(r) \/ SelectConversation(r)
           \/ CreateConversation(r) \/ ReadHistory(r) \/ InsertDMMessage(r)
           \/ InsertAttachments(r) \/ publishDMCreated(r)

Next ==
  \/ \E r \in Reqs : Step(r) \/ GiveUp(r)
  \/ \E r \in Reqs, n \in Nodes, m \in Msgs : Submit(r, n, m)
  \/ \E n \in Nodes : Restart(n)
  \/ \E d \in Directions, v \in {"none", "friend", "blocked"} : ChangeRelation(d, v)

Spec == Init /\ [][Next]_vars

\* Handlers run to their end; a client that was not answered tries again.
FairSpec ==
  /\ Spec
  /\ \A r \in Reqs : WF_vars(Step(r))
  /\ \A m \in Msgs : SF_vars(\E r \in Reqs, n \in Nodes : Submit(r, n, m))

-----------------------------------------------------------------------------
(* Properties *)

\* A message is stored once, and once more only for an attempt whose outcome
\* its sender was not told: an answer lost on its way, a node that died, or an
\* INSERT that failed for the handler and was committed all the same (`unsure`).
\* Any other error has left no message, so that sending it again makes no
\* duplicate.  Reading a history may open the conversation and stores nothing.
DuplicateIsExplained ==
  \A m \in Msgs : /\ rows[m] <= 1 + unsure[m]
                  /\ events[m] <= rows[m] /\ files[m] <= rows[m]
                  /\ client[m] = "accepted" /\ m \notin Histories => rows[m] >= 1
                  /\ m \in Histories => rows[m] = 0

\* A message gets past the blocklist, while either user blocks the other, only
\* if the relation has changed since the node read it, be it between that read
\* and the caching of what was read: never on a value that was read under the
\* block, never by a fault, a retry, a restart or a fill that was shared.
BlockHolds ==
  \A r \in Reqs : req[r] # Free /\ req[r].pc \in {"select", "create", "insert", "attach"} =>
    LET m == req[r].msg IN
    m \notin Histories =>
      \A d \in {<<To[m], From[m]>>, <<From[m], To[m]>>} \cap Directions :
        rel[d] = "blocked" => d \in moved[req[r].node]

\* Sending again ends in acceptance or refusal: the race for the first message
\* of a conversation costs its loser one attempt and no more.
RetriesSucceed ==
  \A m \in Msgs : From[m] # To[m] =>
    ((client[m] # "ready") ~> (client[m] \in {"accepted", "denied"}))
=============================================================================
