--------------------------- MODULE MessagePipeline ---------------------------
(***************************************************************************)
(* One message scope, a channel or a DM conversation, from the INSERT of a *)
(* message to the pushes its other members receive:                        *)
(*   - community-service SendMessage (user-service SendDM): insert the row,*)
(*     publish constell.message.created (constell.dm.created);             *)
(*   - notify-service Subscriber: one durable JetStream consumer, handled  *)
(*     one event at a time, acknowledged at the end, redelivered when not; *)
(*   - notify-service Store: the read cursor last_read_seq of each member; *)
(*   - ws-gateway PushSubscriber: delivery to the local connections.       *)
(* A DM conversation is the scope with two members.                        *)
(*                                                                         *)
(* seq is an IDENTITY column: the number is taken when the INSERT executes  *)
(* and the row is visible when it commits, so that concurrent INSERTs may   *)
(* become visible in another order than that of their seq.                 *)
(***************************************************************************)
EXTENDS Naturals, Sequences, FiniteSets

CONSTANTS
  Members,      \* the members of the scope
  Gateways,
  None,         \* no gateway; no sender
  MaxSeq,       \* bound on the messages sent
  MaxCrashes,   \* bound on the crashes and failed calls of notify-service
  MaxLosses,    \* bound on lost events and pushes
  MaxMoves      \* bound on the connections that come and go

ASSUME NoneAssumption == None \notin Members \cup Gateways
ASSUME BoundsAssumption ==
  MaxSeq \in Nat /\ MaxCrashes \in Nat /\ MaxLosses \in Nat /\ MaxMoves \in Nat

VARIABLES
  row,          \* row[s]: the state of the message with that seq
  from,         \* from[s]: its author
  sent,         \* the seqs whose handler has gone past the publish
  stream,       \* the seqs whose event JetStream still has to get acked
  cur, step,    \* the event the subscriber handles (0: none) and its progress
  todo,         \* the targets handleMessageCreated has yet to push to
  cursor,       \* cursor[u]: last_read_seq, 0 when there is no row
  registry,     \* registry[u]: the gateway under ws:uid:u
  table,        \* table[g]: the users with an entry in the ConnManager of g
  pushes,       \* pushes[g]: the messages pending on NATS subject gw.push.g
  got,          \* got[u][s]: how often u received the push of message s
  marks,        \* history: marks[u], the rows visible at a mark-read of u
  late,         \* history: rows committed after a row with a larger seq
  unmarked,     \* history: messages whose event was lost or whose advance failed
  crashes, losses, moves

vars == <<row, from, sent, stream, cur, step, todo, cursor, registry, table,
          pushes, got, marks, late, unmarked, crashes, losses, moves>>
server == <<row, from, sent>>
handler == <<cur, step, todo>>
delivery == <<registry, table, pushes, got>>
history == <<marks, late, unmarked>>
faults == <<crashes, losses, moves>>

Seqs == 1..MaxSeq
Targets(s) == Members \ {from[s]}
Visible == {s \in Seqs : row[s] = "committed"}

(* Store.GetUnreadChannels and GetUnreadDMs: the rows past the cursor, those *)
(* of the user itself included.  Nothing stores the count.                  *)
Unread(u) == {s \in Visible : s > cursor[u]}

Larger(a, b) == IF a > b THEN a ELSE b

(* One type invariant for the module. *)
TypeOK ==
  /\ row \in [Seqs -> {"none", "pending", "committed", "deleted"}]
  /\ from \in [Seqs -> Members \cup {None}]
  /\ sent \in SUBSET Seqs
  /\ stream \in SUBSET Seqs
  /\ cur \in 0..MaxSeq
  /\ step \in {"idle", "advance", "push"}
  /\ todo \in SUBSET Members
  /\ cursor \in [Members -> 0..MaxSeq]
  /\ registry \in [Members -> Gateways \cup {None}]
  /\ table \in [Gateways -> SUBSET Members]
  /\ pushes \in [Gateways -> Seq(Seqs)]
  /\ got \in [Members -> [Seqs -> Nat]]
  /\ marks \in [Members -> SUBSET Seqs]
  /\ late \in SUBSET Seqs
  /\ unmarked \in SUBSET Seqs
  /\ crashes \in 0..MaxCrashes /\ losses \in 0..MaxLosses /\ moves \in 0..MaxMoves

(* An empty scope; each member is connected to a gateway or to none. *)
Init ==
  /\ row = [s \in Seqs |-> "none"]
  /\ from = [s \in Seqs |-> None]
  /\ sent = {} /\ stream = {}
  /\ cur = 0 /\ step = "idle" /\ todo = {}
  /\ cursor = [u \in Members |-> 0]
  /\ registry \in [Members -> Gateways \cup {None}]
  /\ table = [g \in Gateways |-> {u \in Members : registry[u] = g}]
  /\ pushes = [g \in Gateways |-> <<>>]
  /\ got = [u \in Members |-> [s \in Seqs |-> 0]]
  /\ marks = [u \in Members |-> {}]
  /\ late = {} /\ unmarked = {}
  /\ crashes = 0 /\ losses = 0 /\ moves = 0

Crashes == crashes < MaxCrashes /\ crashes' = crashes + 1 /\ UNCHANGED <<losses, moves>>
Loses == losses < MaxLosses /\ losses' = losses + 1 /\ UNCHANGED <<crashes, moves>>
Moves == moves < MaxMoves /\ moves' = moves + 1 /\ UNCHANGED <<crashes, losses>>

-----------------------------------------------------------------------------
(* SendMessage or SendDM of u, past its checks: the INSERT takes the next    *)
(* seq, not yet visible to others.                                          *)
Insert(u, s) ==
  /\ row[s] = "none" /\ \A t \in 1..(s - 1) : row[t] # "none"
  /\ row' = [row EXCEPT ![s] = "pending"]
  /\ from' = [from EXCEPT ![s] = u]
  /\ UNCHANGED <<sent, stream, handler, cursor, delivery, history, faults>>

Commit(s) ==
  /\ row[s] = "pending"
  /\ row' = [row EXCEPT ![s] = "committed"]
  /\ late' = IF \E t \in s..MaxSeq : row[t] \in {"committed", "deleted"}
             THEN late \cup {s} ELSE late
  /\ UNCHANGED <<from, sent, stream, handler, cursor, delivery, marks,
                 unmarked, faults>>

(* publishMessageCreated or publishDMCreated: a core NATS publish, whose     *)
(* failure is only logged.  The event is lost as well when the process dies  *)
(* before it, and when it stays in the stream for more than MaxAge.         *)
Publish(s) ==
  /\ row[s] \in {"committed", "deleted"} /\ s \notin sent
  /\ sent' = sent \cup {s}
  /\ \/ stream' = stream \cup {s} /\ UNCHANGED <<unmarked, faults>>
     \/ Loses /\ unmarked' = unmarked \cup {s} /\ UNCHANGED stream
  /\ UNCHANGED <<row, from, handler, cursor, delivery, marks, late>>

(* DeleteMessage by the author. *)
Delete(s) ==
  /\ row[s] = "committed"
  /\ row' = [row EXCEPT ![s] = "deleted"]
  /\ UNCHANGED <<from, sent, stream, handler, cursor, delivery, history, faults>>

-----------------------------------------------------------------------------
(* Fault variant: the last value of the sequence, not of a visible row. *)
IsLastValue(m) ==
  /\ m = 0 \/ (m \in Seqs /\ row[m] # "none")
  /\ \A t \in Seqs : row[t] # "none" => t <= m

(* Store.MarkChannelRead and MarkDMRead: GREATEST(cursor, m) with m the      *)
(* largest visible seq, COALESCE(max(seq), 0).                              *)
IsMaxSeq(m) == m \in Visible \cup {0} /\ \A t \in Visible : t <= m

MarkRead(u, m) ==
  /\ IsMaxSeq(m)
  /\ cursor' = [cursor EXCEPT ![u] = Larger(@, m)]
  /\ marks' = [marks EXCEPT ![u] = @ \cup Visible]
  /\ UNCHANGED <<server, stream, handler, delivery, late, unmarked, faults>>

(* Fault variants: no GREATEST, and no user in the key. *)
AdvanceNoGreatest(u, s) == [cursor EXCEPT ![u] = s]
AdvanceEveryone(u, s) == [v \in Members |-> Larger(cursor[v], s)]

(* Store.AdvanceChannelRead and AdvanceDMRead: GREATEST(cursor, seq). *)
AdvanceRead(u, s) == [cursor EXCEPT ![u] = Larger(@, s)]

-----------------------------------------------------------------------------
(* Fault variants: the event is acked before it is handled, or never. *)
ReceiveAcked(s) ==
  /\ cur = 0 /\ s \in stream
  /\ cur' = s /\ step' = "advance" /\ todo' = {} /\ stream' = stream \ {s}
  /\ UNCHANGED <<server, cursor, delivery, history, faults>>

NeverAck ==
  /\ step = "push" /\ todo = {}
  /\ cur' = 0 /\ step' = "idle"
  /\ UNCHANGED <<server, stream, todo, cursor, delivery, history, faults>>

(* The consumer hands the subscriber an event that was not acked. *)
Receive(s) ==
  /\ cur = 0 /\ s \in stream
  /\ cur' = s /\ step' = "advance" /\ todo' = {}
  /\ UNCHANGED <<server, stream, cursor, delivery, history, faults>>

(* The sender's cursor; a database error is logged and the handler goes on. *)
Advance ==
  /\ step = "advance"
  /\ \/ cursor' = AdvanceRead(from[cur], cur) /\ UNCHANGED <<unmarked, faults>>
     \/ Crashes /\ unmarked' = unmarked \cup {cur} /\ UNCHANGED cursor
  /\ step' = "push" /\ todo' = Targets(cur)
  /\ UNCHANGED <<server, stream, cur, delivery, marks, late>>

(* pushToUser for the next target: the push names all the targets, whichever *)
(* of them was looked up.  No key: the user is offline.                     *)
PushToUser(u) ==
  /\ step = "push" /\ u \in todo
  /\ todo' = todo \ {u}
  /\ pushes' = IF registry[u] = None THEN pushes
               ELSE [pushes EXCEPT ![registry[u]] = Append(@, cur)]
  /\ UNCHANGED <<server, stream, cur, step, cursor, registry, table, got,
                 history, faults>>

(* msg.Ack at the end of the handler; a lost ack leaves the event to be      *)
(* redelivered, and so does one that comes after AckWait.                   *)
Ack ==
  /\ step = "push" /\ todo = {}
  /\ \/ stream' = stream \ {cur} /\ UNCHANGED faults
     \/ Crashes /\ UNCHANGED stream
  /\ cur' = 0 /\ step' = "idle"
  /\ UNCHANGED <<server, todo, cursor, delivery, history>>

(* notify-service restarts in the middle of a handler. *)
Crash ==
  /\ cur # 0 /\ Crashes
  /\ cur' = 0 /\ step' = "idle" /\ todo' = {}
  /\ UNCHANGED <<server, stream, cursor, delivery, history>>

-----------------------------------------------------------------------------
(* DeliverToLocal on gateway g: one write per target with a local entry. *)
Deliver(g) ==
  /\ pushes[g] # <<>>
  /\ LET s == Head(pushes[g]) IN
     got' = [u \in Members |->
               IF u \in table[g] \cap Targets(s)
               THEN [got[u] EXCEPT ![s] = @ + 1] ELSE got[u]]
  /\ pushes' = [pushes EXCEPT ![g] = Tail(@)]
  /\ UNCHANGED <<server, stream, handler, cursor, registry, table, history, faults>>

(* A push is lost: the gateway stopped, or core NATS dropped it. *)
DropPush(g) ==
  /\ pushes[g] # <<>> /\ Loses
  /\ pushes' = [pushes EXCEPT ![g] = Tail(@)]
  /\ UNCHANGED <<server, stream, handler, cursor, registry, table, got, history>>

(* The gateways change the registry and their tables independently of one    *)
(* another: module WsGateway has the steps.                                 *)
RegistryMove(u, g) ==
  /\ Moves /\ g # registry[u]
  /\ registry' = [registry EXCEPT ![u] = g]
  /\ UNCHANGED <<server, stream, handler, cursor, table, pushes, got, history>>

TableMove(u, g) ==
  /\ Moves
  /\ table' = [table EXCEPT ![g] = IF u \in @ THEN @ \ {u} ELSE @ \cup {u}]
  /\ UNCHANGED <<server, stream, handler, cursor, registry, pushes, got, history>>

-----------------------------------------------------------------------------
Handler == Advance \/ (\E u \in Members : PushToUser(u)) \/ Ack

Next ==
  \/ \E s \in Seqs :
       \/ \E u \in Members : Insert(u, s)
       \/ Commit(s) \/ Publish(s) \/ Delete(s) \/ Receive(s)
  \/ Handler \/ Crash
  \/ \E u \in Members :
       \/ \E m \in 0..MaxSeq : MarkRead(u, m)
       \/ \E g \in Gateways \cup {None} : RegistryMove(u, g)
       \/ \E g \in Gateways : TableMove(u, g)
  \/ \E g \in Gateways : Deliver(g) \/ DropPush(g)

Spec == Init /\ [][Next]_vars

(* The subscriber and the gateways run, and JetStream redelivers. *)
Fairness ==
  /\ WF_vars(Handler)
  /\ WF_vars(\E s \in Seqs : Receive(s))
  /\ \A g \in Gateways : WF_vars(Deliver(g))

FairSpec == Spec /\ Fairness

-----------------------------------------------------------------------------
(* A read cursor is 0 or the seq of a message that was visible in the scope: *)
(* no order of marks, sends, deletions and redelivered events moves it to a  *)
(* message that nobody could have read.                                     *)
CursorAnchored ==
  \A u \in Members :
    cursor[u] # 0 => row[cursor[u]] \in {"committed", "deleted"}

(* The messages the sender has to be past: their event was acknowledged.     *)
(* Their author's cursor covers them, and neither a redelivered older event  *)
(* nor a mark-read takes it back, unless the event was lost or the advance   *)
(* itself failed.                                                           *)
OwnMessageRead ==
  \A s \in sent \ (stream \cup unmarked) : cursor[from[s]] >= s

(* The unread count follows from what the member did.  What it marks as read *)
(* stays read, whatever events are redelivered; and a message that was not    *)
(* there at any of its marks is unread until its own event for that message   *)
(* or a later one moves the cursor over it, or is one that committed after a  *)
(* larger seq.  No mark and no message of anybody else moves its cursor.      *)
(* A mark says nothing of what the client had on its screen: it passes all    *)
(* that is in the table when it executes.                                    *)
UnreadIsExact ==
  \A u \in Members :
    /\ marks[u] \cap Unread(u) = {}
    /\ \A s \in Visible \ (Unread(u) \cup marks[u] \cup late) :
         \E t \in sent \cap s..MaxSeq : from[t] = u /\ t <= cursor[u]

-----------------------------------------------------------------------------
(* Every event is handled in the end, through crashes and lost acks. *)
EventsAreHandled == \A s \in Seqs : (s \in stream) ~> (s \notin stream)

(* A member that stays registered and connected on one gateway receives the  *)
(* push of every message published from then on, when no push is lost:       *)
(* notify-service acknowledges an event only after the pushes.              *)
ConnectedAreNotified ==
  \A u \in Members, g \in Gateways, s \in Seqs :
    (/\ s \in stream /\ cur # s /\ u \in Targets(s)
     /\ [](registry[u] = g /\ u \in table[g] /\ losses = 0)) ~> (got[u][s] >= 1)
=============================================================================
