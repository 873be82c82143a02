------------------------------ MODULE MessageSync ------------------------------
(***************************************************************************)
(* The messages one tab of the web client shows of one DM or channel: the  *)
(* messages store, the cursor of the sync store, the polling of            *)
(* useMessageSync, the history loads of MessageList and the pushes, over   *)
(* the table of messages.  A message is its seq.                           *)
(*                                                                         *)
(* Every REST call is a step that sends it, one in which the service reads *)
(* the table and one in which the answer arrives, so that answers may be   *)
(* applied to a store that has moved on.                                   *)
(***************************************************************************)
EXTENDS Paging

CONSTANTS MaxSeq,         \* seqs are 1..MaxSeq
          Fills,          \* backfills that may be out at the same time
          Histories,      \* history requests that may be out at the same time
          HistoryLimit, BackfillLimit,   \* 50 and 200
          MaxBroken,      \* calls that fail or break off
          MaxReloads

ASSUME SyncAssumption ==
  /\ MaxSeq \in Nat /\ MaxBroken \in Nat /\ MaxReloads \in Nat
  /\ HistoryLimit \in Nat \ {0} /\ BackfillLimit \in Nat \ {0}
  /\ Fills \cap Histories = {}

VARIABLES scope,      \* "dm" or "channel"
          committed,  \* messages in the table
          flying,     \* messages that have their seq and are not committed
          given,      \* the last seq given out
          view,       \* the messages the store holds for the scope
          loaded,     \* the scope is a key of the store
          mark,       \* the cursor of the scope in the sync store
          ready,      \* loadState of MessageList
          call,       \* call[c]: a REST call
          lowest,     \* the view has no hole from here to the cursor, but for
          missed,     \*   seqs in flight when the page around them was read
          overtaken,  \*   and messages that came while older history was out
          broken, reloads

tableVars == <<scope, committed, flying, given>>
ghosts    == <<lowest, missed, overtaken>>
syncVars  == <<tableVars, view, loaded, mark, ready, call, ghosts, broken, reloads>>

Calls == Fills \cup Histories
Seqs  == 1..MaxSeq

NoCall == [stage |-> "idle", kind |-> "none", since |-> 0, have |-> {},
           items |-> {}, late |-> {}]

SyncInit ==
  /\ scope \in {"dm", "channel"}
  /\ given \in 0..MaxSeq /\ flying = {}
  /\ committed \in SUBSET (1..given) /\ (scope = "dm" => committed = 1..given)
  /\ view = {} /\ loaded = FALSE /\ ready = FALSE
  /\ mark \in 0..given
  /\ call = [c \in Calls |-> NoCall]
  /\ lowest = mark + 1 /\ missed = {} /\ overtaken = {}
  /\ broken = 0 /\ reloads = 0

-----------------------------------------------------------------------------
(* The table.  An INSERT takes its seq before it commits; one that fails   *)
(* stays in flight.                                                        *)
TakeSeq ==
  /\ given < MaxSeq
  /\ given' = given + 1 /\ flying' = flying \cup {given + 1}
  /\ UNCHANGED <<scope, committed, view, loaded, mark, ready, call, ghosts, broken,
                 reloads>>

CommitSeq(k) ==
  /\ k \in flying
  /\ flying' = flying \ {k} /\ committed' = committed \cup {k}
  /\ UNCHANGED <<scope, given, view, loaded, mark, ready, call, ghosts, broken,
                 reloads>>

DeleteMessage(k) ==
  /\ scope = "channel" /\ k \in committed
  /\ committed' = committed \ {k}
  /\ UNCHANGED <<scope, flying, given, view, loaded, mark, ready, call, ghosts,
                 broken, reloads>>

-----------------------------------------------------------------------------
(* The store *)

\* The history requests that are out, but for those of D.
HistoryOut(D) == {d \in Histories \ D : call[d].stage # "idle"}

\* What arrives while history is out may be overwritten when that arrives; once
\* none is out, what is in the view stays there.
Overtake(D, A, v) ==
  IF HistoryOut(D) # {} THEN overtaken \cup (A \ view) ELSE overtaken \ v

\* append*Message: a push, or the ack of a message of one's own.  Pushes come in
\* any order, more than once, or not at all; they leave the cursor alone.
AppendMessage(k) ==
  /\ k \in (1..given) \ flying
  /\ view' = view \cup {k} /\ loaded' = TRUE
  /\ overtaken' = Overtake({}, {k}, view \cup {k})
  /\ UNCHANGED <<tableVars, mark, ready, call, lowest, missed, broken, reloads>>

\* handleDelete, once the service has deleted the message.
RemoveMessage(k) ==
  /\ scope = "channel" /\ k \in view \ committed
  /\ view' = view \ {k} /\ loaded' = TRUE
  /\ UNCHANGED <<tableVars, mark, ready, call, ghosts, broken, reloads>>

\* The tab is loaded again; the cursor is what this or another tab stored last.
Reload(m) ==
  /\ reloads < MaxReloads /\ reloads' = reloads + 1
  /\ m \in (0..given) \ flying
  /\ view' = {} /\ loaded' = FALSE /\ ready' = FALSE /\ mark' = m
  /\ call' = [c \in Calls |-> NoCall]
  /\ lowest' = m + 1 /\ missed' = {} /\ overtaken' = {}
  /\ UNCHANGED <<tableVars, broken>>

-----------------------------------------------------------------------------
(* The calls *)
Send(c, kind, since, have) ==
  call' = [call EXCEPT ![c] = [NoCall EXCEPT !.stage = "sent", !.kind = kind,
                                           !.since = since, !.have = have]]

\* No poll of a list that has messages already.
PolledEmpty(c) == call[c].stage = "idle" /\ view = {}

\* On connect, when the tab becomes visible and every thirty seconds.
Polled(c) == call[c].stage = "idle"

\* backfillAll asks for what follows the cursor of every scope in the store.
BackfillAll(c) ==
  /\ loaded /\ Polled(c)
  /\ Send(c, "fill", mark, {})
  /\ UNCHANGED <<tableVars, view, loaded, mark, ready, ghosts, broken, reloads>>

\* loadHistory, when the route changes or after an error.
LoadHistory(c) ==
  /\ call[c].stage = "idle"
  /\ Send(c, "load", 0, {}) /\ ready' = FALSE
  /\ UNCHANGED <<tableVars, view, loaded, mark, ghosts, broken, reloads>>

\* handleScroll near the top.  The closure keeps the messages as they are now.
LoadMore(c) ==
  /\ call[c].stage = "idle" /\ ready
  /\ \A d \in Histories : call[d].kind # "more"
  /\ Send(c, "more", 0, view)
  /\ UNCHANGED <<tableVars, view, loaded, mark, ready, ghosts, broken, reloads>>

RequestOf(c) ==
  [limit |-> IF call[c].kind = "fill" THEN BackfillLimit ELSE HistoryLimit,
   cursor |-> 0, since |-> call[c].since]

HistoryOf(c) == IF scope = "dm" THEN DMHistoryRpc(committed, RequestOf(c))
                                ELSE GetMessagesRpc(committed, RequestOf(c))

Direction(c) == IF call[c].since > 0 THEN "asc" ELSE "desc"

\* The service reads the table; late is what the page leaves out because it is
\* not committed.
Answered(c, items) ==
  call' = [call EXCEPT ![c].stage = "answered", ![c].items = items,
                       ![c].late = {k \in flying : \E i \in items : k < i}]

ReadTable(c) ==
  /\ call[c].stage = "sent"
  /\ \/ Answered(c, HistoryOf(c).items) /\ UNCHANGED broken
     \/ /\ broken < MaxBroken /\ broken' = broken + 1
        /\ \E p \in Short(Direction(c), HistoryOf(c)) : Answered(c, p.items)
  /\ UNCHANGED <<tableVars, view, loaded, mark, ready, ghosts, reloads>>

\* The call fails: a load shows an error, the others wait for the next occasion.
CallFails(c) ==
  /\ call[c].stage # "idle"
  /\ broken < MaxBroken /\ broken' = broken + 1
  /\ call' = [call EXCEPT ![c] = NoCall]
  /\ ready' = (ready /\ call[c].kind # "load")
  /\ UNCHANGED <<tableVars, view, loaded, mark, ghosts, reloads>>

\* advanceDM, advanceChannel: the cursor only grows.
Advance(m, items) == Max({m} \cup items)

\* An answer is applied to the store as it is by then.
Arrive(c, kind, v) ==
  /\ call[c].stage = "answered" /\ call[c].kind = kind
  /\ view' = v
  /\ call' = [call EXCEPT ![c] = NoCall]
  /\ overtaken' = Overtake({c}, call[c].items, v)
  /\ UNCHANGED <<tableVars, broken, reloads>>

\* set*Messages in place of merge*Messages.
ReplaceWithBackfill(c) ==
  LET items == call[c].items IN
  /\ Arrive(c, "fill", items)
  /\ loaded' = TRUE
  /\ mark' = Advance(mark, items)
  /\ lowest' = IF call[c].since = 0 /\ items # {} THEN Max({lowest, Min(items)})
                                                  ELSE lowest
  /\ missed' = missed \cup call[c].late
  /\ UNCHANGED ready

\* merge*Messages, then advance with the largest seq of the batch.
MergeBackfill(c) ==
  LET items == call[c].items IN
  /\ Arrive(c, "fill", view \cup items)
  /\ loaded' = TRUE
  /\ mark' = Advance(mark, items)
  /\ lowest' = IF call[c].since = 0 /\ items # {} THEN Max({lowest, Min(items)})
                                                  ELSE lowest
  /\ missed' = missed \cup call[c].late
  /\ UNCHANGED ready

\* set*Messages with the newest page: what else was in the view is gone.
SetHistory(c) ==
  LET items == call[c].items IN
  /\ Arrive(c, "load", items)
  /\ loaded' = TRUE /\ ready' = TRUE
  /\ mark' = Advance(mark, items)
  /\ lowest' = IF items = {} THEN mark + 1
               ELSE IF Max(items) < lowest THEN lowest ELSE Min(items)
  /\ missed' = missed \cup call[c].late

\* The page, and the messages as they were when the user scrolled.
PrependOlder(c) ==
  LET items == call[c].items
      have  == call[c].have
      older == items \ have
  IN /\ Arrive(c, "more", IF older # {} THEN older \cup have ELSE view)
     /\ loaded' = (loaded \/ older # {})
     /\ UNCHANGED <<mark, ready, lowest, missed>>

Poll == \E c \in Fills : BackfillAll(c) \/ ReadTable(c) \/ MergeBackfill(c)

SyncNext ==
  \/ TakeSeq \/ \E k \in Seqs : CommitSeq(k) \/ DeleteMessage(k)
  \/ \E k \in Seqs : AppendMessage(k) \/ RemoveMessage(k)
  \/ \E m \in 0..MaxSeq : Reload(m)
  \/ \E c \in Histories : \/ LoadHistory(c) \/ LoadMore(c) \/ ReadTable(c)
                          \/ SetHistory(c) \/ PrependOlder(c)
  \/ \E c \in Calls : CallFails(c)
  \/ Poll

SyncSpec == SyncInit /\ [][SyncNext]_syncVars

\* The polling timer fires, and calls end.
FairSync == SyncSpec /\ WF_syncVars(Poll)

-----------------------------------------------------------------------------
(* Properties *)

\* The view has no hole: from the oldest message of the last load up to the
\* cursor every committed message is shown, but for those that were not committed
\* when the page around them was read (no later poll asks for them), and those
\* that arrived while an older history request was out, whose answer overwrites
\* the store; whatever the order of answers, pushes and commits.
ViewHasNoHole ==
  \A k \in committed : k \in lowest..mark => k \in view \cup missed \cup overtaken

\* Polling brings every message that is there, with those two exceptions.
BackfillConverges ==
  \A k \in Seqs :
    (loaded /\ k \in committed /\ k >= lowest)
      ~> (k \in view \cup missed \cup overtaken \/ k \notin committed \/ k < lowest
          \/ ~loaded)
=============================================================================
