------------------------ MODULE MessagePipelineProofs ------------------------
(***************************************************************************)
(* The read cursors of MessagePipeline for any number of members, messages, *)
(* crashes and losses.                                                     *)
(***************************************************************************)
EXTENDS MessagePipeline, TLAPS

Written == {"committed", "deleted"}

(* A row that was inserted has an author, one that was not has none. *)
Authored ==
  \A s \in Seqs : IF row[s] = "none" THEN from[s] = None ELSE from[s] \in Members

(* An event is published for a visible row only, stays in the stream while   *)
(* it is handled, and the handler is idle when it has no event.             *)
Ordered ==
  /\ \A s \in sent : row[s] \in Written
  /\ stream \subseteq sent
  /\ cur \in stream \cup {0}
  /\ (step = "idle") <=> (cur = 0)

(* Past the advance, the cursor of the author covers the message. *)
Advanced == step = "push" => cur \in unmarked \/ cursor[from[cur]] >= cur

(* The cursor covers what was there at a mark, deleted since or not. *)
MarksHold == \A u \in Members : \A s \in marks[u] : s <= cursor[u]

(* A visible row under the cursor was there at a mark, is late, or has a      *)
(* published message of the same user at or above it.                        *)
ReadExplained ==
  \A u \in Members : \A s \in Visible :
    s <= cursor[u] =>
      \/ s \in marks[u] \cup late
      \/ \E t \in sent \cap s..MaxSeq : from[t] = u /\ t <= cursor[u]

IInv ==
  /\ TypeOK /\ Authored /\ Ordered /\ Advanced
  /\ CursorAnchored /\ OwnMessageRead /\ MarksHold /\ ReadExplained

-----------------------------------------------------------------------------
LEMMA InitIInv == Init => IInv
<1> SUFFICES ASSUME Init PROVE IInv
  OBVIOUS
<1>1. TypeOK
  BY BoundsAssumption DEF Init, TypeOK, Seqs
<1>2. Authored /\ Ordered /\ Advanced
  BY DEF Init, Authored, Ordered, Advanced
<1>3. CursorAnchored /\ OwnMessageRead /\ MarksHold /\ ReadExplained
  BY DEF Init, CursorAnchored, OwnMessageRead, MarksHold, ReadExplained, Visible
<1>. QED
  BY <1>1, <1>2, <1>3 DEF IInv

(* The budgets of crashes, losses and moves. *)
LEMMA FaultsType ==
  ASSUME TypeOK, UNCHANGED faults \/ Crashes \/ Loses \/ Moves
  PROVE  /\ crashes' \in 0..MaxCrashes /\ losses' \in 0..MaxLosses
         /\ moves' \in 0..MaxMoves
BY BoundsAssumption DEF TypeOK, faults, Crashes, Loses, Moves

-----------------------------------------------------------------------------
(* The steps of the sending service. *)
LEMMA SendType ==
  ASSUME TypeOK, NEW s \in Seqs,
         \/ \E u \in Members : Insert(u, s)
         \/ Commit(s) \/ Publish(s) \/ Delete(s)
  PROVE  TypeOK'
<1>1. ASSUME NEW u \in Members, Insert(u, s) PROVE TypeOK'
  BY <1>1, FaultsType DEF Insert, TypeOK, handler, delivery, history, faults
<1>2. CASE Commit(s)
  BY <1>2, FaultsType DEF Commit, TypeOK, handler, delivery, faults
<1>3. CASE Publish(s)
  BY <1>3, FaultsType DEF Publish, TypeOK, handler, delivery, faults
<1>4. CASE Delete(s)
  BY <1>4, FaultsType DEF Delete, TypeOK, handler, delivery, history, faults
<1>. QED
  BY <1>1, <1>2, <1>3, <1>4

(* The steps of the subscriber. *)
LEMMA HandlerType ==
  ASSUME TypeOK, Authored, Ordered,
         \/ \E s \in Seqs : Receive(s)
         \/ Handler \/ Crash
  PROVE  TypeOK'
<1>1. ASSUME NEW s \in Seqs, Receive(s) PROVE TypeOK'
  BY <1>1, FaultsType, BoundsAssumption
     DEF Receive, TypeOK, server, delivery, history, faults, Seqs
<1>2. CASE Advance
  <2>1. cur \in Seqs /\ from[cur] \in Members
    BY <1>2 DEF Advance, TypeOK, Authored, Ordered, Written
  <2>2. cursor' \in [Members -> 0..MaxSeq]
    BY <1>2, <2>1, BoundsAssumption
       DEF Advance, AdvanceRead, Larger, TypeOK, Seqs
  <2>. QED
    BY <1>2, <2>1, <2>2, FaultsType
       DEF Advance, Targets, TypeOK, server, delivery, faults
<1>3. ASSUME NEW u \in Members, PushToUser(u) PROVE TypeOK'
  <2>1. cur \in Seqs
    BY <1>3 DEF PushToUser, TypeOK, Ordered
  <2>2. pushes' \in [Gateways -> Seq(Seqs)]
    BY <1>3, <2>1 DEF PushToUser, TypeOK
  <2>. QED
    BY <1>3, <2>2, FaultsType DEF PushToUser, TypeOK, server, history, faults
<1>4. CASE Ack
  BY <1>4, FaultsType, BoundsAssumption DEF Ack, TypeOK, server, delivery, history, faults
<1>5. CASE Crash
  BY <1>5, FaultsType, BoundsAssumption DEF Crash, TypeOK, server, delivery, history, faults
<1>. QED
  BY <1>1, <1>2, <1>3, <1>4, <1>5 DEF Handler

(* The steps of the members and of the gateways. *)
LEMMA MemberType ==
  ASSUME TypeOK,
         \/ \E u \in Members :
              \/ \E m \in 0..MaxSeq : MarkRead(u, m)
              \/ \E g \in Gateways \cup {None} : RegistryMove(u, g)
              \/ \E g \in Gateways : TableMove(u, g)
         \/ \E g \in Gateways : Deliver(g) \/ DropPush(g)
  PROVE  TypeOK'
<1>1. ASSUME NEW u \in Members, NEW m \in 0..MaxSeq, MarkRead(u, m) PROVE TypeOK'
  <2>1. cursor' \in [Members -> 0..MaxSeq]
    BY <1>1, BoundsAssumption DEF MarkRead, Larger, TypeOK
  <2>2. Visible \subseteq Seqs
    BY DEF Visible
  <2>. QED
    BY <1>1, <2>1, <2>2, FaultsType
       DEF MarkRead, TypeOK, server, handler, delivery, faults
<1>2. ASSUME NEW u \in Members, NEW g \in Gateways \cup {None}, RegistryMove(u, g)
      PROVE  TypeOK'
  BY <1>2, FaultsType DEF RegistryMove, TypeOK, server, handler, history
<1>3. ASSUME NEW u \in Members, NEW g \in Gateways, TableMove(u, g)
      PROVE  TypeOK'
  BY <1>3, FaultsType DEF TableMove, TypeOK, server, handler, history
<1>4. ASSUME NEW g \in Gateways, Deliver(g) PROVE TypeOK'
  <2>1. pushes[g] \in Seq(Seqs) /\ pushes[g] # <<>>
    BY <1>4 DEF Deliver, TypeOK
  <2>2. Head(pushes[g]) \in Seqs /\ Tail(pushes[g]) \in Seq(Seqs)
    BY <2>1
  <2>3. pushes' \in [Gateways -> Seq(Seqs)]
    BY <1>4, <2>2 DEF Deliver, TypeOK
  <2>4. got' \in [Members -> [Seqs -> Nat]]
    BY <1>4, <2>2 DEF Deliver, TypeOK
  <2>. QED
    BY <1>4, <2>3, <2>4, FaultsType DEF Deliver, TypeOK, server, handler, history, faults
<1>5. ASSUME NEW g \in Gateways, DropPush(g) PROVE TypeOK'
  <2>1. pushes[g] \in Seq(Seqs) /\ pushes[g] # <<>>
    BY <1>5 DEF DropPush, TypeOK
  <2>2. Tail(pushes[g]) \in Seq(Seqs)
    BY <2>1
  <2>. QED
    BY <1>5, <2>2, FaultsType DEF DropPush, TypeOK, server, handler, history
<1>. QED
  BY <1>1, <1>2, <1>3, <1>4, <1>5

LEMMA TypeStep ==
  ASSUME TypeOK, Authored, Ordered, [Next]_vars
  PROVE  TypeOK'
<1>1. CASE UNCHANGED vars
  BY <1>1 DEF vars, TypeOK
<1>2. CASE Next
  BY <1>2, SendType, HandlerType, MemberType DEF Next
<1>. QED
  BY <1>1, <1>2

-----------------------------------------------------------------------------
(* GREATEST keeps a cursor in range and never lowers it. *)
LEMMA LargerBounds ==
  ASSUME NEW a \in 0..MaxSeq, NEW b \in 0..MaxSeq
  PROVE  Larger(a, b) \in 0..MaxSeq /\ Larger(a, b) >= a /\ Larger(a, b) >= b
BY BoundsAssumption DEF Larger

(* A published message has an author. *)
LEMMA SentFacts ==
  ASSUME TypeOK, Authored, Ordered
  PROVE  \A s \in sent : s \in Seqs /\ s \in Nat /\ from[s] \in Members
<1> TAKE s \in sent
<1>1. s \in Seqs
  BY DEF TypeOK
<1>2. row[s] \in Written
  BY DEF Ordered
<1>3. from[s] \in Members
  BY <1>1, <1>2 DEF Authored, Written
<1>. QED
  BY <1>1, <1>3, BoundsAssumption DEF Seqs

(* Steps that leave the rows, the stream, the handler, the cursors and the   *)
(* history as they are leave the cursor invariants as they are.             *)
LEMMA DeliveryStep ==
  ASSUME IInv,
         UNCHANGED <<row, from, sent, stream, cur, step, cursor, marks, late, unmarked>>
  PROVE  /\ Authored' /\ Ordered' /\ Advanced'
         /\ CursorAnchored' /\ OwnMessageRead' /\ MarksHold' /\ ReadExplained'
BY DEF IInv, Authored, Ordered, Advanced, CursorAnchored, OwnMessageRead,
       MarksHold, ReadExplained, Visible

(* A new row has no reader, no event and no cursor on it. *)
LEMMA InsertStep ==
  ASSUME IInv, NEW u \in Members, NEW s \in Seqs, Insert(u, s)
  PROVE  /\ Authored' /\ Ordered' /\ Advanced'
         /\ CursorAnchored' /\ OwnMessageRead' /\ MarksHold' /\ ReadExplained'
<1> USE NoneAssumption, BoundsAssumption DEF IInv, TypeOK, Seqs, Written
<1>1. /\ row[s] = "none" /\ from[s] = None /\ s \notin sent
      /\ row' = [row EXCEPT ![s] = "pending"] /\ from' = [from EXCEPT ![s] = u]
      /\ UNCHANGED <<sent, stream, cur, step, cursor, marks, late, unmarked>>
  BY DEF Insert, Authored, Ordered, handler, history
<1>2. Authored'
  BY <1>1 DEF Authored
<1>3. Ordered'
  BY <1>1 DEF Ordered
<1>4. \A t \in sent : t # s /\ from'[t] = from[t]
  BY <1>1
<1>5. Advanced'
  BY <1>1, <1>4 DEF Advanced, Ordered
<1>6. CursorAnchored'
  BY <1>1 DEF CursorAnchored
<1>7. OwnMessageRead'
  BY <1>1, <1>4 DEF OwnMessageRead
<1>8. ReadExplained'
  <2>1. Visible' = Visible
    BY <1>1 DEF Visible
  <2>2. \A t \in Seqs, v \in Members : from[t] = v => from'[t] = v
    BY <1>1
  <2>. QED
    BY <1>1, <2>1, <2>2 DEF ReadExplained, Visible
<1>9. MarksHold'
  BY <1>1 DEF MarksHold
<1>. QED
  BY <1>2, <1>3, <1>5, <1>6, <1>7, <1>8, <1>9

(* A row that commits under a cursor commits after the larger row that the   *)
(* cursor is on: it is late.                                                *)
LEMMA CommitStep ==
  ASSUME IInv, NEW s \in Seqs, Commit(s)
  PROVE  /\ Authored' /\ Ordered' /\ Advanced'
         /\ CursorAnchored' /\ OwnMessageRead' /\ MarksHold' /\ ReadExplained'
<1> USE BoundsAssumption DEF IInv, TypeOK, Seqs, Written
<1>1. /\ row[s] = "pending" /\ row' = [row EXCEPT ![s] = "committed"]
      /\ UNCHANGED <<from, sent, stream, cur, step, cursor, marks, unmarked>>
      /\ late \subseteq late'
      /\ (\E t \in s..MaxSeq : row[t] \in Written) => s \in late'
  BY DEF Commit, handler
<1>2. /\ Authored' /\ Ordered' /\ Advanced'
      /\ CursorAnchored' /\ OwnMessageRead' /\ MarksHold'
  BY <1>1 DEF Authored, Ordered, Advanced, CursorAnchored, OwnMessageRead, MarksHold
<1>3. ASSUME NEW u \in Members, s <= cursor[u]
      PROVE  s \in late'
  <2>1. row[cursor[u]] \in Written /\ cursor[u] \in s..MaxSeq
    BY <1>3 DEF CursorAnchored
  <2>. QED
    BY <1>1, <2>1
<1>4. ReadExplained'
  <2>1. Visible' = Visible \cup {s}
    BY <1>1 DEF Visible
  <2>2. SUFFICES ASSUME NEW u \in Members, NEW t \in Visible', t <= cursor[u]
                 PROVE  \/ t \in marks[u] \cup late'
                        \/ \E r \in sent \cap t..MaxSeq : from[r] = u /\ r <= cursor[u]
    BY <1>1 DEF ReadExplained
  <2>3. CASE t = s
    BY <1>3, <2>2, <2>3
  <2>4. CASE t \in Visible
    BY <1>1, <2>2, <2>4 DEF ReadExplained
  <2>. QED
    BY <2>1, <2>3, <2>4
<1>. QED
  BY <1>2, <1>4

LEMMA PublishStep ==
  ASSUME IInv, NEW s \in Seqs, Publish(s)
  PROVE  /\ Authored' /\ Ordered' /\ Advanced'
         /\ CursorAnchored' /\ OwnMessageRead' /\ MarksHold' /\ ReadExplained'
<1>1. /\ row[s] \in Written /\ s \notin sent /\ sent' = sent \cup {s}
      /\ \/ stream' = stream \cup {s} /\ unmarked' = unmarked
         \/ stream' = stream /\ unmarked' = unmarked \cup {s}
      /\ UNCHANGED <<row, from, cur, step, cursor, marks, late>>
  BY DEF Publish, handler, Written
<1>2. Authored' /\ CursorAnchored' /\ MarksHold'
  BY <1>1 DEF IInv, Authored, CursorAnchored, MarksHold
<1>3. Ordered'
  BY <1>1 DEF IInv, Ordered
<1>4. Advanced'
  BY <1>1 DEF IInv, Advanced
<1>5. OwnMessageRead'
  BY <1>1 DEF IInv, OwnMessageRead
<1>6. ReadExplained'
  BY <1>1 DEF IInv, ReadExplained, Visible
<1>. QED
  BY <1>2, <1>3, <1>4, <1>5, <1>6

LEMMA DeleteStep ==
  ASSUME IInv, NEW s \in Seqs, Delete(s)
  PROVE  /\ Authored' /\ Ordered' /\ Advanced'
         /\ CursorAnchored' /\ OwnMessageRead' /\ MarksHold' /\ ReadExplained'
<1>1. /\ row[s] = "committed" /\ row' = [row EXCEPT ![s] = "deleted"]
      /\ UNCHANGED <<from, sent, stream, cur, step, cursor, marks, late, unmarked>>
  BY DEF Delete, handler, history
<1>2. Visible' \subseteq Visible
  BY <1>1 DEF Visible, IInv, TypeOK
<1>3. \A t \in Seqs : /\ row'[t] = "none" <=> row[t] = "none"
                      /\ row'[t] \in Written <=> row[t] \in Written
  BY <1>1 DEF IInv, TypeOK, Written
<1>4. Authored'
  BY <1>1, <1>3 DEF IInv, Authored
<1>5. Ordered'
  BY <1>1, <1>3 DEF IInv, TypeOK, Ordered
<1>6. Advanced' /\ OwnMessageRead' /\ MarksHold'
  BY <1>1 DEF IInv, Advanced, OwnMessageRead, MarksHold
<1>7. CursorAnchored'
  <2>1. \A u \in Members : cursor[u] # 0 => cursor[u] \in Seqs
    BY BoundsAssumption DEF IInv, TypeOK, Seqs
  <2>. QED
    BY <1>1, <1>3, <2>1 DEF IInv, CursorAnchored, Written
<1>8. ReadExplained'
  BY <1>1, <1>2 DEF IInv, ReadExplained
<1>. QED
  BY <1>4, <1>5, <1>6, <1>7, <1>8

-----------------------------------------------------------------------------
(* A mark-read moves the cursor to a visible row and records all of them as  *)
(* marks.                                                                    *)
LEMMA MarkReadStep ==
  ASSUME IInv, NEW u \in Members, NEW m \in 0..MaxSeq, MarkRead(u, m)
  PROVE  /\ Authored' /\ Ordered' /\ Advanced'
         /\ CursorAnchored' /\ OwnMessageRead' /\ MarksHold' /\ ReadExplained'
<1> USE BoundsAssumption DEF IInv, TypeOK, Seqs
<1>1. /\ m \in Visible \cup {0} /\ \A t \in Visible : t <= m
      /\ UNCHANGED <<row, from, sent, stream, cur, step, late, unmarked>>
      /\ cursor'[u] = Larger(cursor[u], m)
      /\ \A v \in Members \ {u} : cursor'[v] = cursor[v]
      /\ marks'[u] = marks[u] \cup Visible
      /\ \A v \in Members \ {u} : marks'[v] = marks[v]
  BY DEF MarkRead, IsMaxSeq, server, handler
<1>2. ASSUME NEW v \in Members
      PROVE  cursor'[v] \in 0..MaxSeq /\ cursor'[v] >= cursor[v]
  <2>1. cursor[v] \in 0..MaxSeq
    OBVIOUS
  <2>2. CASE v = u
    <3>1. Larger(cursor[u], m) \in 0..MaxSeq /\ Larger(cursor[u], m) >= cursor[u]
      BY <2>1, <2>2, LargerBounds
    <3>. QED
      BY <1>1, <2>2, <3>1
  <2>3. CASE v # u
    BY <1>1, <2>1, <2>3
  <2>. QED
    BY <2>2, <2>3
<1>3. Authored' /\ Ordered'
  BY <1>1 DEF Authored, Ordered
<1>4. \A s \in sent : from[s] \in Members /\ s \in Nat
  BY SentFacts
<1>5. ASSUME NEW s \in sent, cursor[from[s]] >= s
      PROVE  cursor'[from[s]] >= s
  <2>1. /\ s \in Nat /\ cursor[from[s]] \in Nat /\ cursor'[from[s]] \in Nat
        /\ cursor'[from[s]] >= cursor[from[s]]
    BY <1>2, <1>4
  <2>. QED
    BY <1>5, <2>1
<1>6. Advanced' /\ OwnMessageRead'
  <2>1. step = "push" => cur \in sent
    BY DEF Ordered
  <2>. QED
    BY <1>1, <1>5, <2>1 DEF Advanced, OwnMessageRead
<1>7. CursorAnchored'
  BY <1>1 DEF CursorAnchored, Larger, Visible
<1>8. ReadExplained'
  <2>1. SUFFICES ASSUME NEW v \in Members, NEW s \in Visible, s <= cursor'[v]
                 PROVE  \/ s \in marks'[v] \cup late
                        \/ \E t \in sent \cap s..MaxSeq : from[t] = v /\ t <= cursor'[v]
    BY <1>1 DEF ReadExplained, Visible
  <2>2. CASE v = u
    BY <1>1, <2>1, <2>2
  <2>3. CASE v # u
    BY <1>1, <2>1, <2>3 DEF ReadExplained
  <2>. QED
    BY <2>2, <2>3
<1>9. MarksHold'
  <2> SUFFICES ASSUME NEW v \in Members, NEW s \in marks'[v]
               PROVE  s <= cursor'[v]
    BY DEF MarksHold
  <2>1. CASE s \in marks[v]
    <3>1. s \in Nat /\ cursor[v] \in Nat /\ s <= cursor[v]
      BY <2>1 DEF MarksHold
    <3>. QED
      BY <1>2, <3>1
  <2>2. CASE s \notin marks[v]
    <3>1. v = u /\ s \in Visible /\ s <= m
      BY <1>1, <2>2
    <3>2. cursor[u] \in 0..MaxSeq /\ s \in Nat
      BY <3>1 DEF Visible
    <3>3. Larger(cursor[u], m) \in 0..MaxSeq /\ Larger(cursor[u], m) >= m
      BY <3>2, LargerBounds
    <3>. QED
      BY <1>1, <3>1, <3>2, <3>3
  <2>. QED
    BY <2>1, <2>2
<1>. QED
  BY <1>3, <1>6, <1>7, <1>8, <1>9

-----------------------------------------------------------------------------
(* The handler takes an event, drops it or acknowledges it. *)
LEMMA ReceiveStep ==
  ASSUME IInv, NEW s \in Seqs, Receive(s)
  PROVE  /\ Authored' /\ Ordered' /\ Advanced'
         /\ CursorAnchored' /\ OwnMessageRead' /\ MarksHold' /\ ReadExplained'
<1>1. /\ s \in stream /\ cur' = s /\ step' = "advance"
      /\ UNCHANGED <<row, from, sent, stream, cursor, marks, late, unmarked>>
  BY DEF Receive, server, history
<1>2. Ordered' /\ Advanced'
  BY <1>1, BoundsAssumption DEF IInv, Ordered, Advanced, Seqs
<1>. QED
  BY <1>1, <1>2 DEF IInv, Authored, CursorAnchored, OwnMessageRead,
     MarksHold, ReadExplained, Visible

(* The acknowledged message leaves the stream: Advanced is what the cursor   *)
(* of its author then needs.                                                *)
LEMMA AckStep ==
  ASSUME IInv, Ack \/ Crash
  PROVE  /\ Authored' /\ Ordered' /\ Advanced'
         /\ CursorAnchored' /\ OwnMessageRead' /\ MarksHold' /\ ReadExplained'
<1>1. /\ cur' = 0 /\ step' = "idle"
      /\ stream' = stream \/ (step = "push" /\ stream' = stream \ {cur})
      /\ UNCHANGED <<row, from, sent, cursor, marks, late, unmarked>>
  BY DEF Ack, Crash, server, history
<1>2. Ordered' /\ Advanced'
  BY <1>1 DEF IInv, Ordered, Advanced
<1>3. OwnMessageRead'
  BY <1>1 DEF IInv, OwnMessageRead, Advanced
<1>. QED
  BY <1>1, <1>2, <1>3 DEF IInv, Authored, CursorAnchored,
     MarksHold, ReadExplained, Visible

(* The cursor of the author moves to its own message or stays. *)
LEMMA AdvanceStep ==
  ASSUME IInv, Advance
  PROVE  /\ Authored' /\ Ordered' /\ Advanced'
         /\ CursorAnchored' /\ OwnMessageRead' /\ MarksHold' /\ ReadExplained'
<1> USE BoundsAssumption DEF IInv, TypeOK, Seqs
<1>1. /\ step = "advance" /\ step' = "push"
      /\ UNCHANGED <<row, from, sent, stream, cur, marks, late>>
  BY DEF Advance, server
<1>2. cur \in Seqs /\ cur \in stream /\ cur \in sent /\ row[cur] \in Written /\ from[cur] \in Members
  BY <1>1 DEF Ordered, Authored, Written
<1>3. CASE cursor' = cursor /\ unmarked' = unmarked \cup {cur}
  <2>1. Advanced' /\ Ordered' /\ OwnMessageRead'
    BY <1>1, <1>2, <1>3 DEF Advanced, Ordered, OwnMessageRead
  <2>. QED
    BY <1>1, <1>3, <2>1 DEF Authored, CursorAnchored, MarksHold, ReadExplained, Visible
<1>4. CASE cursor' = AdvanceRead(from[cur], cur) /\ unmarked' = unmarked
  <2>1. /\ cursor'[from[cur]] = Larger(cursor[from[cur]], cur)
        /\ \A v \in Members \ {from[cur]} : cursor'[v] = cursor[v]
    BY <1>2, <1>4 DEF AdvanceRead
  <2>2. ASSUME NEW v \in Members
        PROVE  cursor'[v] \in 0..MaxSeq /\ cursor'[v] >= cursor[v]
    <3>1. cursor[v] \in 0..MaxSeq /\ cur \in 0..MaxSeq
      OBVIOUS
    <3>2. CASE v = from[cur]
      <4>1. Larger(cursor[v], cur) \in 0..MaxSeq /\ Larger(cursor[v], cur) >= cursor[v]
        BY <3>1, LargerBounds
      <4>. QED
        BY <2>1, <3>2, <4>1
    <3>3. CASE v # from[cur]
      BY <2>1, <3>1, <3>3
    <3>. QED
      BY <3>2, <3>3
  <2>3. \A s \in sent : from[s] \in Members /\ s \in Nat
    BY SentFacts
  <2>4. Authored' /\ Ordered'
    BY <1>1 DEF Authored, Ordered
  <2>5. Advanced'
    BY <1>1, <1>2, <2>1 DEF Advanced, Larger
  <2>6. OwnMessageRead'
    BY <1>1, <1>4, <2>2, <2>3 DEF OwnMessageRead
  <2>7. CursorAnchored'
    BY <1>1, <1>2, <2>1 DEF CursorAnchored, Larger, Written
  <2>8. ReadExplained'
    <3>1. SUFFICES ASSUME NEW v \in Members, NEW s \in Visible, s <= cursor'[v]
                   PROVE  \/ s \in marks[v] \cup late
                          \/ \E t \in sent \cap s..MaxSeq : from[t] = v /\ t <= cursor'[v]
      BY <1>1 DEF ReadExplained, Visible
    <3>2. s \in Seqs
      BY DEF Visible
    <3>3. CASE s <= cursor[v]
      <4>0. CASE s \in marks[v] \cup late
        BY <4>0
      <4> SUFFICES ASSUME s \notin marks[v] \cup late
                   PROVE  \E t \in sent \cap s..MaxSeq : from[t] = v /\ t <= cursor'[v]
        BY <4>0
      <4>1. PICK t \in sent \cap s..MaxSeq : from[t] = v /\ t <= cursor[v]
        BY <3>2, <3>3 DEF ReadExplained
      <4>2. s \in Nat /\ t \in Nat /\ cursor[v] \in Nat /\ cursor'[v] \in Nat
        BY <2>2, <3>2
      <4>3. cursor'[v] >= cursor[v]
        BY <2>2
      <4>. QED
        BY <4>1, <4>2, <4>3
    <3>4. CASE ~(s <= cursor[v])
      <4>1. v = from[cur] /\ cursor'[v] = cur
        BY <1>2, <2>1, <3>1, <3>2, <3>4 DEF Larger
      <4>. QED
        BY <1>2, <3>1, <3>2, <4>1
    <3>. QED
      BY <3>3, <3>4
  <2>9. MarksHold'
    <3> SUFFICES ASSUME NEW v \in Members, NEW s \in marks[v]
                 PROVE  s <= cursor'[v]
      BY <1>1 DEF MarksHold
    <3>1. s \in Nat /\ cursor[v] \in Nat /\ s <= cursor[v]
      BY DEF MarksHold
    <3>. QED
      BY <2>2, <3>1
  <2>. QED
    BY <2>4, <2>5, <2>6, <2>7, <2>8, <2>9
<1>. QED
  BY <1>3, <1>4 DEF Advance

-----------------------------------------------------------------------------
LEMMA NextStep ==
  ASSUME IInv, [Next]_vars
  PROVE  IInv'
<1> DEFINE Rest == /\ Authored' /\ Ordered' /\ Advanced'
                   /\ CursorAnchored' /\ OwnMessageRead' /\ MarksHold' /\ ReadExplained'
<1>1. TypeOK'
  BY TypeStep DEF IInv
<1>2. CASE UNCHANGED vars
  <2>1. Rest
    BY <1>2, DeliveryStep DEF vars
  <2>. QED
    BY <1>1, <2>1 DEF IInv
<1>3. ASSUME NEW s \in Seqs,
             \/ \E u \in Members : Insert(u, s)
             \/ Commit(s) \/ Publish(s) \/ Delete(s) \/ Receive(s)
      PROVE  Rest
  BY <1>3, InsertStep, CommitStep, PublishStep, DeleteStep, ReceiveStep
<1>4. CASE Handler \/ Crash
  <2>1. ASSUME NEW u \in Members, PushToUser(u) PROVE Rest
    BY <2>1, DeliveryStep DEF PushToUser, server, history
  <2>2. Rest
    BY <1>4, <2>1, AdvanceStep, AckStep DEF Handler
  <2>. QED
    BY <1>1, <2>2 DEF IInv
<1>5. ASSUME NEW u \in Members, NEW m \in 0..MaxSeq, MarkRead(u, m) PROVE Rest
  BY <1>5, MarkReadStep
<1>6. ASSUME NEW u \in Members, NEW g \in Gateways \cup {None},
             RegistryMove(u, g) \/ TableMove(u, g)
      PROVE  Rest
  BY <1>6, DeliveryStep DEF RegistryMove, TableMove, server, handler, history
<1>7. ASSUME NEW g \in Gateways, Deliver(g) \/ DropPush(g) PROVE Rest
  BY <1>7, DeliveryStep DEF Deliver, DropPush, server, handler, history
<1>. QED
  BY <1>1, <1>2, <1>3, <1>4, <1>5, <1>6, <1>7 DEF Next, IInv

(* The inductive invariant of the read cursors. *)
THEOREM Inductive == Spec => []IInv
<1>1. Init => IInv
  BY InitIInv
<1>2. IInv /\ [Next]_vars => IInv'
  BY NextStep
<1>. QED
  BY <1>1, <1>2, PTL DEF Spec

(* The variables of the pipeline stay in their types. *)
THEOREM TypeCorrect == Spec => []TypeOK
<1>1. IInv => TypeOK
  BY DEF IInv
<1>. QED
  BY <1>1, Inductive, PTL

(* Every value Store ever writes to last_read_seq is the seq of a message    *)
(* that had committed.                                                      *)
THEOREM CursorsAreAnchored == Spec => []CursorAnchored
<1>1. IInv => CursorAnchored
  BY DEF IInv
<1>. QED
  BY <1>1, Inductive, PTL

(* Once notify-service has acknowledged a message, its author is past it,    *)
(* through crashes, redeliveries and marks.                                 *)
THEOREM OwnMessagesAreRead == Spec => []OwnMessageRead
<1>1. IInv => OwnMessageRead
  BY DEF IInv
<1>. QED
  BY <1>1, Inductive, PTL

(* For any number of members and messages, what the unread counts of          *)
(* notify-service leave out is what their user marked, wrote over or, when a   *)
(* row committed out of order, passed before it was there; and nothing that   *)
(* was marked comes back.                                                    *)
THEOREM UnreadAlwaysExact == Spec => []UnreadIsExact
<1>1. IInv => UnreadIsExact
  <2> SUFFICES ASSUME IInv PROVE UnreadIsExact
    OBVIOUS
  <2>1. ASSUME NEW u \in Members
        PROVE  /\ cursor[u] \in Nat
               /\ \A s \in Visible : s \in Nat
               /\ marks[u] \subseteq Seqs
    BY BoundsAssumption DEF IInv, TypeOK, Visible, Seqs
  <2>2. ASSUME NEW u \in Members, NEW s \in marks[u] \cap Unread(u) PROVE FALSE
    BY <2>1 DEF IInv, MarksHold, Unread
  <2>3. ASSUME NEW u \in Members,
               NEW s \in Visible \ (Unread(u) \cup marks[u] \cup late)
        PROVE  \E t \in sent \cap s..MaxSeq : from[t] = u /\ t <= cursor[u]
    <3>1. s <= cursor[u]
      BY <2>1 DEF Unread
    <3>. QED
      BY <3>1 DEF IInv, ReadExplained
  <2>. QED
    BY <2>2, <2>3 DEF UnreadIsExact
<1>. QED
  BY <1>1, Inductive, PTL
=============================================================================
