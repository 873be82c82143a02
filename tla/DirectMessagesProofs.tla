------------------------ MODULE DirectMessagesProofs --------------------------
(***************************************************************************)
(* Copies, events and blocks of direct messages for every number of users, *)
(* nodes, messages, attempts, faults and changes of relations.             *)
(***************************************************************************)
EXTENDS DirectMessages, FiniteSetTheorems, TLAPS

Relations == {"none", "friend", "blocked"}
Answers == {"ready", "failed", "denied", "accepted"}
Early == {"theirs", "ours", "select", "create", "insert"}
Late == {"attach", "publish"}
Pcs == Early \cup Late \cup {"read", "free"}
Attempts == [msg : Msgs \cup {None}, node : Nodes \cup {None}, pc : Pcs]

TypeInv ==
  /\ rel \in [Directions -> Relations]
  /\ {cache, flight} \subseteq [Nodes -> [Directions -> Relations \cup {None}]]
  /\ {rows, files, events, unsure} \subseteq [Msgs -> Nat]
  /\ req \in [Reqs -> Attempts]
  /\ client \in [Msgs -> Answers \cup Reqs]
  /\ moved \in [Nodes -> SUBSET Directions]

\* An attempt is of a message and on a node; the client waits for an attempt of
\* its own message; reads of a history and messages take different ways.
Placed ==
  /\ \A r \in Reqs : req[r] # Free =>
       /\ req[r].msg \in Msgs /\ req[r].node \in Nodes /\ req[r].pc # "free"
       /\ req[r].msg \in Histories => req[r].pc \in {"select", "create", "read"}
       /\ req[r].msg \notin Histories => req[r].pc # "read"
  /\ \A m \in Msgs : client[m] \in Reqs =>
       req[client[m]] # Free /\ req[client[m]].msg = m

\* The attempts of m that are at one of pcs.
Pend(m, pcs) == {r \in Reqs : req[r].msg = m /\ req[r].pc \in pcs}

\* What the sender of m may still be owed: the copy of the attempt it waits for,
\* or of the one that was accepted.
Owed(m) == IF client[m] \in {"ready", "failed", "denied"} THEN 0 ELSE 1

\* Every copy that exists or may still come is owed or belongs to an attempt whose
\* outcome the sender was not told; an attempt that has stored its copy has one
\* to attach a file to and to announce.
Counted(m) ==
  /\ \A pcs \in {Early, {"attach"}, Late} : IsFiniteSet(Pend(m, pcs))
  /\ m \notin Histories => rows[m] + Cardinality(Pend(m, Early)) <= unsure[m] + Owed(m)
  /\ files[m] + Cardinality(Pend(m, {"attach"})) <= rows[m]
  /\ events[m] + Cardinality(Pend(m, Late)) <= rows[m]
  /\ client[m] = "accepted" /\ m \notin Histories => rows[m] >= 1
  /\ m \in Histories => rows[m] = 0

\* The node of an attempt remembers that a direction it has checked is no block.
Passed(r, d) == d \in Directions => cache[req[r].node][d] \in {"none", "friend"}
Cleared(r) ==
  LET m == req[r].msg IN
  /\ req[r].pc # "theirs" => Passed(r, <<To[m], From[m]>>)
  /\ req[r].pc \notin {"theirs", "ours"} => Passed(r, <<From[m], To[m]>>)
Checked == \A r \in Reqs : req[r] # Free /\ req[r].msg \notin Histories => Cleared(r)

\* What a node has read, cached or not yet, is the relation, unless that has
\* changed since.
Explained == \A n \in Nodes, d \in Directions :
  {cache[n][d], flight[n][d]} \subseteq {None, rel[d]} \/ d \in moved[n]

IInv == TypeInv /\ Placed /\ Checked /\ Explained /\ \A m \in Msgs : Counted(m)

-----------------------------------------------------------------------------
LEMMA InitIInv == Init => IInv
<1> SUFFICES ASSUME Init PROVE IInv
  OBVIOUS
<1>1. Free \in Attempts /\ Free.pc = "free"
  BY DEF Free, Attempts, Pcs
<1>2. \A r \in Reqs : req[r] = Free
  BY DEF Init
<1>3. TypeInv
  BY <1>1 DEF Init, TypeInv, Relations, Answers
<1>4. Placed
  BY <1>2, DirectAssumption DEF Init, Placed
<1>5. ASSUME NEW m \in Msgs PROVE Counted(m)
  <2>1. \A pcs \in {Early, {"attach"}, Late} : Pend(m, pcs) = {}
    BY <1>1, <1>2 DEF Pend, Early, Late
  <2>2. rows[m] = 0 /\ files[m] = 0 /\ events[m] = 0 /\ unsure[m] = 0 /\ client[m] = "ready"
    BY DEF Init
  <2>. QED
    BY <2>1, <2>2, FS_EmptySet DEF Counted, Owed
<1>6. Explained
  BY DEF Init, Explained
<1>. QED
  BY <1>2, <1>3, <1>4, <1>5, <1>6 DEF IInv, Checked

-----------------------------------------------------------------------------
(* What a step does to the attempts and to what the senders know. *)

Others(r) == \A q \in Reqs \ {r} : req'[q] = req[q]
Moved(r, c) == /\ req'[r].pc = c /\ req'[r].msg = req[r].msg
               /\ req'[r].node = req[r].node
Told(r, v) == \A m \in Msgs :
  client'[m] = IF m = req[r].msg /\ client[m] = r THEN v ELSE client[m]

LEMMA PcReq ==
  ASSUME NEW r \in Reqs, NEW c \in Pcs, req \in [Reqs -> Attempts], Pc(r, c)
  PROVE  req' \in [Reqs -> Attempts] /\ Others(r) /\ Moved(r, c)
BY DEF Pc, Attempts, Others, Moved

LEMMA ReturnReq ==
  ASSUME NEW r \in Reqs, NEW v \in Answers, TypeInv, req[r].msg \in Msgs, Return(r, v)
  PROVE  /\ req' \in [Reqs -> Attempts] /\ Others(r) /\ req'[r] = Free
         /\ client' \in [Msgs -> Answers \cup Reqs] /\ Told(r, v)
<1>1. Free \in Attempts
  BY DEF Free, Attempts, Pcs
<1>2. /\ req' \in [Reqs -> Attempts] /\ Others(r) /\ req'[r] = Free
  BY <1>1 DEF Return, TypeInv, Others
<1>. QED
  BY <1>2 DEF Return, Waits, TypeInv, Told

\* An attempt is at work exactly when it is not at "free".
LEMMA AtWork ==
  ASSUME Placed, NEW r \in Reqs
  PROVE  req[r] # Free <=> req[r].pc # "free"
BY DEF Placed, Free

-----------------------------------------------------------------------------
(* The handler's steps by what they do. *)

Adds(f, g, m) == g = [f EXCEPT ![m] = @ + 1]

\* On to the next query.
Onward(r) ==
  /\ UNCHANGED <<rows, files, events, unsure, client>>
  /\ \/ req[r].pc = "theirs" /\ Pc(r, "ours")
     \/ req[r].pc = "ours" /\ Pc(r, "select")
     \/ req[r].pc \in {"theirs", "ours"} /\ req' = req
     \/ req[r].pc = "select" /\ Pc(r, "create")
     \/ /\ req[r].pc \in {"select", "create"} /\ req[r].msg \in Histories
        /\ Pc(r, "read")
     \/ /\ req[r].pc \in {"select", "create"} /\ req[r].msg \notin Histories
        /\ Pc(r, "insert")

\* The attempt is answered before its message is stored, or so it seems.
Refused(r) ==
  /\ req[r].pc \in Early \cup {"read"}
  /\ \E v \in {"failed", "denied"} : Return(r, v)
  /\ UNCHANGED <<files, events>>
  /\ \/ UNCHANGED <<rows, unsure>>
     \/ /\ req[r].pc = "insert"
        /\ Adds(rows, rows', req[r].msg) /\ Adds(unsure, unsure', req[r].msg)

Stored(r) ==
  /\ req[r].pc = "insert" /\ Pc(r, "attach") /\ Adds(rows, rows', req[r].msg)
  /\ UNCHANGED <<files, events, unsure, client>>

Attached(r) ==
  /\ req[r].pc = "attach" /\ Pc(r, "publish")
  /\ files' = files \/ Adds(files, files', req[r].msg)
  /\ UNCHANGED <<rows, events, unsure, client>>

Announced(r) ==
  /\ req[r].pc = "publish" /\ Return(r, "accepted")
  /\ events' = events \/ Adds(events, events', req[r].msg)
  /\ UNCHANGED <<rows, files, unsure>>

Answered(r) ==
  /\ req[r].pc = "read" /\ Return(r, "accepted")
  /\ UNCHANGED <<rows, files, events, unsure>>

Effect(r) == \/ Onward(r) \/ Refused(r) \/ Stored(r) \/ Attached(r) \/ Announced(r)
             \/ Answered(r)

LEMMA StepEffect ==
  ASSUME NEW r \in Reqs, TypeInv, Step(r)
  PROVE  Effect(r) /\ req[r].pc # "free"
<1>. DEFINE m == req[r].msg
<1>1. CASE CheckTheirs(r)
  BY <1>1 DEF CheckTheirs, CheckRelation, tables, Effect, Onward, Refused, Early
<1>2. CASE CheckOurs(r)
  BY <1>2 DEF CheckOurs, CheckRelation, tables, Effect, Onward, Refused, Early
<1>3. CASE SelectConversation(r)
  BY <1>3 DEF SelectConversation, AfterConversation, tables, Effect, Onward, Refused, Early
<1>4. CASE CreateConversation(r)
  BY <1>4 DEF CreateConversation, AfterConversation, Effect, Onward, Refused, Early
<1>5. CASE ReadHistory(r)
  BY <1>5 DEF ReadHistory, tables, Effect, Answered, Refused
<1>6. CASE InsertDMMessage(r)
  BY <1>6 DEF InsertDMMessage, Effect, Stored, Refused, Early, Adds
<1>7. CASE InsertAttachments(r)
  <2>1. files' = files \/ Adds(files, files', m)
    <3>1. CASE files' = [files EXCEPT ![m] = IF m \in Attaching THEN @ + 1 ELSE @]
      <4>1. [files EXCEPT ![m] = files[m]] = files
        BY DEF TypeInv
      <4>. QED
        BY <3>1, <4>1 DEF Adds
    <3>. QED
      BY <1>7, <3>1 DEF InsertAttachments
  <2>. QED
    BY <1>7, <2>1 DEF InsertAttachments, Effect, Attached
<1>8. CASE publishDMCreated(r)
  BY <1>8 DEF publishDMCreated, tables, Effect, Announced, Adds
<1>. QED
  BY <1>1, <1>2, <1>3, <1>4, <1>5, <1>6, <1>7, <1>8 DEF Step

\* Neither a relation nor what a node remembers of one is changed by a handler,
\* which caches only what was read of it; a direction it has checked is then
\* remembered as no block.
LEMMA StepCache ==
  ASSUME NEW r \in Reqs, TypeInv, Placed, Step(r)
  PROVE  /\ rel' = rel /\ moved' = moved
         /\ {cache', flight'} \subseteq [Nodes -> [Directions -> Relations \cup {None}]]
         /\ \A n \in Nodes, d \in Directions :
              /\ cache[n][d] # None => cache'[n][d] = cache[n][d]
              /\ cache'[n][d] \in {cache[n][d], flight[n][d]}
              /\ flight'[n][d] \in {None, flight[n][d], rel[d]}
         /\ LET m == req[r].msg
                n == req[r].node
            IN /\ CheckTheirs(r) /\ req'[r].pc = "ours" /\ <<To[m], From[m]>> \in Directions =>
                      cache'[n][<<To[m], From[m]>>] \in {"none", "friend"}
               /\ CheckOurs(r) /\ req'[r].pc = "select" /\ <<From[m], To[m]>> \in Directions =>
                      cache'[n][<<From[m], To[m]>>] \in {"none", "friend"}
<1>. DEFINE m == req[r].msg
            n == req[r].node
<1>1. n \in Nodes /\ m \in Msgs
  BY StepEffect, AtWork DEF Placed
<1>2. ASSUME NEW d, NEW c \in Pcs \ {"free"}, CheckRelation(r, d, c), req[r].pc # c
      PROVE  /\ rel' = rel /\ moved' = moved
             /\ {cache', flight'} \subseteq [Nodes -> [Directions -> Relations \cup {None}]]
             /\ \A k \in Nodes, e \in Directions :
                  /\ cache[k][e] # None => cache'[k][e] = cache[k][e]
                  /\ cache'[k][e] \in {cache[k][e], flight[k][e]}
                  /\ flight'[k][e] \in {None, flight[k][e], rel[e]}
             /\ req'[r].pc = c /\ d \in Directions => cache'[n][d] \in {"none", "friend"}
  <2>. DEFINE v == Known(n, d)
  <2>1. rel' = rel /\ moved' = moved
    BY <1>2 DEF CheckRelation, tables
  <2>2. d \notin Directions => v # None
    BY DirectAssumption DEF Known
  <2>3. CASE v = None /\ flight[n][d] = None /\ UNCHANGED <<cache, req>>
             /\ flight' = [flight EXCEPT ![n][d] = rel[d]]
    BY <1>1, <1>2, <2>1, <2>2, <2>3 DEF TypeInv
  <2>4. CASE v = None /\ flight[n][d] # None /\ req' = req
             /\ cache' = [cache EXCEPT ![n][d] = flight[n][d]]
             /\ flight' = [flight EXCEPT ![n][d] = None]
    <3>1. d \in Directions /\ cache[n][d] = None
      BY <2>2, <2>4 DEF Known
    <3>. QED
      BY <1>1, <1>2, <2>1, <2>4, <3>1 DEF TypeInv
  <2>5. CASE UNCHANGED caches /\ \/ \E w : Return(r, w)
                                 \/ v \notin {None, "blocked"}
    <3>1. ASSUME NEW w, Return(r, w) PROVE req'[r].pc = "free"
      BY <3>1 DEF Return, TypeInv, Free
    <3>2. ASSUME v \notin {None, "blocked"}, d \in Directions PROVE cache[n][d] \in {"none", "friend"}
      BY <1>1, <3>2 DEF Known, TypeInv, Relations
    <3>. QED
      BY <2>1, <2>5, <3>1, <3>2 DEF caches, TypeInv
  <2>. QED
    BY <1>2, <2>3, <2>4, <2>5 DEF CheckRelation
<1>3. CASE CheckTheirs(r) \/ CheckOurs(r)
  BY <1>2, <1>3 DEF CheckTheirs, CheckOurs, Pcs, Early
<1>4. CASE ~(CheckTheirs(r) \/ CheckOurs(r))
  <2>1. rel' = rel /\ cache' = cache /\ flight' = flight /\ moved' = moved
    BY <1>4 DEF Step, SelectConversation, CreateConversation, ReadHistory, InsertDMMessage,
                InsertAttachments, publishDMCreated, tables, caches
  <2>. QED
    BY <1>4, <2>1 DEF TypeInv
<1>. QED
  BY <1>3, <1>4

LEMMA StepReq ==
  ASSUME NEW r \in Reqs, TypeInv, Placed, Step(r)
  PROVE  /\ req[r] # Free /\ req[r].msg \in Msgs /\ req[r].node \in Nodes
         /\ req' \in [Reqs -> Attempts] /\ Others(r)
         /\ client' \in [Msgs -> Answers \cup Reqs]
         /\ \/ req'[r] = Free /\ \E v \in Answers : Told(r, v)
            \/ Moved(r, req'[r].pc) /\ client' = client /\ req'[r].pc # "free"
<1>1. req[r] # Free /\ req[r].msg \in Msgs /\ req[r].node \in Nodes /\ Effect(r)
  BY StepEffect, AtWork DEF Placed
<1>2. CASE Refused(r) \/ Announced(r) \/ Answered(r)
  <2>1. PICK v \in Answers : Return(r, v)
    BY <1>2 DEF Refused, Announced, Answered, Answers
  <2>. QED
    BY <1>1, <2>1, ReturnReq
<1>3. CASE Onward(r) /\ req' = req
  BY <1>1, <1>3, AtWork DEF Onward, TypeInv, Others, Moved
<1>4. CASE (Onward(r) /\ req' # req) \/ Stored(r) \/ Attached(r)
  <2>1. /\ \E c \in Pcs \ {"free"} : Pc(r, c)
        /\ client' = client
    BY <1>4 DEF Onward, Stored, Attached, Pcs, Early, Late
  <2>2. PICK c \in Pcs \ {"free"} : Pc(r, c)
    BY <2>1
  <2>. QED
    BY <1>1, <2>1, <2>2, PcReq DEF TypeInv, Moved
<1>. QED
  BY <1>1, <1>2, <1>3, <1>4 DEF Effect

LEMMA StepType ==
  ASSUME NEW r \in Reqs, TypeInv, Placed, Step(r)
  PROVE  TypeInv'
<1>1. ASSUME NEW f \in [Msgs -> Nat], NEW g, NEW m \in Msgs, Adds(f, g, m)
      PROVE  g \in [Msgs -> Nat]
  BY <1>1 DEF Adds
<1>2. {rows, files, events, unsure}' \subseteq [Msgs -> Nat]
  <2>. DEFINE Next2(f, g) == g = f \/ Adds(f, g, req[r].msg)
  <2>1. /\ Next2(rows, rows') /\ Next2(files, files')
        /\ Next2(events, events') /\ Next2(unsure, unsure')
    BY StepEffect DEF Effect, Onward, Refused, Stored, Attached, Announced, Answered
  <2>2. ASSUME NEW f \in [Msgs -> Nat], NEW g, Next2(f, g) PROVE g \in [Msgs -> Nat]
    BY <1>1, <2>2, StepReq
  <2>. HIDE DEF Next2
  <2>. QED
    BY <2>1, <2>2 DEF TypeInv
<1>. QED
  BY <1>2, StepReq, StepCache DEF TypeInv

LEMMA StepPlaced ==
  ASSUME NEW r \in Reqs, TypeInv, Placed, Step(r)
  PROVE  Placed'
<1>1. ASSUME NEW q \in Reqs, req'[q] # Free
      PROVE  /\ req'[q].msg \in Msgs /\ req'[q].node \in Nodes /\ req'[q].pc # "free"
             /\ req'[q].msg \in Histories => req'[q].pc \in {"select", "create", "read"}
             /\ req'[q].msg \notin Histories => req'[q].pc # "read"
  <2>1. CASE q # r
    BY <1>1, <2>1, StepReq DEF Placed, Others
  <2>2. CASE q = r
    <3>1. /\ req[r] # Free /\ Moved(r, req'[r].pc) /\ req'[r].pc # "free"
      BY <1>1, <2>2, StepReq
    <3>2. CASE Refused(r) \/ Announced(r) \/ Answered(r)
      <4>1. \E v \in Answers : Return(r, v)
        BY <3>2 DEF Refused, Announced, Answered, Answers
      <4>. QED
        BY <1>1, <2>2, <4>1, ReturnReq, StepReq
    <3>3. CASE Onward(r)
      <4>1. ASSUME NEW c \in Pcs, Pc(r, c) PROVE req'[r].pc = c
        BY <4>1, PcReq DEF TypeInv, Moved
      <4>2. \/ req[r].pc = "theirs" /\ req'[r].pc = "ours"
            \/ req[r].pc = "ours" /\ req'[r].pc = "select"
            \/ req'[r].pc = req[r].pc
            \/ req[r].pc = "select" /\ req'[r].pc = "create"
            \/ req[r].msg \in Histories /\ req'[r].pc = "read"
            \/ req[r].msg \notin Histories /\ req'[r].pc = "insert"
        BY <3>3, <4>1 DEF Onward, Pcs, Early
      <4>. QED
        BY <2>2, <3>1, <4>2 DEF Placed, Moved
    <3>4. CASE Stored(r) \/ Attached(r)
      <4>1. ASSUME NEW c \in Pcs, Pc(r, c) PROVE req'[r].pc = c
        BY <4>1, PcReq DEF TypeInv, Moved
      <4>2. req[r].pc \in {"insert", "attach"} /\ req'[r].pc \in {"attach", "publish"}
        BY <3>4, <4>1 DEF Stored, Attached, Pcs, Late
      <4>. QED
        BY <2>2, <3>1, <4>2 DEF Placed, Moved
    <3>. QED
      BY <3>2, <3>3, <3>4, StepEffect DEF Effect
  <2>. QED
    BY <2>1, <2>2
<1>2. ASSUME NEW m \in Msgs, client'[m] \in Reqs
      PROVE  req'[client'[m]] # Free /\ req'[client'[m]].msg = m
  <2>1. client'[m] = client[m]
    BY <1>2, StepReq, DirectAssumption DEF Told, Answers
  <2>2. req[client[m]] # Free /\ req[client[m]].msg = m
    BY <1>2, <2>1 DEF Placed
  <2>3. CASE client[m] # r
    BY <1>2, <2>1, <2>2, <2>3, StepReq DEF Others
  <2>4. CASE client[m] = r
    <3>1. ~\E v \in Answers : Told(r, v)
      BY <1>2, <2>1, <2>2, <2>4, DirectAssumption DEF Told, Answers
    <3>2. Moved(r, req'[r].pc) /\ req'[r].pc # "free"
      BY <3>1, StepReq
    <3>. QED
      BY <2>1, <2>2, <2>4, <3>2 DEF Moved, Free
  <2>. QED
    BY <2>3, <2>4
<1>. QED
  BY <1>1, <1>2 DEF Placed

LEMMA StepChecked ==
  ASSUME NEW r \in Reqs, TypeInv, Placed, Checked, Step(r)
  PROVE  Checked'
<1>1. ASSUME NEW n \in Nodes, NEW d \in Directions, cache[n][d] \in {"none", "friend"}
      PROVE  cache'[n][d] \in {"none", "friend"}
  BY <1>1, StepCache, DirectAssumption
<1>2. ASSUME NEW q \in Reqs, req'[q] # Free, req'[q].msg \notin Histories
      PROVE  Cleared(q)'
  <2>1. CASE q # r
    <3>1. req'[q] = req[q] /\ req[q].node \in Nodes
      BY <1>2, <2>1, StepReq DEF Others, Placed
    <3>. QED
      BY <1>1, <1>2, <3>1 DEF Checked, Cleared, Passed
  <2>2. CASE q = r
    <3>. DEFINE m == req[r].msg
                n == req[r].node
    <3>1. Moved(r, req'[r].pc) /\ req'[r].pc # "free" /\ n \in Nodes /\ req[r] # Free
      BY <1>2, <2>2, StepReq
    <3>2. CASE CheckTheirs(r) \/ CheckOurs(r)
      <4>1. \/ CheckTheirs(r) /\ req[r].pc = "theirs" /\ req'[r].pc = "ours"
            \/ CheckOurs(r) /\ req[r].pc = "ours" /\ req'[r].pc = "select"
            \/ req[r].pc \in {"theirs", "ours"} /\ req'[r].pc = req[r].pc
        <5>1. ASSUME NEW c \in Pcs, Pc(r, c) PROVE req'[r].pc = c
          BY <5>1, PcReq DEF TypeInv, Moved
        <5>2. ASSUME NEW v, Return(r, v) PROVE FALSE
          BY <1>2, <2>2, <5>2 DEF Return, TypeInv
        <5>. QED
          BY <3>2, <5>1, <5>2 DEF CheckTheirs, CheckOurs, CheckRelation, Pcs, Early
      <4>. QED
        BY <1>1, <1>2, <2>2, <3>1, <4>1, StepCache DEF Moved, Passed, Cleared, Checked
    <3>3. CASE ~(CheckTheirs(r) \/ CheckOurs(r))
      <4>1. req[r].pc \notin {"theirs", "ours"}
        BY <3>3 DEF Step, SelectConversation, CreateConversation, ReadHistory,
                    InsertDMMessage, InsertAttachments, publishDMCreated
      <4>. QED
        BY <1>1, <1>2, <2>2, <3>1, <4>1 DEF Moved, Passed, Cleared, Checked
    <3>. QED
      BY <3>2, <3>3
  <2>. QED
    BY <2>1, <2>2
<1>. QED
  BY <1>2 DEF Checked

-----------------------------------------------------------------------------
(* Counting the attempts of a message. *)

Weight(r, m, pcs) == IF req[r].msg = m /\ req[r].pc \in pcs THEN 1 ELSE 0

LEMMA CountStep ==
  ASSUME NEW r \in Reqs, NEW m, NEW pcs, Others(r), IsFiniteSet(Pend(m, pcs))
  PROVE  /\ IsFiniteSet(Pend(m, pcs)')
         /\ Cardinality(Pend(m, pcs)) \in Nat /\ Cardinality(Pend(m, pcs)') \in Nat
         /\ Cardinality(Pend(m, pcs)') + Weight(r, m, pcs)
              = Cardinality(Pend(m, pcs)) + Weight(r, m, pcs)'
<1>. DEFINE P == Pend(m, pcs)
            Q == Pend(m, pcs)'
            R == P \ {r}
<1>1. /\ R = Q \ {r}
      /\ r \in P <=> Weight(r, m, pcs) = 1
      /\ r \in Q <=> Weight(r, m, pcs)' = 1
      /\ Weight(r, m, pcs) \in {0, 1} /\ Weight(r, m, pcs)' \in {0, 1}
  BY DEF Pend, Weight, Others
<1>2. IsFiniteSet(R) /\ Cardinality(R) \in Nat /\ Cardinality(P) \in Nat
  BY FS_RemoveElement, FS_CardinalityType
<1>3. P = IF r \in P THEN R \cup {r} ELSE R
  OBVIOUS
<1>4. Q = IF r \in Q THEN R \cup {r} ELSE R
  BY <1>1
<1>5. IsFiniteSet(R \cup {r}) /\ Cardinality(R \cup {r}) = Cardinality(R) + 1
  BY <1>2, FS_AddElement
<1>6. IsFiniteSet(Q) /\ Cardinality(Q) = Cardinality(R) + Weight(r, m, pcs)'
  <2>1. CASE r \in Q
    BY <1>1, <1>4, <1>5, <2>1
  <2>2. CASE r \notin Q
    BY <1>1, <1>2, <1>4, <2>2
  <2>. QED
    BY <2>1, <2>2
<1>7. Cardinality(P) = Cardinality(R) + Weight(r, m, pcs)
  <2>1. CASE r \in P
    BY <1>1, <1>3, <1>5, <2>1
  <2>2. CASE r \notin P
    BY <1>1, <1>2, <1>3, <2>2
  <2>. QED
    BY <2>1, <2>2
<1>. HIDE DEF P, Q, R
<1>. QED
  BY <1>1, <1>2, <1>6, <1>7 DEF P, Q

\* The counters of m after a step of the attempt r, by what the step did.
Balance(r, m) ==
  LET e == Weight(r, m, Early)'       - Weight(r, m, Early)
      a == Weight(r, m, {"attach"})'  - Weight(r, m, {"attach"})
      l == Weight(r, m, Late)'        - Weight(r, m, Late)
  IN /\ m \notin Histories =>
          (rows'[m] - rows[m]) + e <= (unsure'[m] - unsure[m]) + (Owed(m)' - Owed(m))
     /\ (files'[m] - files[m]) + a <= rows'[m] - rows[m]
     /\ (events'[m] - events[m]) + l <= rows'[m] - rows[m]

LEMMA AddsAt ==
  ASSUME NEW f \in [Msgs -> Nat], NEW g, NEW k \in Msgs, NEW m \in Msgs, Adds(f, g, k)
  PROVE  g[m] = IF k = m THEN f[m] + 1 ELSE f[m]
BY DEF Adds

LEMMA StepBalance ==
  ASSUME NEW r \in Reqs, NEW m \in Msgs, TypeInv, Placed, Step(r)
  PROVE  /\ Balance(r, m) /\ rows'[m] >= rows[m]
         /\ m \in Histories => rows'[m] = rows[m]
         /\ client'[m] = "accepted" => \/ client[m] = "accepted" \/ m \in Histories
                                       \/ Weight(r, m, Late) = 1
<1>1. /\ req[r].msg \in Msgs /\ Effect(r) /\ req[r].pc \in Pcs
      /\ req[r].msg \in Histories => req[r].pc \in {"select", "create", "read"}
      /\ req[r].msg \notin Histories => req[r].pc # "read"
  BY StepReq, StepEffect DEF Placed, TypeInv, Attempts
<1>2. /\ rows[m] \in Nat /\ files[m] \in Nat /\ events[m] \in Nat /\ unsure[m] \in Nat
      /\ Owed(m) \in {0, 1} /\ Owed(m)' \in {0, 1}
  BY DEF TypeInv, Owed
<1>. DEFINE More(f, g) == g[m] = IF req[r].msg = m THEN f[m] + 1 ELSE f[m]
<1>3. /\ Adds(rows, rows', req[r].msg) => More(rows, rows')
      /\ Adds(files, files', req[r].msg) => More(files, files')
      /\ Adds(events, events', req[r].msg) => More(events, events')
      /\ Adds(unsure, unsure', req[r].msg) => More(unsure, unsure')
  BY <1>1, AddsAt DEF TypeInv
<1>. DEFINE W == IF req[r].msg = m THEN 1 ELSE 0
<1>4. Free.pc = "free" /\ \A c \in {"free"} : c \notin Early \cup Late
  BY DEF Free, Early, Late
<1>5. ASSUME NEW c \in Pcs, Pc(r, c)
      PROVE  req'[r].pc = c /\ req'[r].msg = req[r].msg
  BY <1>5, PcReq DEF TypeInv, Moved
<1>6. ASSUME NEW v \in Answers, Return(r, v)
      PROVE  req'[r].pc = "free" /\ Told(r, v)
  BY <1>1, <1>6, ReturnReq DEF Free
<1>7. Reqs \cap Answers = {} /\ client[m] \in Answers \cup Reqs
  BY DirectAssumption DEF Answers, TypeInv
<1>8. /\ Early \cup Late \subseteq Pcs
      /\ Early = {"theirs", "ours", "select", "create", "insert"}
      /\ Late = {"attach", "publish"}
  BY DEF Early, Late, Pcs
<1>. USE <1>1, <1>2, <1>4, <1>8
<1>9. CASE Onward(r)
  <2>1. UNCHANGED <<rows, files, events, unsure, client>>
    BY <1>9 DEF Onward
  <2>2. /\ req'[r].msg = req[r].msg
        /\ req[r].pc \in {"theirs", "ours", "select", "create"}
        /\ req'[r].pc \in {"theirs", "ours", "select", "create", "read", "insert"}
        /\ req'[r].pc = "read" => req[r].msg \in Histories
    BY <1>5, <1>9 DEF Onward, Pcs
  <2>3. Owed(m)' = Owed(m)
    BY <2>1 DEF Owed
  <2>4. /\ m \notin Histories => Weight(r, m, Early) = W /\ Weight(r, m, Early)' = W
        /\ Weight(r, m, {"attach"}) = 0 /\ Weight(r, m, {"attach"})' = 0
        /\ Weight(r, m, Late) = 0 /\ Weight(r, m, Late)' = 0
    BY <2>2 DEF Weight
  <2>. QED
    BY <2>1, <2>3, <2>4 DEF Balance
<1>10. CASE Stored(r)
  <2>1. UNCHANGED <<files, events, unsure, client>> /\ More(rows, rows')
    BY <1>10, <1>3 DEF Stored
  <2>2. req'[r].msg = req[r].msg /\ req[r].pc = "insert" /\ req'[r].pc = "attach"
    BY <1>5, <1>10 DEF Stored, Pcs
  <2>3. Owed(m)' = Owed(m)
    BY <2>1 DEF Owed
  <2>4. /\ Weight(r, m, Early) = W /\ Weight(r, m, Early)' = 0
        /\ Weight(r, m, {"attach"}) = 0 /\ Weight(r, m, {"attach"})' = W
        /\ Weight(r, m, Late) = 0 /\ Weight(r, m, Late)' = W
    BY <2>2 DEF Weight
  <2>5. m \in Histories => req[r].msg # m
    BY <2>2
  <2>. QED
    BY <2>1, <2>3, <2>4, <2>5 DEF Balance
<1>11. CASE Attached(r)
  <2>1. /\ UNCHANGED <<rows, events, unsure, client>>
        /\ files' = files \/ More(files, files')
    BY <1>11, <1>3 DEF Attached
  <2>2. req'[r].msg = req[r].msg /\ req[r].pc = "attach" /\ req'[r].pc = "publish"
    BY <1>5, <1>11 DEF Attached, Pcs
  <2>3. Owed(m)' = Owed(m)
    BY <2>1 DEF Owed
  <2>4. /\ Weight(r, m, Early) = 0 /\ Weight(r, m, Early)' = 0
        /\ Weight(r, m, {"attach"}) = W /\ Weight(r, m, {"attach"})' = 0
        /\ Weight(r, m, Late) = W /\ Weight(r, m, Late)' = W
    BY <2>2 DEF Weight
  <2>. QED
    BY <2>1, <2>3, <2>4 DEF Balance
<1>12. CASE Announced(r) \/ Answered(r)
  <2>1. /\ UNCHANGED <<rows, files, unsure>>
        /\ \/ events' = events
           \/ req[r].pc = "publish" /\ More(events, events')
    BY <1>12, <1>3 DEF Announced, Answered
  <2>2. /\ req[r].pc \in {"publish", "read"} /\ req'[r].pc = "free"
        /\ Told(r, "accepted")
    BY <1>6, <1>12 DEF Announced, Answered, Answers
  <2>3. Owed(m)' = Owed(m)
    BY <1>7, <2>2 DEF Owed, Told, Answers
  <2>4. /\ Weight(r, m, Early) = 0 /\ Weight(r, m, Early)' = 0
        /\ Weight(r, m, {"attach"}) = 0 /\ Weight(r, m, {"attach"})' = 0
        /\ Weight(r, m, Late) = (IF req[r].pc = "publish" THEN W ELSE 0)
        /\ Weight(r, m, Late)' = 0
    BY <2>2 DEF Weight
  <2>5. Balance(r, m) /\ rows'[m] = rows[m]
    BY <2>1, <2>3, <2>4 DEF Balance
  <2>6. client'[m] = "accepted" => \/ client[m] = "accepted" \/ m \in Histories
                                   \/ Weight(r, m, Late) = 1
    BY <2>2, <2>4 DEF Told
  <2>. QED
    BY <2>5, <2>6
<1>13. CASE Refused(r)
  <2>1. /\ UNCHANGED <<files, events>>
        /\ \/ UNCHANGED <<rows, unsure>>
           \/ req[r].pc = "insert" /\ More(rows, rows') /\ More(unsure, unsure')
    BY <1>13, <1>3 DEF Refused
  <2>2. PICK v \in {"failed", "denied"} : Return(r, v)
    BY <1>13 DEF Refused
  <2>3. req'[r].pc = "free" /\ Told(r, v)
    BY <1>6, <2>2 DEF Answers
  <2>4. /\ req[r].msg # m => Owed(m)' = Owed(m)
        /\ Owed(m)' <= Owed(m) /\ Owed(m)' >= Owed(m) - 1
        /\ client'[m] = "accepted" => client[m] = "accepted"
    BY <1>7, <2>3 DEF Owed, Told, Answers
  <2>5. req[r].pc \in Early \cup {"read"} /\ (req[r].pc = "read" => req[r].msg \in Histories)
    BY <1>13 DEF Refused
  <2>6. Owed(m) \in {0, 1} /\ Owed(m)' \in {0, 1}
    BY DEF Owed
  <2>7. /\ m \notin Histories => Weight(r, m, Early) = W /\ Weight(r, m, Early)' = 0
        /\ Weight(r, m, {"attach"}) = 0 /\ Weight(r, m, {"attach"})' = 0
        /\ Weight(r, m, Late) = 0 /\ Weight(r, m, Late)' = 0
    BY <2>3, <2>5 DEF Weight
  <2>8. m \in Histories /\ req[r].pc = "insert" => req[r].msg # m
    OBVIOUS
  <2>. QED
    BY <2>1, <2>4, <2>6, <2>7, <2>8 DEF Balance
<1>. QED
  BY <1>9, <1>10, <1>11, <1>12, <1>13 DEF Effect

LEMMA StepCounted ==
  ASSUME NEW r \in Reqs, NEW m \in Msgs, TypeInv, Placed, Counted(m), Step(r)
  PROVE  Counted(m)'
<1>. DEFINE N(pcs) == Cardinality(Pend(m, pcs))
<1>1. ASSUME NEW pcs \in {Early, {"attach"}, Late}
      PROVE  /\ IsFiniteSet(Pend(m, pcs)') /\ N(pcs) \in Nat /\ N(pcs)' \in Nat
             /\ N(pcs)' + Weight(r, m, pcs) = N(pcs) + Weight(r, m, pcs)'
  BY CountStep, StepReq DEF Counted
<1>2. \A pcs : Weight(r, m, pcs) \in {0, 1} /\ Weight(r, m, pcs)' \in {0, 1}
  BY DEF Weight
<1>3. /\ rows[m] \in Nat /\ files[m] \in Nat /\ events[m] \in Nat /\ unsure[m] \in Nat
      /\ rows'[m] \in Nat /\ files'[m] \in Nat /\ events'[m] \in Nat /\ unsure'[m] \in Nat
      /\ Owed(m) \in Nat /\ Owed(m)' \in Nat
  BY StepType DEF TypeInv, Owed
<1>4. Weight(r, m, Late) = 1 => N(Late) >= 1
  <2>1. SUFFICES ASSUME Weight(r, m, Late) = 1 PROVE N(Late) >= 1
    BY <1>1
  <2>2. Pend(m, Late) # {} /\ IsFiniteSet(Pend(m, Late))
    BY <2>1 DEF Weight, Pend, Counted
  <2>. QED
    BY <1>1, <2>2, FS_EmptySet
<1>5. /\ m \notin Histories => rows[m] + N(Early) <= unsure[m] + Owed(m)
      /\ files[m] + N({"attach"}) <= rows[m]
      /\ events[m] + N(Late) <= rows[m]
      /\ client[m] = "accepted" /\ m \notin Histories => rows[m] >= 1
      /\ m \in Histories => rows[m] = 0
  BY DEF Counted
<1>. HIDE DEF N
<1>6. /\ m \notin Histories => rows'[m] + N(Early)' <= unsure'[m] + Owed(m)'
      /\ files'[m] + N({"attach"})' <= rows'[m]
      /\ events'[m] + N(Late)' <= rows'[m]
  BY <1>1, <1>2, <1>3, <1>5, StepBalance DEF Balance
<1>7. /\ client'[m] = "accepted" /\ m \notin Histories => rows'[m] >= 1
      /\ m \in Histories => rows'[m] = 0
  BY <1>1, <1>3, <1>4, <1>5, StepBalance
<1>. QED
  BY <1>1, <1>6, <1>7 DEF Counted, N

LEMMA HandlerStep ==
  ASSUME IInv, NEW r \in Reqs, Step(r)
  PROVE  IInv'
<1>1. ASSUME NEW n \in Nodes, NEW d \in Directions
      PROVE  {cache'[n][d], flight'[n][d]} \subseteq {None, rel'[d]} \/ d \in moved'[n]
  <2>1. /\ rel' = rel /\ moved' = moved
        /\ cache'[n][d] \in {cache[n][d], flight[n][d]}
        /\ flight'[n][d] \in {None, flight[n][d], rel[d]}
    BY StepCache DEF IInv
  <2>2. {cache[n][d], flight[n][d]} \subseteq {None, rel[d]} \/ d \in moved[n]
    BY DEF IInv, Explained
  <2>. QED
    BY <2>1, <2>2
<1>. QED
  BY <1>1, StepType, StepPlaced, StepChecked, StepCounted DEF IInv, Explained

-----------------------------------------------------------------------------
(* The senders, the nodes and the relations. *)

LEMMA SubmitStep ==
  ASSUME IInv, NEW r \in Reqs, NEW n \in Nodes, NEW k \in Msgs, Submit(r, n, k)
  PROVE  IInv'
<1>. USE DEF IInv
<1>1. UNCHANGED <<rel, cache, flight, rows, files, events, unsure, moved>>
  BY DEF Submit, tables, caches
<1>. DEFINE c == IF k \in Histories THEN "select" ELSE "theirs"
<1>2. /\ req' \in [Reqs -> Attempts] /\ Others(r) /\ req'[r].msg = k /\ req'[r].node = n
      /\ req'[r].pc = c /\ req[r] = Free /\ client[k] \in {"ready", "failed"}
  <2>1. [msg |-> k, node |-> n, pc |-> c] \in Attempts
    BY DEF Attempts, Pcs, Early
  <2>. QED
    BY <2>1 DEF Submit, TypeInv, Others
<1>3. /\ client' \in [Msgs -> Answers \cup Reqs] /\ client'[k] = r
      /\ \A m \in Msgs \ {k} : client'[m] = client[m]
  BY DEF Submit, TypeInv
<1>4. TypeInv'
  BY <1>1, <1>2, <1>3 DEF TypeInv
<1>5. Placed'
  <2>1. ASSUME NEW m \in Msgs, client'[m] \in Reqs
        PROVE  req'[client'[m]] # Free /\ req'[client'[m]].msg = m
    <3>1. CASE m = k
      BY <1>2, <1>3, <3>1 DEF Free
    <3>2. CASE m # k
      <4>1. client'[m] = client[m] /\ req[client[m]] # Free /\ req[client[m]].msg = m
        BY <1>3, <2>1, <3>2 DEF Placed
      <4>. QED
        BY <1>2, <2>1, <4>1 DEF Others
    <3>. QED
      BY <3>1, <3>2
  <2>2. ASSUME NEW q \in Reqs, req'[q] # Free
        PROVE  /\ req'[q].msg \in Msgs /\ req'[q].node \in Nodes /\ req'[q].pc # "free"
               /\ req'[q].msg \in Histories => req'[q].pc \in {"select", "create", "read"}
               /\ req'[q].msg \notin Histories => req'[q].pc # "read"
    <3>1. CASE q = r
      BY <1>2, <3>1
    <3>2. CASE q # r
      BY <1>2, <2>2, <3>2 DEF Placed, Others
    <3>. QED
      BY <3>1, <3>2
  <2>. QED
    BY <2>1, <2>2 DEF Placed
<1>6. Checked'
  BY <1>1, <1>2 DEF Checked, Cleared, Passed, Others
<1>7. ASSUME NEW m \in Msgs PROVE Counted(m)'
  <2>. DEFINE N(pcs) == Cardinality(Pend(m, pcs))
  <2>1. ASSUME NEW pcs \in {Early, {"attach"}, Late}
        PROVE  /\ IsFiniteSet(Pend(m, pcs)') /\ N(pcs) \in Nat /\ N(pcs)' \in Nat
               /\ N(pcs)' + Weight(r, m, pcs) = N(pcs) + Weight(r, m, pcs)'
    BY <1>2, CountStep DEF Counted
  <2>2. /\ Weight(r, m, Early) = 0 /\ Weight(r, m, Early)' = (IF m = k THEN 1 ELSE 0)
        /\ Weight(r, m, {"attach"}) = 0 /\ Weight(r, m, {"attach"})' = 0
        /\ Weight(r, m, Late) = 0 /\ Weight(r, m, Late)' = 0
    BY <1>2 DEF Weight, Early, Late, Free
  <2>3. /\ rows[m] \in Nat /\ files[m] \in Nat /\ events[m] \in Nat /\ unsure[m] \in Nat
        /\ Owed(m) \in {0, 1}
    BY DEF TypeInv, Owed
  <2>4. Owed(m)' = Owed(m) + (IF m = k THEN 1 ELSE 0)
    BY <1>2, <1>3, DirectAssumption DEF Owed
  <2>5. client'[m] = "accepted" => client[m] = "accepted"
    BY <1>3, DirectAssumption
  <2>. HIDE DEF N
  <2>6. /\ m \notin Histories => rows[m] + N(Early) <= unsure[m] + Owed(m)
        /\ files[m] + N({"attach"}) <= rows[m]
        /\ events[m] + N(Late) <= rows[m]
    BY DEF Counted, N
  <2>7. /\ m \notin Histories => rows[m] + N(Early)' <= unsure[m] + Owed(m)'
        /\ files[m] + N({"attach"})' <= rows[m]
        /\ events[m] + N(Late)' <= rows[m]
    BY <2>1, <2>2, <2>3, <2>4, <2>6
  <2>. QED
    BY <1>1, <2>1, <2>5, <2>7 DEF Counted, N
<1>. QED
  BY <1>1, <1>4, <1>5, <1>6, <1>7 DEF Explained

LEMMA GiveUpStep ==
  ASSUME IInv, NEW r \in Reqs, GiveUp(r)
  PROVE  IInv'
<1>. USE DEF IInv
<1>. DEFINE k == req[r].msg
<1>1. UNCHANGED <<rel, cache, flight, rows, files, events, req, moved>>
  BY DEF GiveUp, tables, caches
<1>2. k \in Msgs /\ client[k] = r
  BY DEF GiveUp, Waits, Placed
<1>3. /\ client' \in [Msgs -> Answers \cup Reqs] /\ client'[k] = "failed"
      /\ \A m \in Msgs \ {k} : client'[m] = client[m]
  BY <1>2 DEF GiveUp, TypeInv, Answers
<1>4. /\ unsure' \in [Msgs -> Nat] /\ unsure'[k] = unsure[k] + 1
      /\ \A m \in Msgs \ {k} : unsure'[m] = unsure[m]
  BY <1>2 DEF GiveUp, TypeInv
<1>5. TypeInv'
  BY <1>1, <1>3, <1>4 DEF TypeInv
<1>6. Placed'
  BY <1>1, <1>2, <1>3, DirectAssumption DEF Placed
<1>7. Checked'
  BY <1>1 DEF Checked, Cleared, Passed
<1>8. ASSUME NEW m \in Msgs PROVE Counted(m)'
  <2>1. \A pcs : Pend(m, pcs)' = Pend(m, pcs)
    BY <1>1 DEF Pend
  <2>2. /\ unsure'[m] + Owed(m)' >= unsure[m] + Owed(m)
        /\ client'[m] = "accepted" => client[m] = "accepted"
    BY <1>2, <1>3, <1>4, DirectAssumption DEF Owed, TypeInv
  <2>3. /\ rows[m] \in Nat /\ unsure[m] \in Nat /\ Owed(m) \in Nat
        /\ unsure'[m] \in Nat /\ Owed(m)' \in Nat
        /\ Cardinality(Pend(m, Early)) \in Nat
    BY <1>4, FS_CardinalityType DEF TypeInv, Owed, Counted
  <2>4. m \notin Histories => rows[m] + Cardinality(Pend(m, Early)) <= unsure'[m] + Owed(m)'
    BY <2>2, <2>3 DEF Counted
  <2>. QED
    BY <1>1, <2>1, <2>2, <2>4 DEF Counted
<1>. QED
  BY <1>1, <1>5, <1>6, <1>7, <1>8 DEF Explained

LEMMA RestartStep ==
  ASSUME IInv, NEW n \in Nodes, Restart(n)
  PROVE  IInv'
<1>. USE DEF IInv
<1>. DEFINE gone == {r \in Reqs : req[r] # Free /\ req[r].node = n}
<1>1. UNCHANGED <<rel, rows, files, events>>
  BY DEF Restart, tables
<1>2. /\ req' \in [Reqs -> Attempts]
      /\ \A r \in Reqs : req'[r] = IF r \in gone THEN Free ELSE req[r]
  <2>1. Free \in Attempts
    BY DEF Free, Attempts, Pcs
  <2>. QED
    BY <2>1 DEF Restart, TypeInv
<1>3. /\ client' \in [Msgs -> Answers \cup Reqs]
      /\ \A m \in Msgs : client'[m] = IF client[m] \in gone THEN "failed" ELSE client[m]
  BY DEF Restart, TypeInv, Answers
<1>4. /\ unsure' \in [Msgs -> Nat]
      /\ \A m \in Msgs : unsure'[m] = IF client[m] \in gone THEN unsure[m] + 1 ELSE unsure[m]
  BY DEF Restart, TypeInv
<1>5. /\ {cache', flight'} \subseteq [Nodes -> [Directions -> Relations \cup {None}]]
      /\ \A k \in Nodes \ {n} :
           cache'[k] = cache[k] /\ flight'[k] = flight[k] /\ moved'[k] = moved[k]
      /\ moved' \in [Nodes -> SUBSET Directions]
      /\ \A d \in Directions : cache'[n][d] = None /\ flight'[n][d] = None
  BY DEF Restart, TypeInv
<1>6. TypeInv'
  BY <1>1, <1>2, <1>3, <1>4, <1>5 DEF TypeInv
<1>7. Placed'
  BY <1>2, <1>3, DirectAssumption DEF Placed
<1>8. Checked'
  <2>1. ASSUME NEW r \in Reqs, req'[r] # Free
        PROVE  req'[r] = req[r] /\ req[r].node \in Nodes \ {n}
    BY <1>2, <2>1 DEF Placed
  <2>2. ASSUME NEW r \in Reqs, req'[r] # Free, req'[r].msg \notin Histories
        PROVE  Cleared(r)'
    <3>1. Cleared(r)
      BY <2>1, <2>2 DEF Checked
    <3>2. req'[r] = req[r] /\ cache'[req[r].node] = cache[req[r].node]
      BY <1>5, <2>1, <2>2
    <3>. QED
      BY <3>1, <3>2 DEF Cleared, Passed
  <2>. QED
    BY <2>2 DEF Checked
<1>9. ASSUME NEW m \in Msgs PROVE Counted(m)'
  <2>1. ASSUME NEW pcs \in {Early, {"attach"}, Late}
        PROVE  /\ IsFiniteSet(Pend(m, pcs)')
               /\ Cardinality(Pend(m, pcs)') <= Cardinality(Pend(m, pcs))
               /\ Cardinality(Pend(m, pcs)') \in Nat /\ Cardinality(Pend(m, pcs)) \in Nat
    <3>1. ASSUME NEW r \in Reqs, req'[r].pc \in pcs PROVE req'[r] = req[r]
      BY <1>2, <3>1 DEF Free, Early, Late
    <3>2. Pend(m, pcs)' \in SUBSET Pend(m, pcs) /\ IsFiniteSet(Pend(m, pcs))
      BY <3>1 DEF Pend, Counted
    <3>. QED
      BY <3>2, FS_Subset, FS_CardinalityType
  <2>2. /\ unsure'[m] + Owed(m)' >= unsure[m] + Owed(m)
        /\ client'[m] = "accepted" => client[m] = "accepted"
    BY <1>3, <1>4, DirectAssumption DEF Owed, TypeInv
  <2>3. /\ rows[m] \in Nat /\ unsure[m] \in Nat /\ Owed(m) \in Nat
        /\ files[m] \in Nat /\ events[m] \in Nat
        /\ unsure'[m] \in Nat /\ Owed(m)' \in Nat
    BY <1>4 DEF TypeInv, Owed
  <2>4. m \notin Histories => rows[m] + Cardinality(Pend(m, Early)') <= unsure'[m] + Owed(m)'
    BY <2>1, <2>2, <2>3 DEF Counted
  <2>5. /\ files[m] + Cardinality(Pend(m, {"attach"})') <= rows[m]
        /\ events[m] + Cardinality(Pend(m, Late)') <= rows[m]
    BY <2>1, <2>3 DEF Counted
  <2>. QED
    BY <1>1, <2>1, <2>2, <2>4, <2>5 DEF Counted
<1>. QED
  BY <1>1, <1>5, <1>6, <1>7, <1>8, <1>9 DEF Explained

LEMMA ChangeStep ==
  ASSUME IInv, NEW d \in Directions, NEW v \in Relations, ChangeRelation(d, v)
  PROVE  IInv'
<1>. USE DEF IInv
<1>1. UNCHANGED <<rows, files, cache, flight, events, req, client, unsure>>
  BY DEF ChangeRelation, caches
<1>2. /\ rel' \in [Directions -> Relations]
      /\ \A e \in Directions \ {d} : rel'[e] = rel[e]
  BY DEF ChangeRelation, TypeInv
<1>3. /\ moved' \in [Nodes -> SUBSET Directions]
      /\ \A n \in Nodes : /\ moved[n] \subseteq moved'[n]
                          /\ {cache[n][d], flight[n][d]} # {None} => d \in moved'[n]
  BY DEF ChangeRelation, TypeInv
<1>4. TypeInv'
  BY <1>1, <1>2, <1>3 DEF TypeInv
<1>5. Placed' /\ Checked'
  BY <1>1 DEF Placed, Checked, Cleared, Passed
<1>6. ASSUME NEW n \in Nodes, NEW e \in Directions
      PROVE  {cache'[n][e], flight'[n][e]} \subseteq {None, rel'[e]} \/ e \in moved'[n]
  <2>1. {cache[n][e], flight[n][e]} \subseteq {None, rel[e]} \/ e \in moved[n]
    BY DEF Explained
  <2>. QED
    BY <1>1, <1>2, <1>3, <2>1
<1>7. \A m, pcs : Pend(m, pcs)' = Pend(m, pcs)
  BY <1>1 DEF Pend
<1>8. ASSUME NEW m \in Msgs PROVE Counted(m)'
  BY <1>1, <1>7 DEF Counted, Owed
<1>. QED
  BY <1>4, <1>5, <1>6, <1>8 DEF Explained

LEMMA NextIInv == IInv /\ [Next]_vars => IInv'
<1> SUFFICES ASSUME IInv, [Next]_vars PROVE IInv'
  OBVIOUS
<1>1. CASE UNCHANGED vars
  <2>1. \A m, pcs : Pend(m, pcs)' = Pend(m, pcs)
    BY <1>1 DEF vars, Pend
  <2>2. \A m \in Msgs : Counted(m)'
    BY <1>1, <2>1 DEF IInv, vars, Counted, Owed
  <2>. QED
    BY <1>1, <2>2 DEF vars, IInv, TypeInv, Placed, Checked, Cleared, Passed, Explained
<1>2. CASE Next
  BY <1>2, HandlerStep, SubmitStep, GiveUpStep, RestartStep, ChangeStep DEF Next, Relations
<1>. QED
  BY <1>1, <1>2

-----------------------------------------------------------------------------
LEMMA Invariant == Spec => []IInv
BY InitIInv, NextIInv, PTL DEF Spec

\* However often a sender tries again, and whatever queries fail, answers are
\* lost or nodes die: dm_messages holds no copy of a message beyond the first but
\* one for every attempt whose outcome the sender was not told; a message that
\* was accepted is there; no file and no event is without its copy.
THEOREM CopiesAreExplained == Spec => []DuplicateIsExplained
<1>1. IInv => DuplicateIsExplained
  <2> SUFFICES ASSUME IInv, NEW m \in Msgs
               PROVE  /\ rows[m] <= 1 + unsure[m]
                      /\ events[m] <= rows[m] /\ files[m] <= rows[m]
                      /\ client[m] = "accepted" /\ m \notin Histories => rows[m] >= 1
                      /\ m \in Histories => rows[m] = 0
    BY DEF DuplicateIsExplained
  <2>1. Counted(m)
    BY DEF IInv
  <2>2. \A pcs \in {Early, {"attach"}, Late} : Cardinality(Pend(m, pcs)) \in Nat
    BY <2>1, FS_CardinalityType DEF Counted
  <2>4. /\ rows[m] \in Nat /\ files[m] \in Nat /\ events[m] \in Nat /\ unsure[m] \in Nat
        /\ Owed(m) \in {0, 1}
    BY DEF IInv, TypeInv, Owed
  <2>. QED
    BY <2>1, <2>2, <2>4 DEF Counted
<1>. QED
  BY <1>1, Invariant, PTL

\* SendDM lets a message past a block only if the relation has changed since the
\* node that works on it read it.
THEOREM BlocksHoldAlways == Spec => []BlockHolds
<1>1. IInv => BlockHolds
  <2> SUFFICES ASSUME IInv, NEW r \in Reqs, req[r] # Free, req[r].msg \notin Histories,
                      req[r].pc \in {"select", "create", "insert", "attach"},
                      NEW d \in Directions, rel[d] = "blocked",
                      \/ d = <<To[req[r].msg], From[req[r].msg]>>
                      \/ d = <<From[req[r].msg], To[req[r].msg]>>
               PROVE  d \in moved[req[r].node]
    BY DEF BlockHolds
  <2>1. req[r].node \in Nodes /\ cache[req[r].node][d] \in {"none", "friend"}
    BY DEF IInv, Placed, Checked, Cleared, Passed
  <2>. QED
    BY <2>1, DirectAssumption DEF IInv, Explained
<1>. QED
  BY <1>1, Invariant, PTL
=============================================================================
