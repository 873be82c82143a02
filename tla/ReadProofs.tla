------------------------------ MODULE ReadProofs ------------------------------
(***************************************************************************)
(* What readers get, for every value of the constants.  Part 1: the cache. *)
(* Part 2: keys, and pages of them.  Part 3: the lists and the search.     *)
(* Part 4: the view of a tab.                                              *)
(***************************************************************************)
EXTENDS GroupCache, Listings, MessageSync, TLAPS, FiniteSetTheorems,
        WellFoundedInduction

(***************************************************************************)
(* Part 1.  The cache's flights, its stale entries and its refinement of   *)
(* the read-through cache, whatever happens to the pointers of the list.   *)
(***************************************************************************)
Pcs == {"idle", "look", "look2", "join", "wait", "move", "fill", "store", "evict", "drop",
        "reread", "set"}
Ops == [pc : Pcs, key : Keys \cup {None}, val : Nat, stage : Nat, lead : BOOLEAN]

\* Which element an entry has is of no interest here.
Entry(x) == x = None \/ (x = [elem |-> x.elem, val |-> x.val] /\ x.val \in Nat)

TypeInv ==
  /\ db \in [Keys -> Nat] /\ ans \in [Procs -> Nat]
  /\ items = [k \in Keys |-> items[k]] /\ \A k \in Keys : Entry(items[k])
  /\ flight \in [Keys -> Procs \cup {None}]
  /\ op \in [Procs -> Ops]
  /\ \A p \in Procs : op[p].pc # "idle" => op[p].key \in Keys
  /\ excuse \in [Keys -> BOOLEAN]

\* Leaders and flights belong together, and a leader is not yet done.
Flying ==
  /\ \A p \in Procs : op[p].lead => /\ flight[op[p].key] = p
                                    /\ op[p].pc \in {"look2", "move", "fill", "store", "evict"}
  /\ \A p \in Procs : op[p].pc = "wait" => flight[op[p].key] # None
  /\ \A k \in Keys : flight[k] # None => op[flight[k]].lead /\ op[flight[k]].key = k

\* What is in the map, or on its way there, has been committed.
Versions ==
  /\ \A k \in Keys : items[k] # None => items[k].val \in 1..db[k]
  /\ \A p \in Procs : op[p].pc \in {"store", "set", "evict"} => op[p].val \in 1..db[op[p].key]

\* The locks: the entry whose element is being moved stays, and nobody makes room
\* meanwhile.
Held == /\ \A p \in Readers : items[op[p].key] # None
        /\ Evictors # {} => Readers = {}

IInv == TypeInv /\ Flying /\ Versions /\ Held /\ StaleIsExplained

-----------------------------------------------------------------------------
LEMMA InitIInv == Init => IInv
<1> SUFFICES ASSUME Init PROVE IInv
  OBVIOUS
<1>1. Idle \in Ops /\ Idle.pc = "idle" /\ Idle.lead = FALSE
  BY DEF Idle, Ops, Pcs
<1>2. TypeInv
  BY <1>1 DEF Init, TypeInv, Entry
<1>3. Flying /\ Versions /\ Held /\ StaleIsExplained
  BY <1>1 DEF Init, Flying, Versions, Held, Readers, Evictors, StaleIsExplained
<1>. QED
  BY <1>2, <1>3 DEF IInv

-----------------------------------------------------------------------------
(* What the parts of a step do. *)

Others(p) == op' \in [Procs -> Ops] /\ \A q \in Procs \ {p} : op'[q] = op[q]

\* p goes on with the same key, and with its flight if it leads one.
Goes(p, c, v) == /\ Others(p) /\ op'[p].pc = c /\ op'[p].key = op[p].key
                 /\ op'[p].val = v /\ op'[p].lead = op[p].lead

\* p, which was idle, begins to work on k.
Begins(p, k, c, v) ==
  /\ Others(p) /\ op[p].pc = "idle" /\ op'[p].pc = c /\ op'[p].key = k
  /\ op'[p].val = v /\ op'[p].lead = FALSE

\* Those that are told v are p and, if it leads a flight, who waits for it.
With(p, q) == q = p \/ (op[p].lead /\ op[q].pc = "wait" /\ op[q].key = op[p].key)
Lands(p, v) ==
  /\ op' \in [Procs -> Ops] /\ ans' \in [Procs -> Nat]
  /\ flight' \in [Keys -> Procs \cup {None}]
  /\ \A q \in Procs : op'[q] = IF With(p, q) THEN Idle ELSE op[q]
  /\ \A q \in Procs : ans'[q] = IF With(p, q) THEN v ELSE ans[q]
  /\ flight' = IF op[p].lead THEN [flight EXCEPT ![op[p].key] = None] ELSE flight

LEMMA LandEffect ==
  ASSUME TypeInv, NEW p \in Procs, NEW v \in Nat, op[p].pc # "idle", Land(p, v)
  PROVE  Lands(p, v)
<1>1. Idle \in Ops /\ op[p].key \in Keys
  BY DEF Idle, Ops, Pcs, TypeInv
<1>. QED
  BY <1>1 DEF Land, Lands, With, TypeInv

\* The entry of k now holds v or is gone, others are as before or gone.
Entered(k, v) ==
  /\ items' = [j \in Keys |-> items'[j]] /\ \A j \in Keys : Entry(items'[j])
  /\ items'[k] # None => items'[k].val = v
  /\ \A j \in Keys \ {k} : items'[j] \in {items[j], None}

LEMMA AddEffect ==
  ASSUME TypeInv, NEW k \in Keys, NEW v \in Nat, Add(k, v)
  PROVE  Entered(k, v)
<1>1. CASE items[k] # None
  <2>1. items' = [items EXCEPT ![k].val = v]
    BY <1>1 DEF Add
  <2>2. items[k] = [elem |-> items[k].elem, val |-> items[k].val]
    BY <1>1 DEF TypeInv, Entry
  <2>3. items'[k] = [elem |-> items[k].elem, val |-> v]
    BY <2>1, <2>2 DEF TypeInv
  <2>4. items' = [j \in Keys |-> items'[j]] /\ \A j \in Keys \ {k} : items'[j] = items[j]
    BY <2>1 DEF TypeInv
  <2>5. Entry(items'[k])
    BY <2>3 DEF Entry
  <2>. QED
    BY <2>1, <2>3, <2>4, <2>5 DEF Entered, TypeInv
<1>2. CASE items[k] = None
  <2>. DEFINE new == [elem |-> Fresh(k), val |-> v]
  <2>1. items' = [items EXCEPT ![k] = new]
    BY <1>2 DEF Add
  <2>2. Entry(new) /\ new.val = v
    BY DEF Entry
  <2>. HIDE DEF new
  <2>. QED
    BY <2>1, <2>2 DEF Entered, TypeInv
<1>. QED
  BY <1>1, <1>2

-----------------------------------------------------------------------------
(* The steps by what they do to all but the list. *)

Called(p, k) ==
  /\ Begins(p, k, "look", 0) /\ ans' = [ans EXCEPT ![p] = 0]
  /\ UNCHANGED <<db, items, flight, excuse>>

\* A look goes on: to the flight, to the filler, or to the moves of a hit.
Looked(p) ==
  /\ \/ op[p].pc = "look" /\ Goes(p, "join", op[p].val)
     \/ op[p].pc = "look2" /\ Goes(p, "fill", op[p].val)
     \/ /\ op[p].pc \in {"look", "look2", "move"} /\ Goes(p, "move", op[p].val)
        /\ items[op[p].key] # None
        /\ op[p].pc = "move" \/ Evictors = {}
  /\ UNCHANGED <<db, items, flight, ans, excuse>>

Hit(p) ==
  /\ op[p].pc \in {"look", "look2", "move"} /\ items[op[p].key] # None
  /\ Lands(p, items[op[p].key].val)
  /\ UNCHANGED <<db, items, excuse>>

Joined(p) ==
  /\ op[p].pc = "join"
  /\ \/ /\ flight[op[p].key] = None /\ flight' = [flight EXCEPT ![op[p].key] = p]
        /\ Others(p) /\ op'[p].pc = "look2" /\ op'[p].key = op[p].key /\ op'[p].lead = TRUE
     \/ /\ flight[op[p].key] # None /\ flight' = flight
        /\ Goes(p, "wait", op[p].val)
  /\ UNCHANGED <<db, items, ans, excuse>>

Filled(p) ==
  /\ op[p].pc = "fill" /\ db[op[p].key] > 0 /\ Goes(p, "store", db[op[p].key])
  /\ UNCHANGED <<db, items, flight, ans, excuse>>

Missed(p) ==
  /\ op[p].pc = "fill" /\ Lands(p, 0)
  /\ UNCHANGED <<db, items, excuse>>

Added(p) ==
  /\ op[p].pc \in {"store", "set"} /\ Readers = {}
  /\ Entered(op[p].key, op[p].val) /\ Lands(p, op[p].val)
  /\ excuse' = Excused(op[p].key, op[p].val) /\ db' = db

Pushed(p) ==
  /\ op[p].pc \in {"store", "set"} /\ Readers = {}
  /\ Entered(op[p].key, op[p].val) /\ Goes(p, "evict", op[p].val)
  /\ excuse' = Excused(op[p].key, op[p].val)
  /\ UNCHANGED <<db, flight, ans>>

\* An entry, or none, makes room.
Shrunk == /\ items' = [j \in Keys |-> items'[j]]
          /\ \A j \in Keys : items'[j] \in {items[j], None}
Evicted == /\ Evictors # {} /\ Shrunk
           /\ UNCHANGED <<db, flight, op, ans, excuse>>

\* There is room, or the loop has panicked.
MadeRoom(p) ==
  /\ op[p].pc = "evict"
  /\ Lands(p, op[p].val) \/ Lands(p, 0)
  /\ UNCHANGED <<db, items, excuse>>

Dropped(p) ==
  /\ op[p].pc = "drop" /\ Readers = {} /\ Goes(p, "reread", op[p].val)
  /\ items' = [items EXCEPT ![op[p].key] = None]
  /\ excuse' = [excuse EXCEPT ![op[p].key] = FALSE]
  /\ UNCHANGED <<db, flight, ans>>

Reanswered(p) ==
  /\ op[p].pc = "reread" /\ Others(p) /\ op'[p] = Idle
  /\ \E v \in {0, db[op[p].key]} : ans' = [ans EXCEPT ![p] = v]
  /\ UNCHANGED <<db, items, flight, excuse>>

Wrote(p, k) ==
  /\ db' = [db EXCEPT ![k] = @ + 1]
  /\ \/ db[k] > 0 /\ Begins(p, k, "drop", 0)
     \/ db[k] = 0 /\ Begins(p, k, "set", 1)
  /\ UNCHANGED <<items, flight, ans, excuse>>

Elsewhere(k) ==
  /\ db' = [db EXCEPT ![k] = @ + 1] /\ db[k] > 0
  /\ excuse' = [excuse EXCEPT ![k] = TRUE]
  /\ UNCHANGED <<items, flight, op, ans>>

Still == UNCHANGED <<db, items, flight, op, ans, excuse>>

Effect ==
  \/ Still \/ Evicted
  \/ \E k \in Keys : Elsewhere(k) \/ \E p \in Procs : Called(p, k) \/ Wrote(p, k)
  \/ \E p \in Procs : \/ Looked(p) \/ Hit(p) \/ Joined(p) \/ Filled(p) \/ Missed(p)
                      \/ Added(p) \/ Pushed(p) \/ MadeRoom(p) \/ Dropped(p)
                      \/ Reanswered(p)

LEMMA LookEffect ==
  ASSUME IInv, NEW p \in Procs, Look(p) \/ Move(p)
  PROVE  Looked(p) \/ Hit(p)
<1>. DEFINE k == op[p].key
<1>1. /\ k \in Keys /\ op \in [Procs -> Ops] /\ op[p].pc \in {"look", "look2", "move"}
      /\ items[k] # None => items[k].val \in Nat
  BY DEF Look, Move, IInv, TypeInv, Entry
<1>2. UNCHANGED <<db, items, excuse>>
  BY DEF Look, Move
<1>3. ASSUME items[k] # None, Land(p, items[k].val) PROVE Hit(p)
  BY <1>1, <1>2, <1>3, LandEffect DEF IInv, Hit
<1>4. CASE Look(p)
  <2>1. CASE items[k] = None
    BY <1>1, <1>2, <1>4, <2>1 DEF Look, Looked, Goes, Others, Ops, Pcs
  <2>2. CASE /\ items[k] # None /\ op' = [op EXCEPT ![p].pc = "move", ![p].stage = 1]
             /\ UNCHANGED <<ans, flight>>
    BY <1>1, <1>2, <1>4, <2>2 DEF Look, ReadLock, Looked, Goes, Others, Ops, Pcs
  <2>. QED
    BY <1>3, <1>4, <2>1, <2>2 DEF Look
<1>5. CASE Move(p)
  <2>1. items[k] # None
    BY <1>5 DEF Move, IInv, Held, Readers
  <2>2. CASE op' = [op EXCEPT ![p].stage = op[p].stage + 1] /\ UNCHANGED <<ans, flight>>
    BY <1>1, <1>2, <1>5, <2>1, <2>2 DEF Move, Looked, Goes, Others, Ops
  <2>. QED
    BY <1>3, <1>5, <2>1, <2>2 DEF Move
<1>. QED
  BY <1>4, <1>5

LEMMA StepEffect ==
  ASSUME IInv, NEW p \in Procs, Step(p)
  PROVE  \/ Still \/ Looked(p) \/ Hit(p) \/ Joined(p) \/ Filled(p) \/ Missed(p)
         \/ Added(p) \/ Pushed(p) \/ MadeRoom(p) \/ Evicted \/ Dropped(p) \/ Reanswered(p)
<1>. DEFINE k == op[p].key
<1>1. /\ op[p].pc # "idle" => k \in Keys
      /\ op \in [Procs -> Ops] /\ db \in [Keys -> Nat] /\ ans \in [Procs -> Nat]
      /\ flight \in [Keys -> Procs \cup {None}]
      /\ items = [j \in Keys |-> items[j]]
  BY DEF IInv, TypeInv
<1>2. CASE Look(p) \/ Move(p)
  BY <1>2, LookEffect
<1>3. CASE Join(p)
  BY <1>1, <1>3 DEF Join, lru, hist, Joined, Goes, Others, Ops, Pcs
<1>4. CASE Fill(p)
  BY <1>1, <1>4 DEF Fill, lru, hist, Filled, Goes, Others, Ops, Pcs
<1>5. CASE FillFails(p)
  BY <1>1, <1>5, LandEffect DEF FillFails, lru, hist, Missed, IInv
<1>6. CASE Store(p) \/ Set(p)
  <2>1. /\ op[p].pc \in {"store", "set"} /\ Readers = {} /\ Add(k, op[p].val)
        /\ excuse' = Excused(k, op[p].val) /\ db' = db
        /\ \/ Land(p, op[p].val)
           \/ op' = [op EXCEPT ![p].pc = "evict"] /\ UNCHANGED <<ans, flight>>
    BY <1>6 DEF Store, Set, AddEntry, WriteLock
  <2>2. k \in Keys /\ op[p].val \in Nat
    BY <1>1, <2>1 DEF Ops
  <2>3. Entered(k, op[p].val)
    BY <2>1, <2>2, AddEffect DEF IInv
  <2>4. CASE Land(p, op[p].val)
    <3>1. Lands(p, op[p].val)
      BY <2>1, <2>2, <2>4, LandEffect DEF IInv
    <3>. QED
      BY <2>1, <2>3, <3>1 DEF Added
  <2>5. CASE op' = [op EXCEPT ![p].pc = "evict"] /\ UNCHANGED <<ans, flight>>
    <3>1. Goes(p, "evict", op[p].val)
      BY <1>1, <2>5 DEF Goes, Others, Ops, Pcs
    <3>. QED
      BY <2>1, <2>3, <2>5, <3>1 DEF Pushed
  <2>. QED
    BY <2>1, <2>4, <2>5
<1>7. CASE Invalidate(p)
  <2>1. items' = [items EXCEPT ![k] = None]
    <3>1. CASE items[k] = None
      <4>1. items' = items
        BY <1>7, <3>1 DEF Invalidate, LruRemove
      <4>. QED
        BY <1>1, <3>1, <4>1
    <3>. QED
      BY <1>7, <3>1 DEF Invalidate, LruRemove
  <2>2. /\ op[p].pc = "drop" /\ Readers = {} /\ op' = [op EXCEPT ![p].pc = "reread"]
        /\ excuse' = [excuse EXCEPT ![k] = FALSE] /\ UNCHANGED <<db, flight, ans>>
    BY <1>7 DEF Invalidate, WriteLock
  <2>. QED
    BY <1>1, <2>1, <2>2 DEF Dropped, Goes, Others, Ops, Pcs
<1>8. CASE Reread(p)
  <2>1. Idle \in Ops
    BY DEF Idle, Ops, Pcs
  <2>. QED
    BY <1>1, <1>8, <2>1 DEF Reread, lru, hist, Reanswered, Others
<1>9. CASE Evict(p)
  <2>. DEFINE back == link[Root].prev
  <2>1. op[p].pc = "evict" /\ p \in Evictors /\ op[p].val \in Nat /\ UNCHANGED <<db, excuse>>
    BY <1>1, <1>9 DEF Evict, Evictors, Ops
  <2>2. CASE (Land(p, op[p].val) \/ Land(p, 0)) /\ UNCHANGED lru
    <3>1. Lands(p, op[p].val) \/ Lands(p, 0)
      BY <2>1, <2>2, LandEffect DEF IInv
    <3>. QED
      BY <2>1, <2>2, <3>1 DEF MadeRoom, lru
  <2>3. CASE items' = [items EXCEPT ![KeyOf(back)] = None] /\ UNCHANGED <<op, ans, flight>>
    <3>1. Shrunk
      BY <1>1, <2>3 DEF Shrunk
    <3>. QED
      BY <2>1, <2>3, <3>1 DEF Evicted
  <2>. QED
    BY <1>9, <2>2, <2>3 DEF Evict
<1>. QED
  BY <1>2, <1>3, <1>4, <1>5, <1>6, <1>7, <1>8, <1>9 DEF Step

LEMMA NextEffect ==
  ASSUME IInv, [Next]_vars
  PROVE  Effect
<1>1. CASE UNCHANGED vars
  BY <1>1 DEF vars, Effect, Still
<1>2. CASE \E p \in Procs : Step(p)
  <2>1. PICK p \in Procs : Step(p)
    BY <1>2
  <2>. QED
    BY <2>1, StepEffect DEF Effect
<1>3. ASSUME NEW p \in Procs, NEW k \in Keys, Call(p, k) PROVE Effect
  <2>1. [Idle EXCEPT !.pc = "look", !.key = k] \in Ops
    BY DEF Idle, Ops, Pcs
  <2>2. Called(p, k)
    BY <1>3, <2>1 DEF Call, lru, hist, Called, Begins, Others, Idle, IInv, TypeInv
  <2>. QED
    BY <2>2 DEF Effect
<1>4. ASSUME NEW p \in Procs, NEW k \in Written, Update(p, k) \/ Create(p, k) PROVE Effect
  <2>1. k \in Keys /\ db[k] \in Nat /\ op \in [Procs -> Ops]
    BY CacheAssumption DEF IInv, TypeInv
  <2>2. CASE Update(p, k)
    <3>1. [Idle EXCEPT !.pc = "drop", !.key = k] \in Ops
      BY <2>1 DEF Idle, Ops, Pcs
    <3>2. db[k] > 0
      BY <2>1, <2>2, CacheAssumption DEF Update
    <3>3. Wrote(p, k)
      BY <2>1, <2>2, <3>1, <3>2 DEF Update, lru, hist, Wrote, Begins, Others, Idle
    <3>. QED
      BY <2>1, <3>3 DEF Effect
  <2>3. CASE Create(p, k)
    <3>1. [Idle EXCEPT !.pc = "set", !.key = k, !.val = 1] \in Ops
      BY <2>1 DEF Idle, Ops, Pcs
    <3>2. db' = [db EXCEPT ![k] = @ + 1] /\ db[k] = 0
      BY <2>3 DEF Create
    <3>3. Wrote(p, k)
      BY <2>1, <2>3, <3>1, <3>2 DEF Create, lru, hist, Wrote, Begins, Others, Idle
    <3>. QED
      BY <2>1, <3>3 DEF Effect
  <2>. QED
    BY <1>4, <2>2, <2>3
<1>5. ASSUME NEW k \in Written, UpdateElsewhere(k) PROVE Effect
  <2>1. k \in Keys /\ db[k] \in Nat
    BY CacheAssumption DEF IInv, TypeInv
  <2>2. db[k] > 0
    BY <1>5, <2>1, CacheAssumption DEF UpdateElsewhere
  <2>. QED
    BY <1>5, <2>1, <2>2 DEF UpdateElsewhere, lru, Elsewhere, Effect
<1>. QED
  BY <1>1, <1>2, <1>3, <1>4, <1>5 DEF Next

-----------------------------------------------------------------------------
(* The parts of the invariant. *)

LEMMA ExcusedType ==
  ASSUME TypeInv, NEW k \in Keys, NEW v \in Nat
  PROVE  Excused(k, v) \in [Keys -> BOOLEAN]
BY DEF TypeInv, Excused

LEMMA TypeStep ==
  ASSUME TypeInv, Effect
  PROVE  TypeInv'
<1>. USE DEF TypeInv
<1>1. Idle.pc = "idle"
  BY DEF Idle
<1>2. CASE Still
  BY <1>2 DEF Still
<1>3. ASSUME NEW k \in Keys, Elsewhere(k) PROVE TypeInv'
  BY <1>3 DEF Elsewhere
<1>4. ASSUME NEW k \in Keys, NEW p \in Procs, Called(p, k) \/ Wrote(p, k) PROVE TypeInv'
  BY <1>4 DEF Called, Wrote, Begins, Others
<1>5. ASSUME NEW p \in Procs, Looked(p) \/ Filled(p) PROVE TypeInv'
  BY <1>5 DEF Looked, Filled, Goes, Others
<1>6. ASSUME NEW p \in Procs, Hit(p) \/ Missed(p) \/ MadeRoom(p) PROVE TypeInv'
  BY <1>1, <1>6 DEF Hit, Missed, MadeRoom, Lands
<1>7. ASSUME NEW p \in Procs, Joined(p) PROVE TypeInv'
  BY <1>7 DEF Joined, Goes, Others
<1>8. ASSUME NEW p \in Procs, Added(p) \/ Pushed(p) PROVE TypeInv'
  <2>1. excuse' \in [Keys -> BOOLEAN]
    <3>1. /\ excuse' = Excused(op[p].key, op[p].val)
          /\ op[p].key \in Keys /\ op[p].val \in Nat
      BY <1>8 DEF Added, Pushed, Ops
    <3>. QED
      BY <3>1, ExcusedType
  <2>2. Entry(None)
    BY DEF Entry
  <2>3. Entered(op[p].key, op[p].val) /\ db' = db
    BY <1>8 DEF Added, Pushed
  <2>4. /\ items' = [k \in Keys |-> items'[k]] /\ \A k \in Keys : Entry(items'[k])
    BY <2>2, <2>3 DEF Entered
  <2>5. CASE Added(p)
    BY <1>1, <2>1, <2>3, <2>4, <2>5 DEF Added, Lands
  <2>6. CASE Pushed(p)
    BY <1>8, <2>1, <2>3, <2>4, <2>6 DEF Pushed, Goes, Others
  <2>. QED
    BY <1>8, <2>5, <2>6
<1>9. ASSUME NEW p \in Procs, Dropped(p) PROVE TypeInv'
  <2>1. Entry(None)
    BY DEF Entry
  <2>. QED
    BY <1>9, <2>1 DEF Dropped, Goes, Others
<1>10. ASSUME NEW p \in Procs, Reanswered(p) PROVE TypeInv'
  <2>1. ans' \in [Procs -> Nat]
    BY <1>10 DEF Reanswered
  <2>. QED
    BY <1>1, <1>10, <2>1 DEF Reanswered, Others
<1>11. CASE Evicted
  <2>1. Entry(None)
    BY DEF Entry
  <2>. QED
    BY <1>11, <2>1 DEF Evicted, Shrunk
<1>. QED
  BY <1>2, <1>3, <1>4, <1>5, <1>6, <1>7, <1>8, <1>9, <1>10, <1>11 DEF Effect

LEMMA FlyingStep ==
  ASSUME TypeInv, Flying, Effect
  PROVE  Flying'
<1>1. /\ \A p \in Procs : op[p].pc # "idle" => op[p].key \in Keys
      /\ flight \in [Keys -> Procs \cup {None}] /\ None \notin Procs
      /\ Idle.pc = "idle" /\ Idle.lead = FALSE
  BY CacheAssumption DEF TypeInv, Idle
<1>2. ASSUME NEW p \in Procs, NEW v, op[p].pc # "idle", Lands(p, v) PROVE Flying'
  <2>1. CASE op[p].lead
    <3>. DEFINE k == op[p].key
    <3>1. k \in Keys /\ flight[k] = p /\ flight' = [flight EXCEPT ![k] = None]
      BY <1>1, <1>2, <2>1 DEF Flying, Lands
    <3>2. \A q \in Procs : op'[q] = op[q] \/ (op'[q] = Idle /\ With(p, q))
      BY <1>2 DEF Lands
    <3>3. ASSUME NEW q \in Procs, op'[q].lead
          PROVE  /\ flight'[op'[q].key] = q
                 /\ op'[q].pc \in {"look2", "move", "fill", "store", "evict"}
      <4>1. op'[q] = op[q] /\ q # p
        BY <1>1, <1>2, <3>2, <3>3 DEF Lands, With
      <4>. QED
        BY <1>1, <3>1, <3>3, <4>1 DEF Flying
    <3>4. ASSUME NEW q \in Procs, op'[q].pc = "wait" PROVE flight'[op'[q].key] # None
      <4>1. op'[q] = op[q] /\ ~With(p, q)
        BY <1>1, <1>2, <3>4 DEF Lands
      <4>. QED
        BY <1>1, <2>1, <3>1, <3>4, <4>1 DEF Flying, With
    <3>5. ASSUME NEW j \in Keys, flight'[j] # None
          PROVE  op'[flight'[j]].lead /\ op'[flight'[j]].key = j
      <4>1. flight'[j] = flight[j] /\ j # k
        BY <1>1, <3>1, <3>5
      <4>2. op[flight[j]].lead /\ op[flight[j]].key = j /\ flight[j] \in Procs
        BY <1>1, <3>5, <4>1 DEF Flying
      <4>3. ~With(p, flight[j])
        BY <4>1, <4>2 DEF With, Flying
      <4>. QED
        BY <1>2, <4>1, <4>2, <4>3 DEF Lands
    <3>. QED
      BY <3>3, <3>4, <3>5 DEF Flying
  <2>2. CASE ~op[p].lead
    <3>1. flight' = flight /\ op'[p] = Idle /\ \A q \in Procs \ {p} : op'[q] = op[q]
      BY <1>2, <2>2 DEF Lands, With
    <3>. QED
      BY <1>1, <2>2, <3>1 DEF Flying
  <2>. QED
    BY <2>1, <2>2
<1>3. CASE Still \/ Evicted
  BY <1>3 DEF Still, Evicted, Flying
<1>4. ASSUME NEW k \in Keys, Elsewhere(k) PROVE Flying'
  BY <1>4 DEF Elsewhere, Flying
<1>5. ASSUME NEW k \in Keys, NEW p \in Procs, Called(p, k) \/ Wrote(p, k) PROVE Flying'
  <2>1. /\ flight' = flight /\ op[p].pc = "idle" /\ op'[p].lead = FALSE
        /\ op'[p].pc \in {"look", "drop", "set"} /\ \A q \in Procs \ {p} : op'[q] = op[q]
    BY <1>5 DEF Called, Wrote, Begins, Others
  <2>. QED
    BY <1>1, <2>1 DEF Flying
<1>6. ASSUME NEW p \in Procs, Looked(p) \/ Filled(p) \/ Pushed(p) \/ Dropped(p)
      PROVE  Flying'
  <2>1. /\ flight' = flight /\ op'[p].lead = op[p].lead /\ op'[p].key = op[p].key
        /\ \/ op[p].pc \in {"look", "drop"} /\ op'[p].pc # "wait"
           \/ op'[p].pc \in {"move", "fill", "store", "evict"}
        /\ \A q \in Procs \ {p} : op'[q] = op[q]
    BY <1>6 DEF Looked, Filled, Pushed, Dropped, Goes, Others
  <2>. QED
    BY <1>1, <2>1 DEF Flying
<1>7. ASSUME NEW p \in Procs, Hit(p) \/ Missed(p) \/ Added(p) \/ MadeRoom(p)
      PROVE  Flying'
  BY <1>2, <1>7 DEF Hit, Missed, Added, MadeRoom
<1>8. ASSUME NEW p \in Procs, Joined(p) PROVE Flying'
  <2>. DEFINE k == op[p].key
  <2>1. /\ k \in Keys /\ ~op[p].lead /\ op'[p].key = k
        /\ \A q \in Procs \ {p} : op'[q] = op[q]
    BY <1>1, <1>8 DEF Joined, Flying, Goes, Others
  <2>2. CASE flight[k] = None
    <3>1. flight' = [flight EXCEPT ![k] = p] /\ op'[p].pc = "look2" /\ op'[p].lead
      BY <1>8, <2>2 DEF Joined
    <3>. QED
      BY <1>1, <2>1, <2>2, <3>1 DEF Flying
  <2>3. CASE flight[k] # None
    <3>1. flight' = flight /\ op'[p].pc = "wait" /\ op'[p].lead = op[p].lead
      BY <1>8, <2>3 DEF Joined, Goes
    <3>. QED
      BY <1>1, <2>1, <2>3, <3>1 DEF Flying
  <2>. QED
    BY <2>2, <2>3
<1>9. ASSUME NEW p \in Procs, Reanswered(p) PROVE Flying'
  BY <1>1, <1>9 DEF Reanswered, Others, Flying
<1>. QED
  BY <1>3, <1>4, <1>5, <1>6, <1>7, <1>8, <1>9 DEF Effect

\* Rows only grow; whoever is about to store a version was before, or has just
\* read it or written it.
LEMMA VersionsStep ==
  ASSUME TypeInv, Versions, Effect
  PROVE  Versions'
<1>1. /\ db \in [Keys -> Nat] /\ Idle.pc = "idle"
      /\ \A p \in Procs : op[p].pc # "idle" => op[p].key \in Keys
  BY DEF TypeInv, Idle
<1>2. ASSUME NEW p \in Procs, NEW v, Lands(p, v), UNCHANGED <<db, items>> PROVE Versions'
  BY <1>1, <1>2 DEF Versions, Lands
<1>3. CASE Still
  BY <1>3 DEF Still, Versions
<1>4. ASSUME NEW k \in Keys, db' = [db EXCEPT ![k] = @ + 1], items' = items
      PROVE  /\ db'[k] = db[k] + 1
             /\ \A j \in Keys : \A v \in 1..db[j] : v \in 1..db'[j]
             /\ \A j \in Keys : items'[j] # None => items'[j].val \in 1..db'[j]
  <2>1. db'[k] = db[k] + 1 /\ \A j \in Keys : db'[j] \in Nat /\ db'[j] >= db[j]
    BY <1>1, <1>4
  <2>2. \A j \in Keys : \A v \in 1..db[j] : v \in 1..db'[j]
    BY <1>1, <2>1
  <2>. QED
    BY <1>4, <2>1, <2>2 DEF Versions
<1>5. ASSUME NEW k \in Keys, Elsewhere(k) PROVE Versions'
  BY <1>1, <1>4, <1>5 DEF Elsewhere, Versions
<1>6. ASSUME NEW k \in Keys, NEW p \in Procs, Wrote(p, k) PROVE Versions'
  <2>1. /\ db' = [db EXCEPT ![k] = @ + 1] /\ items' = items
        /\ \A q \in Procs \ {p} : op'[q] = op[q]
        /\ \/ op'[p].pc = "drop"
           \/ op'[p].pc = "set" /\ op'[p].val = 1 /\ op'[p].key = k
    BY <1>6 DEF Wrote, Begins, Others
  <2>2. 1 \in 1..db'[k]
    BY <1>1, <1>4, <2>1
  <2>3. ASSUME NEW q \in Procs, op'[q].pc \in {"store", "set", "evict"}
        PROVE  op'[q].val \in 1..db'[op'[q].key]
    <3>1. CASE q = p
      BY <2>1, <2>2, <2>3, <3>1
    <3>2. CASE q # p
      BY <1>1, <1>4, <2>1, <2>3, <3>2 DEF Versions
    <3>. QED
      BY <3>1, <3>2
  <2>. QED
    BY <1>4, <2>1, <2>3 DEF Versions
<1>7. ASSUME NEW k \in Keys, NEW p \in Procs, Called(p, k) PROVE Versions'
  BY <1>7 DEF Called, Begins, Others, Versions
<1>8. ASSUME NEW p \in Procs, Looked(p) \/ Joined(p) PROVE Versions'
  <2>1. /\ UNCHANGED <<db, items>> /\ op'[p].pc \notin {"store", "set", "evict"}
        /\ \A q \in Procs \ {p} : op'[q] = op[q]
    BY <1>8 DEF Looked, Joined, Goes, Others
  <2>. QED
    BY <2>1 DEF Versions
<1>9. ASSUME NEW p \in Procs, Filled(p) PROVE Versions'
  <2>1. /\ UNCHANGED <<db, items>> /\ op'[p].val = db[op[p].key] /\ op'[p].key = op[p].key
        /\ op[p].key \in Keys /\ db[op[p].key] > 0
        /\ \A q \in Procs \ {p} : op'[q] = op[q]
    BY <1>1, <1>9 DEF Filled, Goes, Others
  <2>2. op'[p].val \in 1..db[op'[p].key]
    BY <1>1, <2>1
  <2>. QED
    BY <2>1, <2>2 DEF Versions
<1>10. ASSUME NEW p \in Procs, Hit(p) \/ Missed(p) \/ MadeRoom(p) PROVE Versions'
  BY <1>2, <1>10 DEF Hit, Missed, MadeRoom
<1>11. ASSUME NEW p \in Procs, Added(p) PROVE Versions'
  <2>1. op[p].val \in 1..db[op[p].key]
    BY <1>11 DEF Added, Versions
  <2>2. \A j \in Keys : items'[j] # None => items'[j].val \in 1..db[j]
    BY <1>11, <2>1 DEF Added, Entered, Versions
  <2>3. \A q \in Procs : op'[q] \in {Idle, op[q]}
    BY <1>11 DEF Added, Lands
  <2>. QED
    BY <1>1, <1>11, <2>2, <2>3 DEF Added, Versions
<1>12. ASSUME NEW p \in Procs, Dropped(p) PROVE Versions'
  <2>1. \A j \in Keys : items'[j] \in {items[j], None}
    BY <1>12 DEF Dropped, TypeInv
  <2>. QED
    BY <1>12, <2>1 DEF Dropped, Goes, Others, Versions
<1>13. ASSUME NEW p \in Procs, Reanswered(p) PROVE Versions'
  BY <1>1, <1>13 DEF Reanswered, Others, Versions
<1>14. ASSUME NEW p \in Procs, Pushed(p) PROVE Versions'
  <2>1. op[p].val \in 1..db[op[p].key]
    BY <1>14 DEF Pushed, Versions
  <2>2. \A j \in Keys : items'[j] # None => items'[j].val \in 1..db[j]
    BY <1>14, <2>1 DEF Pushed, Entered, Versions
  <2>. QED
    BY <1>14, <2>1, <2>2 DEF Pushed, Goes, Others, Versions
<1>15. CASE Evicted
  BY <1>15 DEF Evicted, Shrunk, Versions
<1>. QED
  BY <1>3, <1>5, <1>6, <1>7, <1>8, <1>9, <1>10, <1>11, <1>12, <1>13, <1>14, <1>15
     DEF Effect

\* The map changes only while nobody reads.
LEMMA HeldStep ==
  ASSUME TypeInv, Held, Effect
  PROVE  Held'
<1>1. Idle.pc = "idle"
  BY DEF Idle
<1>2. CASE Readers # {}
  <2>1. Evictors = {}
    BY <1>2 DEF Held
  <2>2. items' = items /\ \A q \in Procs : op'[q].pc = "evict" => op[q].pc = "evict"
    <3>. DEFINE Goal == /\ items' = items
                        /\ \A q \in Procs : op'[q].pc = "evict" => op[q].pc = "evict"
    <3>1. ASSUME Still \/ Evicted \/ \E k \in Keys : Elsewhere(k) PROVE Goal
      BY <1>2, <2>1, <3>1 DEF Still, Evicted, Elsewhere, Evictors
    <3>2. ASSUME NEW p \in Procs, NEW k \in Keys, Called(p, k) \/ Wrote(p, k) PROVE Goal
      BY <1>2, <2>1, <3>2 DEF Called, Wrote, Begins, Others
    <3>3. ASSUME NEW p \in Procs,
                 Looked(p) \/ Joined(p) \/ Filled(p) \/ Dropped(p) \/ Pushed(p)
          PROVE  Goal
      BY <1>2, <2>1, <3>3 DEF Looked, Joined, Filled, Dropped, Pushed, Goes, Others, Evictors
    <3>4. ASSUME NEW p \in Procs,
                 Hit(p) \/ Missed(p) \/ Added(p) \/ MadeRoom(p) \/ Reanswered(p)
          PROVE  Goal
      BY <1>1, <1>2, <2>1, <3>4
         DEF Hit, Missed, Added, MadeRoom, Reanswered, Lands, Others, Evictors
    <3>. QED
      BY <3>1, <3>2, <3>3, <3>4 DEF Effect
  <2>3. Evictors' = {}
    BY <2>1, <2>2 DEF Evictors
  <2>4. SUFFICES ASSUME NEW q \in Procs, op'[q].pc = "move" PROVE items[op'[q].key] # None
    BY <2>2, <2>3 DEF Held, Readers
  <2>5. CASE op'[q] = op[q]
    BY <2>4, <2>5 DEF Held, Readers
  <2>6. CASE op'[q] # op[q]
    <3>1. Looked(q) \/ Joined(q) \/ Filled(q) \/ Dropped(q) \/ Pushed(q)
           \/ op'[q] = Idle \/ \E k \in Keys : Called(q, k) \/ Wrote(q, k)
      <4>1. ASSUME Still \/ Evicted \/ \E k \in Keys : Elsewhere(k) PROVE FALSE
        BY <2>6, <4>1 DEF Still, Evicted, Elsewhere
      <4>2. ASSUME NEW p \in Procs, NEW k \in Keys, Called(p, k) \/ Wrote(p, k)
            PROVE  Called(q, k) \/ Wrote(q, k)
        BY <2>6, <4>2 DEF Called, Wrote, Begins, Others
      <4>3. ASSUME NEW p \in Procs,
                   Looked(p) \/ Joined(p) \/ Filled(p) \/ Dropped(p) \/ Pushed(p)
            PROVE  Looked(q) \/ Joined(q) \/ Filled(q) \/ Dropped(q) \/ Pushed(q)
        BY <2>6, <4>3 DEF Looked, Joined, Filled, Dropped, Pushed, Goes, Others
      <4>4. ASSUME NEW p \in Procs,
                   Hit(p) \/ Missed(p) \/ Added(p) \/ MadeRoom(p) \/ Reanswered(p)
            PROVE  op'[q] = Idle
        BY <2>6, <4>4 DEF Hit, Missed, Added, MadeRoom, Reanswered, Lands, Others
      <4>. QED
        BY <4>1, <4>2, <4>3, <4>4 DEF Effect
    <3>. QED
      BY <1>1, <2>4, <3>1 DEF Called, Wrote, Begins, Looked, Joined, Filled, Dropped, Pushed,
            Goes
  <2>. QED
    BY <2>5, <2>6
<1>3. CASE Readers = {}
  <2>1. ASSUME NEW q \in Procs, op'[q].pc = "move"
        PROVE  /\ items'[op'[q].key] # None /\ Evictors = {}
               /\ \A r \in Procs \ {q} : op'[r] = op[r]
    <3>1. op[q].pc # "move"
      BY <1>3 DEF Readers
    <3>2. Looked(q)
      <4>1. ASSUME Still \/ Evicted \/ \E k \in Keys : Elsewhere(k) PROVE FALSE
        BY <2>1, <3>1, <4>1 DEF Still, Evicted, Elsewhere
      <4>2. ASSUME NEW p \in Procs, NEW k \in Keys, Called(p, k) \/ Wrote(p, k) PROVE FALSE
        BY <2>1, <3>1, <4>2 DEF Called, Wrote, Begins, Others
      <4>3. ASSUME NEW p \in Procs, Looked(p) PROVE Looked(q)
        BY <2>1, <3>1, <4>3 DEF Looked, Goes, Others
      <4>4. ASSUME NEW p \in Procs, Joined(p) \/ Filled(p) \/ Dropped(p) \/ Pushed(p)
            PROVE  FALSE
        BY <2>1, <3>1, <4>4 DEF Joined, Filled, Dropped, Pushed, Goes, Others
      <4>5. ASSUME NEW p \in Procs,
                   Hit(p) \/ Missed(p) \/ Added(p) \/ MadeRoom(p) \/ Reanswered(p)
            PROVE  FALSE
        BY <1>1, <2>1, <3>1, <4>5 DEF Hit, Missed, Added, MadeRoom, Reanswered, Lands, Others
      <4>. QED
        BY <4>1, <4>2, <4>3, <4>4, <4>5 DEF Effect
    <3>. QED
      BY <2>1, <3>1, <3>2 DEF Looked, Goes, Others
  <2>2. ASSUME NEW q \in Procs, op'[q].pc = "move" PROVE Evictors' = {}
    BY <2>1, <2>2 DEF Evictors
  <2>. QED
    BY <2>1, <2>2 DEF Held, Readers
<1>. QED
  BY <1>2, <1>3

\* k is to be dropped.
Doomed(k) == \E p \in Procs : op[p].pc = "drop" /\ op[p].key = k

LEMMA StaleStep ==
  ASSUME TypeInv, Versions, StaleIsExplained, Effect
  PROVE  StaleIsExplained'
<1>. USE DEF Doomed
<1>1. /\ db \in [Keys -> Nat] /\ Idle.pc = "idle" /\ excuse \in [Keys -> BOOLEAN]
      /\ \A p \in Procs : op[p].pc # "idle" => op[p].key \in Keys
  BY DEF TypeInv, Idle
<1>2. SUFFICES ASSUME NEW k \in Keys, items'[k] # None, items'[k].val < db'[k]
               PROVE  excuse'[k] \/ Doomed(k)'
  BY DEF StaleIsExplained
<1>3. items[k] # None /\ items[k].val < db[k] => excuse[k] \/ Doomed(k)
  BY DEF StaleIsExplained
<1>4. ASSUME UNCHANGED <<db, items, excuse>>,
             \A q \in Procs : op'[q] = op[q] \/ op[q].pc # "drop"
      PROVE  excuse'[k] \/ Doomed(k)'
  BY <1>2, <1>3, <1>4
<1>5. CASE Still
  BY <1>4, <1>5 DEF Still
<1>6. ASSUME NEW p \in Procs, NEW v, op[p].pc # "drop", Lands(p, v)
      PROVE  \A q \in Procs : op'[q] = op[q] \/ op[q].pc # "drop"
  BY <1>6 DEF Lands, With
<1>7. ASSUME NEW p \in Procs, Hit(p) \/ Missed(p) \/ MadeRoom(p)
      PROVE  excuse'[k] \/ Doomed(k)'
  BY <1>4, <1>6, <1>7 DEF Hit, Missed, MadeRoom
<1>8. ASSUME NEW p \in Procs, Looked(p) \/ Joined(p) \/ Filled(p) \/ Reanswered(p)
      PROVE  excuse'[k] \/ Doomed(k)'
  <2>1. \A q \in Procs : op'[q] = op[q] \/ op[q].pc # "drop"
    BY <1>8 DEF Looked, Joined, Filled, Reanswered, Goes, Others
  <2>. QED
    BY <1>4, <1>8, <2>1 DEF Looked, Joined, Filled, Reanswered
<1>9. ASSUME NEW p \in Procs, Added(p) \/ Pushed(p) PROVE excuse'[k] \/ Doomed(k)'
  <2>. DEFINE j == op[p].key
  <2>1. /\ Entered(j, op[p].val) /\ excuse' = Excused(j, op[p].val) /\ db' = db
        /\ \A q \in Procs : op'[q] = op[q] \/ op[q].pc # "drop"
    BY <1>6, <1>9 DEF Added, Pushed, Goes, Others
  <2>2. CASE k = j
    BY <1>1, <1>2, <2>1, <2>2 DEF Entered, Excused
  <2>3. CASE k # j
    <3>1. items[k] # None /\ items[k].val < db[k] /\ excuse'[k] = excuse[k]
      BY <1>1, <1>2, <2>1, <2>3 DEF Entered, Excused
    <3>. QED
      BY <1>3, <2>1, <3>1
  <2>. QED
    BY <2>2, <2>3
<1>10. ASSUME NEW p \in Procs, Dropped(p) PROVE excuse'[k] \/ Doomed(k)'
  <2>1. k # op[p].key /\ items'[k] = items[k] /\ excuse'[k] = excuse[k] /\ db' = db
    BY <1>1, <1>2, <1>10 DEF Dropped, TypeInv
  <2>2. \A q \in Procs \ {p} : op'[q] = op[q]
    BY <1>10 DEF Dropped, Goes, Others
  <2>. QED
    BY <1>2, <1>3, <2>1, <2>2
<1>11. ASSUME NEW j \in Keys, Elsewhere(j) PROVE excuse'[k] \/ Doomed(k)'
  <2>1. CASE j = k
    BY <1>1, <1>11, <2>1 DEF Elsewhere
  <2>2. CASE j # k
    <3>1. UNCHANGED <<items, op>> /\ db'[k] = db[k] /\ excuse'[k] = excuse[k]
      BY <1>1, <1>11, <2>2 DEF Elsewhere
    <3>. QED
      BY <1>2, <1>3, <3>1
  <2>. QED
    BY <2>1, <2>2
<1>12. ASSUME NEW j \in Keys, NEW p \in Procs, Called(p, j) PROVE excuse'[k] \/ Doomed(k)'
  <2>1. \A q \in Procs : op'[q] = op[q] \/ op[q].pc # "drop"
    BY <1>12 DEF Called, Begins, Others
  <2>. QED
    BY <1>4, <1>12, <2>1 DEF Called
<1>13. ASSUME NEW j \in Keys, NEW p \in Procs, Wrote(p, j) PROVE excuse'[k] \/ Doomed(k)'
  <2>1. CASE db[j] > 0 /\ j = k
    <3>1. op'[p].pc = "drop" /\ op'[p].key = k
      BY <1>1, <1>13, <2>1 DEF Wrote, Begins
    <3>. QED
      BY <3>1
  <2>2. CASE db[j] = 0 /\ j = k
    <3>1. items[k] # None
      BY <1>2, <1>13 DEF Wrote
    <3>2. items[k].val \in 1..0
      BY <2>2, <3>1 DEF Versions
    <3>. QED
      BY <3>2
  <2>3. CASE j # k
    <3>1. UNCHANGED <<items, excuse>> /\ db'[k] = db[k]
      BY <1>1, <1>13, <2>3 DEF Wrote
    <3>2. \A q \in Procs : op'[q] = op[q] \/ op[q].pc # "drop"
      BY <1>13 DEF Wrote, Begins, Others
    <3>. QED
      BY <1>2, <1>3, <3>1, <3>2
  <2>. QED
    BY <1>1, <2>1, <2>2, <2>3
<1>14. CASE Evicted
  BY <1>2, <1>3, <1>14 DEF Evicted, Shrunk
<1>. QED
  BY <1>5, <1>7, <1>8, <1>9, <1>10, <1>11, <1>12, <1>13, <1>14 DEF Effect

LEMMA NextIInv == IInv /\ [Next]_vars => IInv'
BY NextEffect, TypeStep, FlyingStep, VersionsStep, HeldStep, StaleStep DEF IInv

LEMMA Invariant == Spec => []IInv
BY InitIInv, NextIInv, PTL DEF Spec

\* Do of singleflight for every number of callers: who waits has a leader that is
\* still on its way.
THEOREM NobodyIsLeftBehind == Spec => []WaitersHaveLeader
<1>1. IInv => WaitersHaveLeader
  BY DEF IInv, Flying, WaitersHaveLeader
<1>. QED
  BY <1>1, Invariant, PTL

\* An entry older than its row is to be dropped, overlapped an update, or was
\* updated through another node: Update and Create leave no other.
THEOREM StaleIsAlwaysExplained == Spec => []StaleIsExplained
<1>1. IInv => StaleIsExplained
  BY DEF IInv
<1>. QED
  BY <1>1, Invariant, PTL

-----------------------------------------------------------------------------
(* The read-through cache. *)

InHand(q, k, v) == op[q].pc \in {"store", "set", "evict"} /\ op[q].key = k /\ op[q].val = v
Served(k, v) == \/ items[k] # None /\ v = items[k].val
                \/ \E q \in Procs : InHand(q, k, v)

LEMMA ServableIs ==
  /\ Servable = [k \in Keys |-> Servable[k]] /\ DOMAIN Servable = Keys
  /\ \A k \in Keys : \A v : v \in Servable[k] <=> Served(k, v)
BY DEF Servable, Served, InHand

\* The same, of the next state.
LEMMA ServableWillBe ==
  /\ Servable' = [k \in Keys |-> Servable'[k]] /\ DOMAIN Servable' = Keys
  /\ \A k \in Keys : \A v : v \in Servable'[k] <=> Served(k, v)'
BY DEF Servable, Served, InHand

\* Nothing new to serve, and one answer given to some.
LEMMA TellStep ==
  ASSUME \A j \in Keys : \A w : Served(j, w)' => Served(j, w),
         NEW k \in Keys, NEW v, v = 0 \/ Served(k, v),
         ans' \in [Procs -> Nat], \A q \in Procs : ans'[q] \in {ans[q], v}, db' = db
  PROVE  RT!Next
<1>1. \A j \in Keys : Servable'[j] \subseteq Servable[j]
  BY ServableIs, ServableWillBe
<1>2. v \in Servable[k] \cup {0}
  BY ServableIs
<1>. QED
  BY <1>1, <1>2, ServableWillBe DEF RT!Next, RT!Tell

\* What is servable is kept: the same entries, the same versions in hand.
LEMMA ServableStays ==
  ASSUME \A j \in Keys : \A w : Served(j, w)' <=> Served(j, w)
  PROVE  Servable' = Servable
BY ServableIs, ServableWillBe

LEMMA ServableGrows ==
  ASSUME NEW k \in Keys, NEW v,
         \A j \in Keys : \A w : Served(j, w)' <=> (Served(j, w) \/ (j = k /\ w = v))
  PROVE  Servable' = [Servable EXCEPT ![k] = @ \cup {v}]
<1>1. \A j \in Keys \ {k} : Servable'[j] = Servable[j]
  BY ServableIs, ServableWillBe
<1>2. Servable'[k] = Servable[k] \cup {v}
  BY ServableIs, ServableWillBe
<1>. QED
  BY <1>1, <1>2, ServableIs, ServableWillBe

LEMMA RefinesStep ==
  ASSUME IInv, [Next]_vars
  PROVE  [RT!Next]_<<db, Servable, ans>>
<1>. DEFINE Goal == [RT!Next]_<<db, Servable, ans>>
<1>1. /\ Effect /\ TypeInv /\ TypeInv' /\ Idle.pc = "idle"
  BY NextEffect, TypeStep DEF IInv, Idle
<1>2. /\ \A p \in Procs : op[p].pc # "idle" => op[p].key \in Keys
      /\ db \in [Keys -> Nat] /\ ans \in [Procs -> Nat] /\ ans' \in [Procs -> Nat]
      /\ DOMAIN items = Keys
  BY <1>1 DEF TypeInv
<1>3. ASSUME NEW p \in Procs, NEW v, Lands(p, v), items' = items
      PROVE  \A j \in Keys : \A w : Served(j, w)' => Served(j, w)
  BY <1>1, <1>3 DEF Lands, Served, InHand
<1>4. ASSUME items' = items, \A q \in Procs : \A j, w : InHand(q, j, w)' <=> InHand(q, j, w)
      PROVE  \A j \in Keys : \A w : Served(j, w)' <=> Served(j, w)
  BY <1>4 DEF Served
<1>5. CASE Still
  <2>1. Servable' = Servable
    BY <1>4, <1>5, ServableStays DEF Still, InHand
  <2>. QED
    BY <1>5, <2>1 DEF Still
<1>6. ASSUME NEW p \in Procs, Looked(p) \/ Joined(p) PROVE Goal
  <2>1. UNCHANGED <<db, items, ans>>
    BY <1>6 DEF Looked, Joined
  <2>2. \A q \in Procs : \A j, w : InHand(q, j, w)' <=> InHand(q, j, w)
    BY <1>6 DEF Looked, Joined, Goes, Others, InHand
  <2>. QED
    BY <1>4, <2>1, <2>2, ServableStays
<1>7. ASSUME NEW p \in Procs, Hit(p) \/ Missed(p) \/ MadeRoom(p) PROVE Goal
  <2>. DEFINE k == op[p].key
  <2>1. PICK v : /\ Lands(p, v) /\ k \in Keys
                 /\ v = 0 \/ (items[k] # None /\ v = items[k].val) \/ InHand(p, k, v)
    BY <1>2, <1>7 DEF Hit, Missed, MadeRoom, InHand
  <2>2. UNCHANGED <<db, items>>
    BY <1>7 DEF Hit, Missed, MadeRoom
  <2>3. v = 0 \/ Served(k, v)
    BY <2>1 DEF Served
  <2>4. \A q \in Procs : ans'[q] \in {ans[q], v}
    BY <2>1 DEF Lands
  <2>. QED
    BY <1>2, <1>3, <2>1, <2>2, <2>3, <2>4, TellStep
<1>8. ASSUME NEW p \in Procs, Filled(p) PROVE Goal
  <2>. DEFINE k == op[p].key
  <2>1. /\ k \in Keys /\ db[k] > 0 /\ UNCHANGED <<db, ans, items>>
    BY <1>2, <1>8 DEF Filled
  <2>2. /\ \A q \in Procs \ {p} : op'[q] = op[q]
        /\ \A j, w : InHand(p, j, w)' <=> j = k /\ w = db[k]
        /\ \A j, w : ~InHand(p, j, w)
    BY <1>8 DEF Filled, Goes, Others, InHand
  <2>3. \A j \in Keys : \A w : Served(j, w)' <=> (Served(j, w) \/ (j = k /\ w = db[k]))
    <3> SUFFICES ASSUME NEW j \in Keys, NEW w
                 PROVE  Served(j, w)' <=> (Served(j, w) \/ (j = k /\ w = db[k]))
      OBVIOUS
    <3>1. \A q \in Procs \ {p} : InHand(q, j, w)' <=> InHand(q, j, w)
      BY <2>2 DEF InHand
    <3>. QED
      BY <2>1, <2>2, <3>1 DEF Served
  <2>4. Servable' = [Servable EXCEPT ![k] = @ \cup {db[k]}]
    BY <2>1, <2>3, ServableGrows
  <2>. QED
    BY <2>1, <2>4 DEF RT!Next, RT!Load
<1>9. ASSUME NEW p \in Procs, Added(p) \/ Pushed(p) PROVE Goal
  <2>. DEFINE k == op[p].key
              v == op[p].val
  <2>1. /\ k \in Keys /\ InHand(p, k, v) /\ db' = db /\ Entered(k, v)
    BY <1>2, <1>9 DEF Added, Pushed, InHand
  <2>2. ASSUME NEW j \in Keys, NEW w, Served(j, w)' PROVE Served(j, w)
    <3>1. CASE items'[j] # None /\ w = items'[j].val
      BY <2>1, <3>1 DEF Entered, Served
    <3>2. CASE \E q \in Procs : InHand(q, j, w)'
      <4>1. PICK q \in Procs : InHand(q, j, w)'
        BY <3>2
      <4>2. InHand(q, j, w)
        BY <1>1, <1>9, <2>1, <4>1 DEF Added, Pushed, Lands, Goes, Others, InHand
      <4>. QED
        BY <4>2 DEF Served
    <3>. QED
      BY <2>2, <3>1, <3>2 DEF Served
  <2>3. Served(k, v) /\ \A q \in Procs : ans'[q] \in {ans[q], v}
    BY <1>9, <2>1 DEF Served, Added, Pushed, Lands
  <2>. QED
    BY <1>2, <2>1, <2>2, <2>3, TellStep
<1>10. ASSUME NEW p \in Procs, Dropped(p) PROVE Goal
  <2>. DEFINE k == op[p].key
  <2>1. /\ k \in Keys /\ UNCHANGED <<db, ans>> /\ items' = [items EXCEPT ![k] = None]
    BY <1>2, <1>10 DEF Dropped
  <2>2. \A q \in Procs : \A j, w : InHand(q, j, w)' <=> InHand(q, j, w)
    BY <1>10 DEF Dropped, Goes, Others, InHand
  <2>3. \A j \in Keys : items'[j] # None => items'[j] = items[j]
    BY <1>2, <2>1
  <2>4. \A j \in Keys : \A w : Served(j, w)' => Served(j, w)
    BY <2>2, <2>3 DEF Served
  <2>. QED
    BY <1>2, <2>1, <2>4, TellStep
<1>11. ASSUME NEW p \in Procs, Reanswered(p) PROVE Goal
  <2>. DEFINE k == op[p].key
  <2>1. k \in Keys /\ UNCHANGED <<db, items>> /\ db[k] \in Nat
    BY <1>2, <1>11 DEF Reanswered
  <2>2. PICK v \in {0, db[k]} : ans' = [ans EXCEPT ![p] = v]
    BY <1>11 DEF Reanswered
  <2>3. \A q \in Procs : \A j, w : InHand(q, j, w)' <=> InHand(q, j, w)
    BY <1>1, <1>11 DEF Reanswered, Others, InHand
  <2>4. Servable' = Servable /\ \A j \in Keys : \A w : Served(j, w)' => Served(j, w)
    BY <1>4, <2>1, <2>3, ServableStays
  <2>5. CASE v = 0
    BY <1>2, <2>1, <2>2, <2>4, <2>5, TellStep
  <2>6. CASE v > 0
    <3>1. v = db[k]
      BY <2>1, <2>2, <2>6
    <3>2. ans' = [ans EXCEPT ![p] = db[k]] /\ db[k] > 0
      BY <2>2, <2>6, <3>1
    <3>3. RT!Load(k)
      BY <2>1, <2>4, <3>2 DEF RT!Load
    <3>. QED
      BY <2>1, <3>3 DEF RT!Next
  <2>7. v = 0 \/ v > 0
    BY <2>1
  <2>. QED
    BY <2>5, <2>6, <2>7
<1>12. ASSUME NEW k \in Keys, NEW p \in Procs, Called(p, k) PROVE Goal
  <2>1. UNCHANGED <<db, items>> /\ ans' = [ans EXCEPT ![p] = 0]
    BY <1>12 DEF Called
  <2>2. \A q \in Procs : \A j, w : InHand(q, j, w)' <=> InHand(q, j, w)
    BY <1>12 DEF Called, Begins, Others, InHand
  <2>3. \A q \in Procs : ans'[q] \in {ans[q], 0}
    BY <1>2, <2>1
  <2>. QED
    BY <1>2, <1>4, <2>1, <2>2, <2>3, TellStep
<1>13. ASSUME NEW k \in Keys, Elsewhere(k) PROVE Goal
  <2>1. Servable' = Servable
    BY <1>4, <1>13, ServableStays DEF Elsewhere, InHand
  <2>. QED
    BY <1>13, <2>1 DEF Elsewhere, RT!Next, RT!Commit
<1>14. ASSUME NEW k \in Keys, NEW p \in Procs, Wrote(p, k) PROVE Goal
  <2>1. UNCHANGED <<items, ans>> /\ db' = [db EXCEPT ![k] = @ + 1]
    BY <1>14 DEF Wrote
  <2>2. CASE Begins(p, k, "drop", 0)
    <3>1. \A q \in Procs : \A j, w : InHand(q, j, w)' <=> InHand(q, j, w)
      BY <2>2 DEF Begins, Others, InHand
    <3>. QED
      BY <1>4, <2>1, <3>1, ServableStays DEF RT!Next, RT!Commit
  <2>3. CASE db[k] = 0 /\ Begins(p, k, "set", 1)
    <3>1. /\ \A q \in Procs \ {p} : op'[q] = op[q]
          /\ \A j, w : InHand(p, j, w)' <=> j = k /\ w = 1
          /\ \A j, w : ~InHand(p, j, w)
      BY <2>3 DEF Begins, Others, InHand
    <3>2. ASSUME NEW j \in Keys, NEW w
          PROVE  Served(j, w)' <=> (Served(j, w) \/ (j = k /\ w = 1))
      <4>1. \A q \in Procs \ {p} : InHand(q, j, w)' <=> InHand(q, j, w)
        BY <3>1 DEF InHand
      <4>. QED
        BY <2>1, <3>1, <4>1 DEF Served
    <3>3. Servable' = [Servable EXCEPT ![k] = @ \cup {db[k] + 1}]
      BY <2>3, <3>2, ServableGrows
    <3>. QED
      BY <2>1, <3>3 DEF RT!Next, RT!Commit
  <2>. QED
    BY <1>14, <2>2, <2>3 DEF Wrote
<1>15. CASE Evicted
  <2>1. \A j \in Keys : \A w : Served(j, w)' => Served(j, w)
    BY <1>15 DEF Evicted, Shrunk, Served, InHand
  <2>2. \E k \in Keys : TRUE
    BY <1>2, <1>15 DEF Evicted, Evictors
  <2>. QED
    BY <1>2, <1>15, <2>1, <2>2, TellStep DEF Evicted
<1>. QED
  BY <1>1, <1>5, <1>6, <1>7, <1>8, <1>9, <1>10, <1>11, <1>12, <1>13, <1>14, <1>15 DEF Effect

\* Cache, list, locks and flights together keep the promise of ReadThrough: no
\* caller is told a version that was not committed when it was loaded, and none
\* is told a version again after it has been dropped.
THEOREM CacheIsReadThrough == Spec => ImplementsReadThrough
<1>1. Init => RT!Init
  <2> SUFFICES ASSUME Init PROVE RT!Init
    OBVIOUS
  <2>1. \A k \in Keys : \A v : ~Served(k, v)
    BY DEF Init, Idle, Served, InHand
  <2>2. \A k \in Keys : Servable[k] = {}
    BY <2>1, ServableIs
  <2>3. Servable = [k \in Keys |-> {}]
    BY <2>2, ServableIs
  <2>. QED
    BY <2>3 DEF Init, RT!Init
<1>2. IInv /\ [Next]_vars => [RT!Next]_<<db, Servable, ans>>
  BY RefinesStep
<1>. QED
  BY <1>1, <1>2, Invariant, PTL DEF Spec, ImplementsReadThrough, RT!Spec

-----------------------------------------------------------------------------
(***************************************************************************)
(* Part 2.  Keys, and pages of them.                                       *)
(***************************************************************************)

\* A set of numbers has a least one.
LEMMA LeastKey ==
  ASSUME NEW T, T \subseteq Nat, T # {}
  PROVE  \E x \in T : \A y \in T : x <= y
<1>. DEFINE R == OpToRel(<, Nat)
<1>1. IsWellFoundedOn(R, Nat)
  BY NatLessThanWellFounded
<1>2. \A x, y \in Nat : x < y => <<x, y>> \in R
  BY DEF OpToRel
<1> HIDE DEF R
<1>3. PICK x \in T : \A y \in T : ~(<<y, x>> \in R)
  BY <1>1, WFMin
<1>4. ASSUME NEW y \in T
      PROVE  x <= y
  <2>1. ~(y < x)
    BY <1>2, <1>3
  <2> QED
    BY <2>1
<1> QED
  BY <1>4

\* A bounded one has a greatest.
LEMMA GreatestKey ==
  ASSUME NEW m \in Nat, NEW T, T \subseteq 0..m, T # {}
  PROVE  \E x \in T : \A y \in T : y <= x
<1>. DEFINE U == {m - k : k \in T}
<1>1. U \subseteq Nat /\ U # {}
  <2>1. \A k \in 0..m : m - k \in Nat
    OBVIOUS
  <2> QED
    BY <2>1
<1>2. PICK u \in U : \A v \in U : u <= v
  <2> HIDE DEF U
  <2> QED
    BY <1>1, LeastKey
<1>3. PICK x \in T : u = m - x
  BY <1>2
<1>4. ASSUME NEW y \in T
      PROVE  y <= x
  <2>1. m - x <= m - y
    BY <1>2, <1>3
  <2>2. x \in 0..m /\ y \in 0..m
    OBVIOUS
  <2> QED
    BY <2>1, <2>2
<1> QED
  BY <1>4

\* Rows have a first one, in either order.
LEMMA FirstKey ==
  ASSUME NEW b \in Nat, NEW dir, NEW T, T \subseteq 1..b, T # {}
  PROVE  \E x \in T : \A y \in T : ~Before(dir, y, x)
<1>1. T \subseteq Nat /\ T \subseteq 0..b
  OBVIOUS
<1>2. PICK x \in T : \A y \in T : x <= y
  BY <1>1, LeastKey
<1>3. PICK z \in T : \A y \in T : y <= z
  BY <1>1, GreatestKey
<1>4. CASE dir = "asc"
  BY <1>1, <1>2, <1>4 DEF Before
<1>5. CASE dir # "asc"
  BY <1>1, <1>3, <1>5 DEF Before
<1> QED
  BY <1>4, <1>5

\* Max and Min, which choose, choose the greatest and the least.
LEMMA MaxIsLast ==
  ASSUME NEW m \in Nat, NEW T, T \subseteq 0..m, T # {}
  PROVE  Max(T) \in T /\ \A y \in T : y <= Max(T)
<1>1. PICK x \in T : \A y \in T : y <= x
  BY GreatestKey
<1>2. \E z \in T : \A y \in T : z >= y
  <2>1. \A y \in T : x >= y
    BY <1>1
  <2> QED
    BY <2>1
<1>3. Max(T) \in T /\ \A y \in T : Max(T) >= y
  BY <1>2, Zenon DEF Max
<1> QED
  BY <1>3

\* As above.
LEMMA MinIsFirst ==
  ASSUME NEW T, T \subseteq Nat, T # {}
  PROVE  Min(T) \in T /\ \A y \in T : Min(T) <= y
<1>1. \E x \in T : \A y \in T : x =< y
  BY LeastKey
<1> QED
  BY <1>1, Zenon DEF Min

\* No row of a page comes after its last one.
LEMMA LastKey ==
  ASSUME NEW b \in Nat, NEW dir, NEW T, T \subseteq 1..b, T # {}
  PROVE  /\ LastRow(dir, T) \in T
         /\ \A y \in T : ~Before(dir, LastRow(dir, T), y)
<1>1. T \subseteq Nat /\ T \subseteq 0..b
  OBVIOUS
<1>2. CASE dir = "asc"
  <2>1. Max(T) \in T /\ \A y \in T : y <= Max(T)
    BY <1>1, MaxIsLast
  <2>2. LastRow(dir, T) = Max(T)
    BY <1>2 DEF LastRow
  <2>3. ASSUME NEW x \in Nat, NEW y \in Nat, y <= x
        PROVE  ~Before(dir, x, y)
    BY <1>2, <2>3 DEF Before
  <2> QED
    BY <1>1, <2>1, <2>2, <2>3
<1>3. CASE dir # "asc"
  <2>1. Min(T) \in T /\ \A y \in T : Min(T) <= y
    BY <1>1, MinIsFirst
  <2>2. LastRow(dir, T) = Min(T)
    BY <1>3 DEF LastRow
  <2>3. ASSUME NEW x \in Nat, NEW y \in Nat, x <= y
        PROVE  ~Before(dir, x, y)
    BY <1>3, <2>3 DEF Before
  <2> QED
    BY <1>1, <2>1, <2>2, <2>3
<1> QED
  BY <1>2, <1>3

\* Rows can be counted.
LEMMA KeysFinite ==
  ASSUME NEW b \in Nat, NEW T, T \subseteq 1..b
  PROVE  IsFiniteSet(T) /\ Cardinality(T) \in Nat
<1>1. IsFiniteSet(1..b)
  BY FS_Interval
<1> QED
  BY <1>1, FS_Subset, FS_CardinalityType

\* Either order is total.
LEMMA Total ==
  ASSUME NEW b \in Nat, NEW dir, NEW i \in 1..b, NEW j \in 1..b, NEW k \in 1..b
  PROVE  /\ i # j => Before(dir, i, j) \/ Before(dir, j, i)
         /\ Before(dir, i, j) /\ Before(dir, j, k) => Before(dir, i, k)
         /\ ~Before(dir, i, i)
         /\ ~(Before(dir, i, j) /\ Before(dir, j, i))
BY DEF Before

\* LIMIT keeps the front of the rows: with a row, every row before it.
LEMMA FrontKept ==
  ASSUME NEW b \in Nat, NEW dir, NEW T, T \subseteq 1..b, NEW n \in Nat,
         NEW l \in FirstRows(dir, T, n), NEW k \in T, ~Before(dir, l, k)
  PROVE  k \in FirstRows(dir, T, n)
<1>. DEFINE Bl == {j \in T : Before(dir, j, l)}
            Bk == {j \in T : Before(dir, j, k)}
<1>1. l \in T /\ Cardinality(Bl) < n
  BY DEF FirstRows
<1>2. l = k \/ Before(dir, k, l)
  BY <1>1, Total
<1>3. Bk \subseteq Bl
  BY <1>1, <1>2, Total
<1>4. IsFiniteSet(Bl) /\ Cardinality(Bl) \in Nat /\ Cardinality(Bk) \in Nat
  BY KeysFinite
<1>5. Cardinality(Bk) <= Cardinality(Bl)
  <2> HIDE DEF Bl, Bk
  <2> QED
    BY <1>3, <1>4, FS_Subset
<1>6. Cardinality(Bk) < n
  <2> HIDE DEF Bl, Bk
  <2> QED
    BY <1>1, <1>4, <1>5
<1> QED
  BY <1>6 DEF FirstRows

\* A limit that is not zero keeps something.
LEMMA FrontThere ==
  ASSUME NEW b \in Nat, NEW dir, NEW T, T \subseteq 1..b, T # {},
         NEW n \in Nat \ {0}
  PROVE  FirstRows(dir, T, n) # {}
<1>1. PICK x \in T : \A y \in T : ~Before(dir, y, x)
  BY FirstKey
<1>2. {j \in T : Before(dir, j, x)} = {}
  BY <1>1
<1>3. Cardinality({j \in T : Before(dir, j, x)}) < n
  BY <1>2, FS_EmptySet
<1> QED
  BY <1>3 DEF FirstRows

\* A query that finds fewer rows than its limit has found them all: what the
\* peek row of a page is for.
LEMMA FrontWhole ==
  ASSUME NEW b \in Nat, NEW dir, NEW T, T \subseteq 1..b, NEW n \in Nat,
         Cardinality(FirstRows(dir, T, n)) < n
  PROVE  FirstRows(dir, T, n) = T
<1>. DEFINE F == FirstRows(dir, T, n)
<1>1. F \subseteq T
  BY DEF FirstRows
<1>2. SUFFICES ASSUME T \ F # {}
               PROVE  FALSE
  BY <1>1
<1>3. PICK k \in T \ F : \A y \in T \ F : ~Before(dir, y, k)
  <2> HIDE DEF F
  <2> QED
    BY <1>2, FirstKey
<1>. DEFINE B == {j \in T : Before(dir, j, k)}
<1>4. B \subseteq F
  BY <1>3
<1>5. ~(Cardinality(B) < n)
  BY <1>3 DEF FirstRows
<1>6. IsFiniteSet(F) /\ Cardinality(F) \in Nat /\ Cardinality(B) \in Nat
  BY <1>1, KeysFinite
<1> HIDE DEF B, F
<1>7. Cardinality(B) <= Cardinality(F)
  BY <1>4, <1>6, FS_Subset
<1>8. Cardinality(F) < n
  BY DEF F
<1> QED
  BY <1>5, <1>6, <1>7, <1>8

-----------------------------------------------------------------------------
(* Pages. *)

\* What a page is: the rows behind the cursor up to the next cursor, or all of
\* them when there is none.
IsPage(dir, T, c, p) ==
  /\ p.items \subseteq Behind(dir, T, c)
  /\ p.next = 0 => p.items = Behind(dir, T, c)
  /\ p.next # 0 =>
       /\ p.next \in p.items
       /\ \A k \in p.items : ~Before(dir, p.next, k)
       /\ \A k \in Behind(dir, T, c) : k \in p.items \/ Before(dir, p.next, k)

\* One row more than the limit, and the last row of the page as the cursor, give
\* such a page.
LEMMA PageIsPage ==
  ASSUME NEW b \in Nat, NEW dir, NEW T, T \subseteq 1..b, NEW c, NEW n \in Nat \ {0}
  PROVE  IsPage(dir, T, c, Page(dir, Query(dir, T, c, n + 1), n))
<1>. DEFINE B == Behind(dir, T, c)
            o == n + 1
            s == FirstRows(dir, B, o)
            f == FirstRows(dir, s, n)
            p == Page(dir, s, n)
<1>0. o \in Nat
  OBVIOUS
<1>1. B \subseteq 1..b
  BY DEF Behind
<1>2. s \subseteq B /\ f \subseteq s
  BY DEF FirstRows
<1>3. Query(dir, T, c, n + 1) = s
  BY DEF Query
<1>4. Cardinality(s) \in Nat
  <2> HIDE DEF s, B
  <2> QED
    BY <1>1, <1>2, KeysFinite
<1>5. CASE ~(Cardinality(s) > n)
  <2>1. p = [items |-> s, next |-> 0]
    BY <1>5 DEF Page
  <2>2. Cardinality(s) < n + 1
    <3> HIDE DEF s
    <3> QED
      BY <1>4, <1>5
  <2>3. s = B
    <3>1. Cardinality(FirstRows(dir, B, o)) < o
      BY <2>2
    <3> HIDE DEF B, o
    <3> QED
      BY <1>0, <1>1, <3>1, FrontWhole
  <2> HIDE DEF p, s, B
  <2>4. IsPage(dir, T, c, p)
    BY <2>1, <2>3 DEF IsPage, B
  <2> QED
    BY <1>3, <2>4 DEF p
<1>6. CASE Cardinality(s) > n
  <2>1. p = [items |-> f, next |-> LastRow(dir, f)]
    BY <1>6 DEF Page
  <2>2. s # {}
    <3>1. CASE s = {}
      <4>1. Cardinality(s) = 0
        BY <3>1, FS_EmptySet
      <4> HIDE DEF s
      <4> QED
        BY <1>6, <4>1
    <3> QED
      BY <3>1
  <2>3. f # {} /\ f \subseteq 1..b
    <3> HIDE DEF s, B
    <3> QED
      BY <1>1, <1>2, <2>2, FrontThere
  <2>. DEFINE l == LastRow(dir, f)
  <2>4. l \in f /\ \A y \in f : ~Before(dir, l, y)
    <3> HIDE DEF f
    <3> QED
      BY <2>3, LastKey
  <2>5. l # 0
    <3>1. l \in 1..b
      BY <2>3, <2>4
    <3> HIDE DEF l
    <3> QED
      BY <3>1
  <2>6. ASSUME NEW k \in B, ~Before(dir, l, k)
        PROVE  k \in f
    <3> HIDE DEF l, B, o
    <3>1. k \in s
      <4>1. l \in FirstRows(dir, B, o)
        BY <1>2, <2>4
      <4> QED
        BY <1>0, <1>1, <2>6, <4>1, FrontKept
    <3> QED
      <4> HIDE DEF s
      <4> QED
        BY <1>1, <1>2, <2>4, <2>6, <3>1, FrontKept
  <2> HIDE DEF p, l, f, s, B
  <2>7. p.items = f /\ p.next = l
    BY <2>1 DEF l
  <2>8. IsPage(dir, T, c, p)
    BY <1>2, <2>4, <2>5, <2>6, <2>7 DEF IsPage, B
  <2> QED
    BY <1>3, <2>8 DEF p
<1> QED
  BY <1>5, <1>6

\* The front of a set of rows: with a row, every row before it.
IsFront(dir, T, F) ==
  F \subseteq T /\ \A l \in F, k \in T : ~Before(dir, l, k) => k \in F

\* A limit on a front is a front.
LEMMA LimitIsFront ==
  ASSUME NEW b \in Nat, NEW dir, NEW T, NEW F, F \subseteq 1..b, T \subseteq 1..b,
         IsFront(dir, T, F), NEW n \in Nat
  PROVE  IsFront(dir, T, FirstRows(dir, F, n))
<1>1. FirstRows(dir, F, n) \subseteq F
  BY DEF FirstRows
<1>2. ASSUME NEW l \in FirstRows(dir, F, n), NEW k \in T, ~Before(dir, l, k)
      PROVE  k \in FirstRows(dir, F, n)
  <2>1. k \in F
    BY <1>1, <1>2 DEF IsFront
  <2> QED
    BY <1>2, <2>1, FrontKept
<1> QED
  BY <1>1, <1>2 DEF IsFront

-----------------------------------------------------------------------------
(***************************************************************************)
(* Part 3.  The lists, for every number of keys, every limit and every     *)
(* number of queries that break off.                                       *)
(***************************************************************************)

\* The rows, and the place of a client that scrolls.
ListTypes ==
  /\ list \in Lists /\ limit \in Nat /\ taken \in 0..MaxKey
  /\ rows \subseteq RowKeys /\ pend \subseteq RowKeys /\ base \subseteq rows
  /\ mode = "scroll" /\ list # "conversations" =>
       cursor \in 0..MaxKey /\ seen \subseteq RowKeys

\* A scroll between two pages: what was received is not behind the cursor,
\* and what was there all along and is not behind it was received.
Reached ==
  /\ cursor = 0 => seen = {}
  /\ cursor # 0 =>
       /\ list # "channels"
       /\ \A k \in seen : ~Before(Order, cursor, k)
       /\ \A k \in base : k \in seen \/ Before(Order, cursor, k)

\* A scroll, from its first page to its last.
Scrolling ==
  mode = "scroll" /\ list # "conversations" =>
    /\ phase \in {"idle", "reading", "done"} /\ twice = {}
    /\ phase = "idle" => seen = {} /\ cursor = 0
    /\ phase = "reading" => Reached
    /\ phase = "done" /\ ~cut => base \subseteq seen

\* A search: while the membership has not changed, every part that has answered
\* answered by the membership the search began with.
Searching ==
  mode = "search" =>
    /\ DOMAIN hits = SearchTypes
    /\ part \in [SearchTypes -> {"off", "run", "ok", "failed"}]
    /\ phase \in {"idle", "reading", "done", "failed"}
    /\ phase = "idle" =>
         /\ seen = {} /\ ~switched
         /\ \A t \in SearchTypes : hits[t] = {} /\ part[t] = "off"
    /\ phase = "reading" =>
         /\ joined => mayRead
         /\ mayRead /\ ~switched => joined
    /\ phase \in {"done", "failed"} => \A t \in SearchTypes : part[t] # "run"
    /\ phase = "done" =>
         seen = hits["messages"] /\ \A t \in SearchTypes : part[t] # "failed"
    /\ hits["messages"] # {} => mayRead
    /\ FALSE \in hits["communities"] /\ ~switched => ~mayRead
    /\ part["messages"] = "ok" /\ mayRead /\ ~switched =>
         base \subseteq hits["messages"] \/ Cardinality(hits["messages"]) = SearchLimit

ListIInv == ListTypes /\ Scrolling /\ Searching

\* Every list but the conversations is served in such pages.
LEMMA ServedPage ==
  ASSUME ListTypes, list # "conversations", list = "channels" => cursor = 0
  PROVE  IsPage(Order, rows, cursor, Serve(rows, Request))
<1>. DEFINE r == Request
            n == LimitOf(r)
<1>1. r.cursor = cursor /\ r.limit = limit /\ r.since = 0
  BY DEF Request
<1>2. n \in Nat \ {0}
  BY <1>1 DEF LimitOf, ListTypes
<1>3. rows \subseteq RowKeys /\ list \in Lists
  BY DEF ListTypes
<1> HIDE DEF n, r
<1>4. IsPage(Order, rows, cursor, Page(Order, Query(Order, rows, cursor, n + 1), n))
  BY <1>2, <1>3, PageIsPage, ListingsAssumption DEF RowKeys
<1>5. CASE list = "channels"
  <2>1. Serve(rows, r) = [items |-> rows, next |-> 0]
    BY <1>5 DEF Serve, ChannelsRpc, ListChannelsByCommunity
  <2>2. Behind(Order, rows, cursor) = rows
    BY <1>5 DEF Behind
  <2> QED
    BY <2>1, <2>2 DEF IsPage, r
<1>6. CASE list # "channels"
  <2>1. Serve(rows, r) = Page(Order, Query(Order, rows, cursor, n + 1), n)
    <3>1. CASE list \in {"friends", "communities", "members"}
      BY <1>1, <3>1
         DEF Serve, FriendsRpc, CommunitiesRpc, MembersRpc, ListFriends,
             ListCommunitiesByUser, ListMembersByCommunity, Order, Growing, n
    <3>2. CASE list \in {"dm", "messages"}
      BY <1>1, <3>2
         DEF Serve, DMHistoryRpc, GetMessagesRpc, GetDMHistory, GetChannelMessages,
             Order, Growing, n
    <3> QED
      BY <1>3, <1>6, <3>1, <3>2 DEF Lists
  <2> QED
    BY <1>4, <2>1 DEF r
<1> QED
  BY <1>5, <1>6

\* A query that breaks off gives rows of the page and no cursor.
LEMMA ShortPage ==
  ASSUME NEW dir, NEW q, NEW p \in Short(dir, q)
  PROVE  p.next = 0 /\ p.items \subseteq q.items
<1>1. PICK m : p = [items |-> FirstRows(dir, q.items, m), next |-> 0]
  BY DEF Short
<1>2. FirstRows(dir, q.items, m) \subseteq q.items
  BY DEF FirstRows
<1> QED
  BY <1>1, <1>2

\* What the client of a scroll gets is a page, or part of one.
LEMMA AnsweredPage ==
  ASSUME ListTypes, list # "conversations", list = "channels" => cursor = 0,
         NEW p, Answer(p)
  PROVE  /\ p.items \subseteq Behind(Order, rows, cursor)
         /\ cut' \/ (cut' = cut /\ IsPage(Order, rows, cursor, p))
         /\ p.next # 0 => IsPage(Order, rows, cursor, p) /\ list # "channels"
<1>0. list = "channels" => Serve(rows, Request).next = 0
  BY DEF Serve, ChannelsRpc, ListChannelsByCommunity
<1>1. IsPage(Order, rows, cursor, Serve(rows, Request))
  BY ServedPage
<1>2. CASE p = Serve(rows, Request) /\ cut' = cut
  BY <1>0, <1>1, <1>2 DEF IsPage
<1>3. CASE p \in Short(Order, Serve(rows, Request)) /\ cut'
  BY <1>1, <1>3, ShortPage DEF IsPage
<1> QED
  BY <1>2, <1>3 DEF Answer

-----------------------------------------------------------------------------
(* The steps. *)

\* Before the first request nothing was received and nothing is excused.
LEMMA ListInitial == ListInit => ListIInv
<1> SUFFICES ASSUME ListInit
             PROVE  ListIInv
  OBVIOUS
<1>1. ListTypes
  BY ListingsAssumption DEF ListInit, ListTypes, RowKeys, Lists
<1>2. Scrolling
  BY DEF ListInit, Scrolling
<1>3. Searching
  BY DEF ListInit, Searching, SearchTypes
<1> QED
  BY <1>1, <1>2, <1>3 DEF ListIInv

\* A page carries the scroll on from its cursor, without a gap or an overlap.
LEMMA NextPageStep ==
  ASSUME ListTypes, Scrolling, NextPage
  PROVE  ListTypes' /\ Scrolling'
<1> USE DEF ListTypes
<1>0. mode = "scroll" /\ phase = "reading"
  BY DEF NextPage
<1>1. PICK p : /\ Answer(p)
               /\ seen' = seen \cup p.items
               /\ twice' = twice \cup (seen \cap p.items)
               /\ cursor' = p.next
               /\ phase' = IF p.next = 0 THEN "done" ELSE "reading"
  BY DEF NextPage
<1>2. UNCHANGED <<list, mode, rows, pend, taken, limit, base>>
  BY DEF NextPage, table
<1>3. CASE list = "conversations"
  BY <1>2, <1>3 DEF Scrolling
<1>4. CASE list # "conversations"
  <2>1. Reached /\ twice = {}
    BY <1>0, <1>4 DEF Scrolling
  <2>2. /\ p.items \subseteq Behind(Order, rows, cursor)
        /\ cut' \/ (cut' = cut /\ IsPage(Order, rows, cursor, p))
        /\ p.next # 0 => IsPage(Order, rows, cursor, p) /\ list # "channels"
    BY <1>1, <1>4, <2>1, AnsweredPage DEF Reached
  <2>3. p.items \subseteq rows /\ p.items \subseteq RowKeys
    BY <2>2 DEF Behind
  <2>4. p.next # 0 => p.next \in RowKeys
    BY <2>2, <2>3 DEF IsPage
  <2>5. ListTypes'
    BY <1>0, <1>1, <1>2, <2>3, <2>4, ListingsAssumption DEF RowKeys
  <2>6. seen \cap p.items = {}
    BY <2>1, <2>2 DEF Reached, Behind
  <2>7. \A k \in base : k \in seen \/ k \in Behind(Order, rows, cursor)
    BY <2>1 DEF Reached, Behind
  <2>8. ASSUME p.next # 0
        PROVE  Reached'
    <3>1. /\ p.next \in p.items
          /\ \A k \in p.items : ~Before(Order, p.next, k)
          /\ \A k \in Behind(Order, rows, cursor) :
               k \in p.items \/ Before(Order, p.next, k)
      BY <2>2, <2>8 DEF IsPage
    <3>2. cursor # 0 => cursor \in RowKeys /\ Before(Order, cursor, p.next)
      BY <1>0, <1>4, <2>2, <3>1, ListingsAssumption DEF Behind, RowKeys
    <3>3. ASSUME NEW k \in seen
          PROVE  ~Before(Order, p.next, k)
      <4>1. cursor # 0 /\ ~Before(Order, cursor, k)
        BY <2>1 DEF Reached
      <4>2. k \in RowKeys /\ p.next \in RowKeys
        BY <1>0, <1>4, <2>4, <2>8
      <4> QED
        BY <3>2, <4>1, <4>2, Total, ListingsAssumption DEF RowKeys
    <3>4. Order' = Order
      BY <1>2 DEF Order
    <3> QED
      BY <1>1, <1>2, <2>2, <2>7, <2>8, <3>1, <3>3, <3>4 DEF Reached
  <2>9. ASSUME p.next = 0, ~cut'
        PROVE  base \subseteq seen' /\ ~cut
    BY <1>1, <2>2, <2>7, <2>9 DEF IsPage
  <2> QED
    BY <1>0, <1>1, <1>2, <1>4, <2>1, <2>5, <2>6, <2>8, <2>9 DEF Scrolling
<1> QED
  BY <1>3, <1>4

\* What writers do between two pages does not spoil a scroll.
LEMMA ScrollStep ==
  ASSUME ListTypes, Scrolling, [ListNext]_listVars
  PROVE  ListTypes' /\ Scrolling'
<1>1. CASE TakeKey \/ JoinOrLeave
  <2>1. UNCHANGED <<list, mode, rows, phase, limit, cursor, seen, twice, base,
                    cut>>
    BY <1>1 DEF TakeKey, JoinOrLeave, client
  <2>2. taken' \in 0..MaxKey /\ pend' \subseteq RowKeys
    <3>1. CASE TakeKey
      <4>1. /\ taken + 1 \in RowKeys
            /\ taken' = taken + 1 /\ pend' = pend \cup {taken + 1}
        BY <3>1, ListingsAssumption DEF TakeKey, ListTypes, RowKeys
      <4> QED
        BY <4>1, ListingsAssumption DEF ListTypes, RowKeys
    <3>2. CASE JoinOrLeave
      BY <3>2 DEF JoinOrLeave, ListTypes
    <3> QED
      BY <1>1, <3>1, <3>2
  <2> QED
    BY <2>1, <2>2 DEF ListTypes, Scrolling, Reached, Order
<1>2. ASSUME NEW k \in RowKeys, CommitRow(k) \/ InsertRow(k)
      PROVE  ListTypes' /\ Scrolling'
  BY <1>2 DEF CommitRow, InsertRow, ListTypes, Scrolling, Reached, Order, client
<1>3. ASSUME NEW k \in RowKeys, DeleteRow(k)
      PROVE  ListTypes' /\ Scrolling'
  <2>1. /\ rows' = rows \ {k} /\ base' = base \ {k}
        /\ UNCHANGED <<list, mode, pend, taken, phase, limit, cursor, seen,
                       twice, cut>>
    BY <1>3 DEF DeleteRow
  <2>2. ListTypes'
    BY <2>1 DEF ListTypes
  <2>3. Reached => Reached'
    BY <2>1 DEF Reached, Order
  <2> QED
    BY <2>1, <2>2, <2>3 DEF Scrolling
<1>4. ASSUME NEW n \in Limits, Open(n)
      PROVE  ListTypes' /\ Scrolling'
  <2>1. n \in Nat
    BY ListingsAssumption
  <2>2. /\ phase = "idle" /\ phase' = "reading" /\ limit' = n /\ base' = rows
        /\ UNCHANGED <<list, mode, rows, pend, taken, cursor, seen, twice, cut>>
    BY <1>4 DEF Open, table
  <2> QED
    BY <2>1, <2>2 DEF ListTypes, Scrolling, Reached
<1>5. CASE NextPage
  BY <1>5, NextPageStep
<1>6. ASSUME NEW types, NEW n \in Limits, Start(types, n)
      PROVE  ListTypes' /\ Scrolling'
  BY <1>6, ListingsAssumption DEF Start, ListTypes, Scrolling, table
<1>7. ASSUME NEW t, SearchPart(t)
      PROVE  ListTypes' /\ Scrolling'
  BY <1>7 DEF SearchPart, ListTypes, Scrolling, Reached, Order, table, client
<1>8. CASE SearchReturns
  BY <1>8 DEF SearchReturns, ListTypes, Scrolling, table
<1>9. CASE UNCHANGED listVars
  BY <1>9 DEF listVars, ListTypes, Scrolling, Reached, Order, table, client
<1> QED
  BY <1>1, <1>2, <1>3, <1>4, <1>5, <1>6, <1>7, <1>8, <1>9 DEF ListNext

\* A part of a search shows what its own query saw.
LEMMA SearchStep ==
  ASSUME ListTypes, Searching, [ListNext]_listVars
  PROVE  Searching'
<1> SUFFICES ASSUME mode = "search", mode' = "search"
             PROVE  Searching'
  <2>1. mode' = mode
    BY DEF ListNext, listVars, TakeKey, JoinOrLeave, CommitRow, InsertRow,
           DeleteRow, Open, NextPage, Start, SearchPart, SearchReturns
  <2> QED
    BY <2>1 DEF Searching
<1>1. CASE TakeKey \/ \E k \in RowKeys : CommitRow(k) \/ InsertRow(k)
  BY <1>1 DEF TakeKey, CommitRow, InsertRow, Searching, SearchLimit, search, client
<1>2. CASE JoinOrLeave
  <2>1. /\ UNCHANGED <<part, hits, phase, seen, base, limit>> /\ joined' = ~joined
        /\ mayRead' = (mayRead \/ (phase = "reading" /\ joined'))
        /\ switched' = (switched \/ phase = "reading")
    BY <1>2 DEF JoinOrLeave, client
  <2> QED
    BY <2>1 DEF Searching, SearchLimit
<1>3. CASE NextPage \/ \E n \in Limits : Open(n)
  BY <1>3 DEF NextPage, Open
<1>4. ASSUME NEW types, NEW n \in Limits, Start(types, n)
      PROVE  Searching'
  BY <1>4 DEF Start, Searching, SearchTypes, table
<1>5. ASSUME NEW t \in SearchTypes, SearchPart(t)
      PROVE  Searching'
  <2>1. phase = "reading" /\ part[t] = "run"
    BY <1>5 DEF SearchPart, Searching
  <2>2. /\ UNCHANGED <<phase, seen, joined, mayRead, switched, base, limit, rows>>
        /\ part' \in [SearchTypes -> {"off", "run", "ok", "failed"}]
        /\ \A u \in SearchTypes \ {t} : part'[u] = part[u]
    BY <1>5 DEF SearchPart, Searching, client, table
  <2>3. CASE part'[t] # "ok"
    <3>1. hits' = hits
      BY <1>5, <2>3 DEF SearchPart, Searching
    <3> QED
      BY <2>1, <2>2, <2>3, <3>1 DEF Searching, SearchTypes, SearchLimit
  <2>4. CASE part'[t] = "ok"
    <3>1. PICK found \in Found(t) : hits' = [hits EXCEPT ![t] = found]
      BY <1>5, <2>4 DEF SearchPart, Searching
    <3>2. DOMAIN hits' = SearchTypes /\ hits'[t] = found
          /\ \A u \in SearchTypes \ {t} : hits'[u] = hits[u]
      BY <3>1 DEF Searching
    <3>3. CASE t = "messages"
      <4>1. found \in SearchChannelMessages
        BY <3>1, <3>3 DEF Found
      <4>2. CASE joined
        <5>1. found = rows \/ Cardinality(found) = SearchLimit
          BY <4>1, <4>2 DEF SearchChannelMessages, Relevant
        <5>2. base \subseteq found \/ Cardinality(found) = SearchLimit
          BY <5>1 DEF ListTypes
        <5> QED
          BY <2>1, <2>2, <3>2, <3>3, <4>2, <5>2 DEF Searching, SearchTypes, SearchLimit
      <4>3. CASE ~joined
        <5>1. found = {}
          <6>1. found \in Relevant({})
            BY <4>1, <4>3 DEF SearchChannelMessages
          <6>2. Relevant({}) \subseteq SUBSET {}
            BY DEF Relevant
          <6> QED
            BY <6>1, <6>2
        <5> QED
          BY <2>1, <2>2, <3>2, <3>3, <4>3, <5>1 DEF Searching, SearchTypes
      <4> QED
        BY <4>2, <4>3
    <3>4. CASE t = "communities"
      <4>1. found = {joined}
        BY <3>1, <3>4 DEF Found, SearchCommunities
      <4>2. FALSE \in hits'["communities"] => ~joined
        BY <3>2, <3>4, <4>1
      <4> QED
        BY <2>1, <2>2, <3>2, <3>4, <4>2 DEF Searching, SearchTypes, SearchLimit
    <3>5. CASE t \in {"users", "dms"}
      BY <2>1, <2>2, <3>2, <3>5 DEF Searching, SearchTypes, SearchLimit
    <3> QED
      BY <3>3, <3>4, <3>5 DEF SearchTypes
  <2> QED
    BY <2>3, <2>4
<1>6. CASE SearchReturns
  BY <1>6 DEF SearchReturns, Searching, SearchLimit, table, search
<1>7. ASSUME NEW k \in RowKeys, DeleteRow(k)
      PROVE  Searching'
  BY <1>7 DEF DeleteRow, Searching, SearchLimit, search
<1>8. CASE UNCHANGED listVars
  BY <1>8 DEF listVars, Searching, SearchLimit, table, client, search
<1> QED
  BY <1>1, <1>2, <1>3, <1>4, <1>5, <1>6, <1>7, <1>8 DEF ListNext

\* The three parts hold in every state of the lists.
THEOREM ListInductive == ListSpec => []ListIInv
<1>1. ListIInv /\ [ListNext]_listVars => ListIInv'
  BY ScrollStep, SearchStep DEF ListIInv
<1> QED
  BY ListInitial, <1>1, PTL DEF ListSpec

\* A client that follows next_cursor to the end of a list of friends, communities,
\* members, channels, DMs or messages has every row that was there from its first
\* page on and got none twice, whatever committed, was inserted or deleted between
\* its pages, unless a query broke off.
THEOREM ScrollsComplete == ListSpec => []ScrollIsComplete
<1>1. ListIInv => ScrollIsComplete
  BY DEF ListIInv, Scrolling, ScrollIsComplete
<1> QED
  BY ListInductive, <1>1, PTL

\* Messages and membership of one answer differ only if the membership changed
\* while the search ran; a member all along gets every message that was there all
\* along, or a full answer; for any rows, limits, parts and failures.
THEOREM SearchesAgree == ListSpec => []SearchPartsAgree
<1>1. ListIInv => SearchPartsAgree
  BY DEF ListIInv, Searching, SearchPartsAgree, SearchTypes
<1> QED
  BY ListInductive, <1>1, PTL

-----------------------------------------------------------------------------
(***************************************************************************)
(* Part 4.  The view of a tab, for every number of messages, calls, faults *)
(* and reloads and all limits.                                             *)
(***************************************************************************)

\* What a call may look like.  A backfill asks for what follows a cursor that the
\* tab had, and nothing received is in flight.
CallRecord(c) ==
  /\ call[c] = [stage |-> call[c].stage, kind |-> call[c].kind, since |-> call[c].since,
                have |-> call[c].have, items |-> call[c].items, late |-> call[c].late]
  /\ call[c].stage \in {"idle", "sent", "answered"}
  /\ call[c].kind \in {"none", "fill", "load", "more"}
  /\ call[c].stage = "idle" => call[c].kind = "none"
  /\ call[c].since \in 0..mark /\ (call[c].since # 0 => call[c].kind = "fill")
  /\ call[c].have \subseteq (1..given) \ flying
  /\ call[c].items \subseteq (1..given) \ flying

SyncTypes ==
  /\ given \in 0..MaxSeq /\ flying \subseteq 1..given /\ committed \subseteq 1..given
  /\ committed \cap flying = {}
  /\ view \subseteq (1..given) \ flying
  /\ mark \in 0..given /\ lowest \in Nat
  /\ call = [c \in Calls |-> call[c]] /\ \A c \in Calls : CallRecord(c)
  /\ \A c, d \in Histories : call[c].kind = "more" /\ call[d].kind = "more" => c = d
  /\ scope \in {"dm", "channel"}

\* Where the page of an answer reaches: from its oldest message, or from the cursor
\* it was asked for, to its newest.
InPage(c, k) ==
  /\ \E i \in call[c].items : k <= i
  /\ IF call[c].since = 0 THEN \E i \in call[c].items : i <= k ELSE call[c].since < k

\* An answer has all of its page, but for what was in flight.
PagesWhole ==
  \A c \in Calls : \A k \in committed \cup flying :
    call[c].stage = "answered" /\ InPage(c, k) => k \in call[c].items \cup call[c].late

\* What is in the view, or was when the user scrolled.
InHands(k) == k \in view \/ \E d \in Histories : k \in call[d].have

\* A load that is out overwrites only messages older than its page, and what came
\* after it was read.
LoadsFresh ==
  \A c \in Histories : \A k \in committed :
    InHands(k) /\ call[c].stage = "answered" /\ call[c].kind = "load" =>
      \/ k \in overtaken \cup call[c].items
      \/ \A i \in call[c].items : k < i

\* A load of older messages overwrites only what came after it was sent.
MoresFresh ==
  \A c \in Histories : \A k \in view :
    call[c].kind = "more" => k \in overtaken \cup call[c].have

\* What is in flight below the cursor is excused already.
FlyingMissed == \A k \in flying : k \in lowest..mark => k \in missed

SyncIInv ==
  SyncTypes /\ PagesWhole /\ LoadsFresh /\ MoresFresh /\ FlyingMissed /\ ViewHasNoHole

-----------------------------------------------------------------------------
\* The page a service reads is the front of what was asked for, whole or cut short:
\* the newest messages, or what follows the cursor of a backfill.
LEMMA ReadFront ==
  ASSUME SyncTypes, NEW c \in Calls, NEW w, w = HistoryOf(c).items,
         NEW got,
         got = w \/ \E p \in Short(Direction(c), HistoryOf(c)) : got = p.items
  PROVE  IsFront(Direction(c), Behind("asc", committed, call[c].since), got)
<1>. DEFINE r == RequestOf(c)
            s == call[c].since
            n == LimitOf(r)
            d == Direction(c)
            B == Behind("asc", committed, s)
<1>1. r.cursor = 0 /\ r.since = s /\ r.limit \in Nat \ {0} /\ s \in Nat
  BY SyncAssumption DEF RequestOf, SyncTypes, CallRecord
<1>2. n \in Nat \ {0}
  BY <1>1 DEF LimitOf
<1>3. given \in Nat /\ committed \subseteq 1..given
  BY DEF SyncTypes
<1>4. B \subseteq 1..given /\ IsFront(d, B, B)
  BY <1>3 DEF Behind, IsFront
<1>5. IsFront(d, B, w)
  <2> HIDE DEF n, r
  <2>1. CASE s > 0
    <3>1. HistoryOf(c) = [items |-> Query("asc", committed, s, n), next |-> 0]
      BY <1>1, <2>1 DEF HistoryOf, DMHistoryRpc, GetMessagesRpc, GetDMMessagesSince,
                        GetChannelMessagesSince, n, r
    <3>2. w = FirstRows(d, B, n) /\ d = "asc"
      BY <2>1, <3>1 DEF Query, Direction
    <3> HIDE DEF d, B
    <3> QED
      BY <1>2, <1>3, <1>4, <3>2, LimitIsFront
  <2>2. CASE ~(s > 0)
    <3>. DEFINE o == n + 1
                q == FirstRows("desc", B, o)
    <3>0. o \in Nat
      BY <1>2
    <3>1. s = 0 /\ d = "desc"
      BY <1>1, <2>2 DEF Direction
    <3>2. Behind("desc", committed, 0) = B
      BY <3>1 DEF Behind
    <3>3. HistoryOf(c) = Page("desc", q, n)
      BY <1>1, <3>1, <3>2 DEF HistoryOf, DMHistoryRpc, GetMessagesRpc, GetDMHistory,
                              GetChannelMessages, Query, n, r
    <3>4. IsFront(d, B, q) /\ q \subseteq 1..given
      <4>1. IsFront(d, B, q)
        <5> HIDE DEF B, d, o
        <5> QED
          BY <1>3, <1>4, <3>0, <3>1, LimitIsFront
      <4> HIDE DEF B, q, d
      <4> QED
        BY <1>4, <4>1 DEF IsFront
    <3>5. w = q \/ w = FirstRows("desc", q, n)
      BY <3>3 DEF Page
    <3> HIDE DEF q, B, d, o
    <3> QED
      BY <1>2, <1>3, <1>4, <3>1, <3>4, <3>5, LimitIsFront
  <2> QED
    BY <2>1, <2>2
<1>6. w \subseteq 1..given
  BY <1>4, <1>5 DEF IsFront
<1>7. ASSUME \E p \in Short(d, HistoryOf(c)) : got = p.items
      PROVE  IsFront(d, B, got)
  <2>1. PICK m \in 0..Cardinality(w) : got = FirstRows(d, w, m)
    BY <1>7 DEF Short
  <2>2. m \in Nat
    <3>1. Cardinality(w) \in Nat
      BY <1>3, <1>6, KeysFinite
    <3> QED
      BY <3>1
  <2> HIDE DEF B, d
  <2> QED
    BY <1>3, <1>4, <1>5, <1>6, <2>1, <2>2, LimitIsFront
<1> QED
  BY <1>5, <1>7

-----------------------------------------------------------------------------
\* A fresh tab claims nothing.
LEMMA SyncInitial == SyncInit => SyncIInv
<1> SUFFICES ASSUME SyncInit
             PROVE  SyncIInv
  OBVIOUS
<1>1. SyncTypes
  <2>1. \A c \in Calls : call[c] = NoCall
    BY DEF SyncInit
  <2>2. \A c \in Calls : CallRecord(c)
    BY <2>1, SyncAssumption DEF SyncInit, CallRecord, NoCall
  <2>3. call = [c \in Calls |-> call[c]]
    BY DEF SyncInit
  <2> QED
    BY <2>1, <2>2, <2>3, SyncAssumption DEF SyncInit, SyncTypes, Calls, NoCall
<1>2. \A c \in Calls : call[c].stage = "idle" /\ call[c].kind = "none"
  BY DEF SyncInit, NoCall
<1>3. PagesWhole /\ LoadsFresh /\ MoresFresh
  BY <1>2 DEF SyncInit, PagesWhole, LoadsFresh, MoresFresh, Calls
<1>4. FlyingMissed /\ ViewHasNoHole
  <2>1. mark \in Nat /\ lowest = mark + 1
    BY SyncAssumption DEF SyncInit
  <2>2. ~ \E k : k \in lowest..mark
    BY <2>1
  <2> QED
    BY <2>2 DEF FlyingMissed, ViewHasNoHole
<1> QED
  BY <1>1, <1>3, <1>4 DEF SyncIInv

\* The table: a new seq is above every page and the cursor, and a message that
\* commits was in flight when the pages around it were read.
LEMMA TableStep ==
  ASSUME SyncIInv,
         TakeSeq \/ \E k \in Seqs : CommitSeq(k) \/ DeleteMessage(k)
  PROVE  SyncIInv'
<1> USE DEF SyncIInv
<1>1. UNCHANGED <<scope, view, mark, call, lowest, missed, overtaken>>
  BY DEF TakeSeq, CommitSeq, DeleteMessage, ghosts
<1>2. given \in Nat /\ MaxSeq \in Nat /\ given <= MaxSeq
  BY SyncAssumption DEF SyncTypes
<1>3. CASE TakeSeq
  <2>1. /\ given < MaxSeq /\ given' = given + 1 /\ committed' = committed
        /\ flying' = flying \cup {given + 1}
    BY <1>3 DEF TakeSeq
  <2>2. 1..given \subseteq 1..given' /\ given + 1 \notin 1..given
        /\ given + 1 \in 1..given'
    BY <1>2, <2>1
  <2>3. (1..given) \ flying \subseteq (1..given') \ flying'
    BY <2>1, <2>2
  <2>4. ASSUME NEW c \in Calls
        PROVE  CallRecord(c)'
    BY <1>1, <2>3 DEF SyncTypes, CallRecord
  <2>5. SyncTypes'
    <3>1. given' \in 0..MaxSeq /\ mark \in 0..given'
      BY <1>2, <2>1 DEF SyncTypes
    <3> QED
      BY <1>1, <2>1, <2>2, <2>3, <2>4, <3>1 DEF SyncTypes
  <2>6. PagesWhole'
    <3>1. ASSUME NEW c \in Calls, InPage(c, given + 1)
          PROVE  FALSE
      <4>1. PICK i \in call[c].items : given + 1 <= i
        BY <3>1 DEF InPage
      <4>2. i \in 1..given
        BY DEF SyncTypes, CallRecord
      <4> QED
        BY <1>2, <4>1, <4>2
    <3> QED
      BY <1>1, <2>1, <3>1 DEF PagesWhole, InPage
  <2>7. FlyingMissed'
    <3>1. given + 1 \notin lowest..mark
      BY <1>2 DEF SyncTypes
    <3> QED
      BY <1>1, <2>1, <3>1 DEF FlyingMissed
  <2> QED
    BY <1>1, <2>1, <2>5, <2>6, <2>7
       DEF LoadsFresh, InHands, MoresFresh, ViewHasNoHole
<1>4. ASSUME NEW k \in Seqs, CommitSeq(k)
      PROVE  SyncIInv'
  <2>1. /\ k \in flying /\ flying' = flying \ {k} /\ committed' = committed \cup {k}
        /\ given' = given
    BY <1>4 DEF CommitSeq
  <2>2. \A c \in Calls : CallRecord(c)'
    BY <1>1, <2>1 DEF SyncTypes, CallRecord
  <2>3. SyncTypes'
    BY <1>1, <2>1, <2>2 DEF SyncTypes
  <2>4. PagesWhole'
    BY <1>1, <2>1 DEF PagesWhole, InPage
  <2>5. LoadsFresh' /\ MoresFresh'
    <3>1. ~InHands(k)
      BY <2>1 DEF InHands, SyncTypes, CallRecord, Calls
    <3> QED
      BY <1>1, <2>1, <3>1 DEF LoadsFresh, InHands, MoresFresh
  <2>6. FlyingMissed' /\ ViewHasNoHole'
    BY <1>1, <2>1 DEF FlyingMissed, ViewHasNoHole
  <2> QED
    BY <2>3, <2>4, <2>5, <2>6
<1>5. ASSUME NEW k \in Seqs, DeleteMessage(k)
      PROVE  SyncIInv'
  <2>1. committed' = committed \ {k} /\ flying' = flying /\ given' = given
    BY <1>5 DEF DeleteMessage
  <2>2. \A c \in Calls : CallRecord(c)'
    BY <1>1, <2>1 DEF SyncTypes, CallRecord
  <2> QED
    BY <1>1, <2>1, <2>2
       DEF SyncTypes, PagesWhole, InPage, LoadsFresh, InHands, MoresFresh, FlyingMissed,
           ViewHasNoHole
<1> QED
  BY <1>3, <1>4, <1>5

\* What arrives while a history request is out is overtaken, and nothing else
\* joins what that request may overwrite.
LEMMA ArrivalKeeps ==
  ASSUME SyncIInv, NEW D, NEW A, overtaken' = Overtake(D, A, view'),
         committed' = committed,
         \A d \in Histories \ D : call'[d] = call[d],
         \A d \in Histories \cap D : call'[d] = NoCall,
         \A k \in view' : \/ k \in view \cup A
                          \/ \E d \in Histories \cap D :
                               call[d].kind = "more" /\ k \in call[d].have
  PROVE  /\ LoadsFresh' /\ MoresFresh'
         /\ overtaken \subseteq view' \cup overtaken'
<1>1. overtaken \subseteq view' \cup overtaken'
  BY DEF Overtake
<1>2. ASSUME NEW c \in Histories, call'[c].stage # "idle"
      PROVE  /\ c \notin D /\ call'[c] = call[c]
             /\ overtaken \subseteq overtaken' /\ A \ view \subseteq overtaken'
  <2>1. c \notin D /\ call'[c] = call[c]
    BY <1>2 DEF NoCall
  <2>2. HistoryOut(D) # {}
    BY <1>2, <2>1 DEF HistoryOut
  <2> QED
    BY <2>1, <2>2 DEF Overtake
<1>3. \A k : InHands(k)' => InHands(k) \/ k \in A
  BY DEF InHands, NoCall
<1>4. LoadsFresh'
  <2> SUFFICES ASSUME NEW c \in Histories, NEW k \in committed, InHands(k)',
                      call'[c].stage = "answered", call'[c].kind = "load"
               PROVE  \/ k \in overtaken' \cup call'[c].items
                      \/ \A i \in call'[c].items : k < i
    BY DEF LoadsFresh
  <2>1. call'[c] = call[c] /\ overtaken \subseteq overtaken'
        /\ A \ view \subseteq overtaken'
    BY <1>2
  <2>2. CASE InHands(k)
    BY <2>1, <2>2 DEF SyncIInv, LoadsFresh
  <2>3. CASE ~InHands(k)
    BY <1>3, <2>1, <2>3 DEF InHands
  <2> QED
    BY <2>2, <2>3
<1>5. MoresFresh'
  <2> SUFFICES ASSUME NEW c \in Histories, NEW k \in view', call'[c].kind = "more"
               PROVE  k \in overtaken' \cup call'[c].have
    BY DEF MoresFresh
  <2>0. c \in Calls
    BY DEF Calls
  <2>1. call'[c] = call[c] /\ c \notin D
    BY DEF NoCall
  <2>2. call[c].stage # "idle"
    BY <2>0, <2>1 DEF SyncIInv, SyncTypes, CallRecord
  <2>3. overtaken \subseteq overtaken' /\ A \ view \subseteq overtaken'
    BY <1>2, <2>1, <2>2
  <2>4. k \in view \cup A
    BY <2>1 DEF SyncIInv, SyncTypes
  <2> QED
    BY <2>1, <2>3, <2>4 DEF SyncIInv, MoresFresh
<1> QED
  BY <1>1, <1>4, <1>5

\* A message that is pushed, or removed, and a tab that is loaded again.
LEMMA StoreStep ==
  ASSUME SyncIInv,
         \/ \E k \in Seqs : AppendMessage(k) \/ RemoveMessage(k)
         \/ \E m \in 0..MaxSeq : Reload(m)
  PROVE  SyncIInv'
<1>1. ASSUME NEW k \in Seqs, AppendMessage(k)
      PROVE  SyncIInv'
  <2>1. /\ k \in (1..given) \ flying /\ view' = view \cup {k}
        /\ overtaken' = Overtake({}, {k}, view')
        /\ UNCHANGED <<scope, committed, flying, given, mark, call, lowest, missed>>
    BY <1>1 DEF AppendMessage, tableVars
  <2>2. SyncTypes' /\ PagesWhole' /\ FlyingMissed'
    BY <2>1 DEF SyncIInv, SyncTypes, CallRecord, PagesWhole, InPage, FlyingMissed
  <2>3. LoadsFresh' /\ MoresFresh' /\ overtaken \subseteq view' \cup overtaken'
    BY <2>1, ArrivalKeeps
  <2> QED
    BY <2>1, <2>2, <2>3 DEF SyncIInv, ViewHasNoHole
<1>2. ASSUME NEW k \in Seqs, RemoveMessage(k)
      PROVE  SyncIInv'
  <2>1. /\ k \notin committed /\ view' = view \ {k}
        /\ UNCHANGED <<scope, committed, flying, given, mark, call, lowest, missed,
                       overtaken>>
    BY <1>2 DEF RemoveMessage, tableVars, ghosts
  <2>2. SyncTypes' /\ PagesWhole' /\ FlyingMissed'
    BY <2>1 DEF SyncIInv, SyncTypes, CallRecord, PagesWhole, InPage, FlyingMissed
  <2>3. LoadsFresh' /\ MoresFresh' /\ ViewHasNoHole'
    BY <2>1 DEF SyncIInv, LoadsFresh, InHands, MoresFresh, ViewHasNoHole
  <2> QED
    BY <2>2, <2>3 DEF SyncIInv
<1>3. ASSUME NEW m \in 0..MaxSeq, Reload(m)
      PROVE  SyncIInv'
  <2>1. /\ m \in 0..given /\ view' = {} /\ mark' = m
        /\ call' = [c \in Calls |-> NoCall] /\ lowest' = m + 1
        /\ UNCHANGED <<scope, committed, flying, given>>
    BY <1>3 DEF Reload, tableVars
  <2>2. \A c \in Calls : call'[c] = NoCall
    BY <2>1
  <2>3. \A c \in Calls : CallRecord(c)'
    BY <2>1, <2>2 DEF CallRecord, NoCall, SyncIInv, SyncTypes
  <2>4. call' = [c \in Calls |-> call'[c]]
    BY <2>1
  <2>5. SyncTypes'
    BY <2>1, <2>2, <2>3, <2>4 DEF SyncIInv, SyncTypes, Calls, NoCall
  <2>6. PagesWhole' /\ LoadsFresh' /\ MoresFresh'
    BY <2>1, <2>2 DEF PagesWhole, LoadsFresh, MoresFresh, NoCall, Calls
  <2>7. ~ \E k : k \in lowest'..mark'
    BY <2>1
  <2> QED
    BY <2>5, <2>6, <2>7 DEF SyncIInv, FlyingMissed, ViewHasNoHole
<1> QED
  BY <1>1, <1>2, <1>3

\* A call that is sent or fails changes only itself.
LEMMA SendStep ==
  ASSUME SyncIInv,
         \/ \E c \in Fills : BackfillAll(c)
         \/ \E c \in Histories : LoadHistory(c) \/ LoadMore(c)
         \/ \E c \in Calls : CallFails(c)
  PROVE  SyncIInv'
<1>1. UNCHANGED <<scope, committed, flying, given, view, mark, lowest, missed,
                  overtaken>>
  BY DEF BackfillAll, LoadHistory, LoadMore, CallFails, tableVars, ghosts
<1>2. PICK c \in Calls : BackfillAll(c) \/ LoadHistory(c) \/ LoadMore(c) \/ CallFails(c)
  BY DEF Calls
<1>3. call = [d \in Calls |-> call[d]] /\ \A d \in Calls : CallRecord(d)
  BY DEF SyncIInv, SyncTypes
<1>4. /\ call' = [d \in Calls |-> call'[d]]
      /\ \A d \in Calls \ {c} : call'[d] = call[d]
      /\ call'[c] = NoCall \/
         \E kind \in {"fill", "load", "more"}, since \in 0..mark, have \in {{}, view} :
           /\ call'[c] = [stage |-> "sent", kind |-> kind, since |-> since,
                          have |-> have, items |-> {}, late |-> {}]
           /\ since # 0 => kind = "fill"
           /\ kind = "more" => have = view /\ \A d \in Histories : call[d].kind # "more"
  <2>1. mark \in 0..mark /\ 0 \in 0..mark
    BY DEF SyncIInv, SyncTypes
  <2>2. CASE BackfillAll(c)
    BY <1>3, <2>1, <2>2 DEF BackfillAll, Send, NoCall
  <2>3. CASE LoadHistory(c)
    BY <1>3, <2>1, <2>3 DEF LoadHistory, Send, NoCall
  <2>4. CASE LoadMore(c)
    BY <1>3, <2>1, <2>4 DEF LoadMore, Send, NoCall
  <2>5. CASE CallFails(c)
    BY <1>3, <2>5 DEF CallFails
  <2> QED
    BY <1>2, <2>2, <2>3, <2>4, <2>5
<1>5. /\ call'[c].stage # "answered" /\ call'[c].have \subseteq view
      /\ call'[c].kind = "more" =>
           call'[c].have = view /\ \A d \in Histories : call[d].kind # "more"
  BY <1>4 DEF NoCall
<1>6. SyncTypes'
  <2>1. CallRecord(c)'
    BY <1>1, <1>4 DEF CallRecord, NoCall, SyncIInv, SyncTypes
  <2>2. ASSUME NEW d \in Calls \ {c}
        PROVE  CallRecord(d)'
    BY <1>1, <1>3, <1>4 DEF CallRecord
  <2>3. ASSUME NEW d \in Histories, NEW e \in Histories,
               call'[d].kind = "more", call'[e].kind = "more"
        PROVE  d = e
    <3>1. \A g \in Histories : g = c \/ call'[g].kind = call[g].kind
      BY <1>4 DEF Calls
    <3> QED
      BY <1>5, <2>3, <3>1 DEF SyncIInv, SyncTypes
  <2> QED
    BY <1>1, <1>4, <2>1, <2>2, <2>3 DEF SyncIInv, SyncTypes
<1>7. PagesWhole'
  BY <1>1, <1>4, <1>5 DEF PagesWhole, InPage, SyncIInv
<1>8. LoadsFresh'
  <2>1. \A k : InHands(k)' => InHands(k)
    BY <1>1, <1>4, <1>5 DEF InHands, Calls
  <2> QED
    BY <1>1, <1>4, <1>5, <2>1 DEF LoadsFresh, SyncIInv, Calls
<1>9. MoresFresh'
  BY <1>1, <1>4, <1>5 DEF MoresFresh, SyncIInv, Calls
<1> QED
  BY <1>1, <1>6, <1>7, <1>8, <1>9 DEF SyncIInv, FlyingMissed, ViewHasNoHole

\* The service reads the table.
LEMMA ReadStep ==
  ASSUME SyncIInv, NEW c \in Calls, ReadTable(c)
  PROVE  SyncIInv'
<1>1. UNCHANGED <<scope, committed, flying, given, view, mark, lowest, missed,
                  overtaken>> /\ call[c].stage = "sent"
  BY DEF ReadTable, tableVars, ghosts
<1>2. PICK got : /\ Answered(c, got)
                   /\ \/ got = HistoryOf(c).items
                      \/ \E p \in Short(Direction(c), HistoryOf(c)) : got = p.items
  BY DEF ReadTable
<1>. DEFINE s == call[c].since
            late == {k \in flying : \E i \in got : k < i}
<1>3. IsFront(Direction(c), Behind("asc", committed, s), got)
  BY <1>2, ReadFront DEF SyncIInv
<1>4. s \in Nat /\ Direction(c) = IF s = 0 THEN "desc" ELSE "asc"
  BY DEF Direction, SyncIInv, SyncTypes, CallRecord
<1>5. got \subseteq committed /\ committed \subseteq Nat /\ flying \subseteq Nat
      /\ committed \cap flying = {}
  BY <1>3 DEF IsFront, Behind, SyncIInv, SyncTypes
<1>6. ASSUME NEW k \in committed, NEW i \in got,
             IF s = 0 THEN i <= k ELSE s < k /\ k <= i
      PROVE  k \in got
  <2>1. k \in Behind("asc", committed, s)
    BY <1>4, <1>6 DEF Behind, Before
  <2>2. ~Before(Direction(c), i, k)
    BY <1>4, <1>5, <1>6 DEF Before
  <2> QED
    BY <1>3, <2>1, <2>2 DEF IsFront
<1>7. /\ call' = [d \in Calls |-> call'[d]]
      /\ \A d \in Calls \ {c} : call'[d] = call[d]
      /\ call'[c] = [stage |-> "answered", kind |-> call[c].kind, since |-> s,
                     have |-> call[c].have, items |-> got, late |-> late]
  <2>1. call = [d \in Calls |-> call[d]] /\ CallRecord(c)
    BY DEF SyncIInv, SyncTypes
  <2> QED
    BY <1>2, <2>1 DEF Answered, CallRecord
<1>8. SyncTypes'
  <2>1. CallRecord(c)'
    BY <1>1, <1>5, <1>7 DEF CallRecord, SyncIInv, SyncTypes
  <2>2. ASSUME NEW d \in Calls \ {c}
        PROVE  CallRecord(d)'
    BY <1>1, <1>7 DEF CallRecord, SyncIInv, SyncTypes
  <2>3. \A d \in Calls : call'[d].kind = call[d].kind
    BY <1>7
  <2> QED
    BY <1>1, <1>7, <2>1, <2>2, <2>3 DEF SyncIInv, SyncTypes, Calls
<1>9. PagesWhole'
  <2>1. ASSUME NEW k \in committed \cup flying, InPage(c, k)'
        PROVE  k \in got \cup late
    <3>1. PICK i \in got : k <= i
      BY <1>7, <2>1 DEF InPage
    <3>2. CASE k \in flying
      BY <1>5, <3>1, <3>2
    <3>3. CASE k \in committed
      BY <1>6, <1>7, <2>1, <3>1, <3>3 DEF InPage
    <3> QED
      BY <3>2, <3>3
  <2>2. ASSUME NEW d \in Calls \ {c}, NEW k \in committed \cup flying, InPage(d, k)',
               call'[d].stage = "answered"
        PROVE  k \in call'[d].items \cup call'[d].late
    BY <1>7, <2>2 DEF InPage, PagesWhole, SyncIInv
  <2> QED
    BY <1>1, <1>7, <2>1, <2>2 DEF PagesWhole
<1>10. LoadsFresh'
  <2>1. \A k : InHands(k)' <=> InHands(k)
    BY <1>1, <1>7 DEF InHands, Calls
  <2>2. ASSUME call[c].kind = "load", NEW k \in committed, NEW i \in got, ~(k < i)
        PROVE  k \in got
    <3>1. s = 0
      BY <2>2 DEF SyncIInv, SyncTypes, CallRecord
    <3> QED
      BY <1>5, <1>6, <2>2, <3>1
  <2> QED
    BY <1>1, <1>7, <2>1, <2>2 DEF LoadsFresh, SyncIInv, Calls
<1>11. MoresFresh'
  BY <1>1, <1>7 DEF MoresFresh, SyncIInv, Calls
<1> QED
  BY <1>1, <1>8, <1>9, <1>10, <1>11 DEF SyncIInv, FlyingMissed, ViewHasNoHole

\* An answer that arrives leaves the other calls alone, whatever it makes of the
\* view out of what was there and what it brings.
LEMMA ArriveStep ==
  ASSUME SyncIInv, NEW c \in Calls, NEW kind, NEW v, Arrive(c, kind, v),
         v \subseteq view \cup call[c].items \cup call[c].have,
         kind = "more" \/ v \subseteq view \cup call[c].items,
         kind = "more" => c \in Histories,
         mark' \in mark..given, lowest' \in Nat
  PROVE  /\ SyncTypes' /\ PagesWhole' /\ LoadsFresh' /\ MoresFresh'
         /\ overtaken \subseteq view' \cup overtaken' /\ view' = v
         /\ committed' = committed /\ flying' = flying
<1>1. /\ UNCHANGED <<scope, committed, flying, given>> /\ view' = v
      /\ call' = [call EXCEPT ![c] = NoCall] /\ call[c].kind = kind
      /\ overtaken' = Overtake({c}, call[c].items, v)
  BY DEF Arrive, tableVars
<1>2. call = [d \in Calls |-> call[d]] /\ \A d \in Calls : CallRecord(d)
  BY DEF SyncIInv, SyncTypes
<1>3. /\ call' = [d \in Calls |-> call'[d]] /\ call'[c] = NoCall
      /\ \A d \in Calls \ {c} : call'[d] = call[d]
  BY <1>1, <1>2
<1>4. given \in Nat /\ mark \in Nat /\ mark' \in 0..given /\ 0..mark \subseteq 0..mark'
      /\ 0 \in 0..mark'
  BY DEF SyncIInv, SyncTypes
<1>5. SyncTypes'
  <2>1. CallRecord(c)'
    BY <1>3, <1>4 DEF CallRecord, NoCall
  <2>2. ASSUME NEW d \in Calls \ {c}
        PROVE  CallRecord(d)'
    BY <1>1, <1>2, <1>3, <1>4 DEF CallRecord
  <2>3. view' \subseteq (1..given) \ flying
    BY <1>1, <1>2 DEF CallRecord, SyncIInv, SyncTypes
  <2>4. \A d \in Histories : call'[d].kind = "more" => call'[d].kind = call[d].kind
    BY <1>3 DEF Calls, NoCall
  <2> QED
    BY <1>1, <1>3, <1>4, <2>1, <2>2, <2>3, <2>4 DEF SyncIInv, SyncTypes
<1>6. PagesWhole'
  BY <1>1, <1>3 DEF PagesWhole, InPage, NoCall, SyncIInv
<1>7. LoadsFresh' /\ MoresFresh' /\ overtaken \subseteq view' \cup overtaken'
  <2>1. \A d \in Histories \ {c} : call'[d] = call[d]
    BY <1>3 DEF Calls
  <2>2. \A d \in Histories \cap {c} : call'[d] = NoCall
    BY <1>3
  <2>3. \A k \in view' : \/ k \in view \cup call[c].items
                         \/ \E d \in Histories \cap {c} :
                              call[d].kind = "more" /\ k \in call[d].have
    BY <1>1
  <2> QED
    BY <1>1, <2>1, <2>2, <2>3, ArrivalKeeps
<1> QED
  BY <1>1, <1>5, <1>6, <1>7

\* The cursor grows to the newest message of a batch.
LEMMA AdvanceIsLast ==
  ASSUME SyncTypes, NEW c \in Calls
  PROVE  /\ Advance(mark, call[c].items) \in mark..given
         /\ \A i \in call[c].items : i <= Advance(mark, call[c].items)
         /\ Advance(mark, call[c].items) \in {mark} \cup call[c].items
<1>1. given \in Nat /\ mark \in 0..given /\ call[c].items \subseteq 1..given
  BY DEF SyncTypes, CallRecord
<1>. DEFINE T == {mark} \cup call[c].items
<1>2. T \subseteq 0..given
  BY <1>1
<1>3. Max(T) \in T /\ \A y \in T : y <= Max(T)
  <2>1. T # {}
    OBVIOUS
  <2> HIDE DEF T
  <2> QED
    BY <1>1, <1>2, <2>1, MaxIsLast
<1> HIDE DEF T
<1>4. Max(T) \in 0..given /\ mark <= Max(T)
  BY <1>2, <1>3 DEF T
<1> QED
  BY <1>1, <1>3, <1>4 DEF Advance, T

\* A backfill: what it brings lies behind the cursor it was asked for, which is not
\* above the cursor now.
LEMMA MergeStep ==
  ASSUME SyncIInv, NEW c \in Fills, MergeBackfill(c)
  PROVE  SyncIInv'
<1>. DEFINE got == call[c].items
            since == call[c].since
<1>1. /\ Arrive(c, "fill", view \cup got) /\ mark' = Advance(mark, got)
      /\ lowest' = IF since = 0 /\ got # {} THEN Max({lowest, Min(got)}) ELSE lowest
      /\ missed' = missed \cup call[c].late
  BY DEF MergeBackfill
<1>2. c \in Calls /\ SyncTypes /\ CallRecord(c) /\ call[c].stage = "answered"
  BY <1>1 DEF Calls, SyncIInv, SyncTypes, Arrive
<1>3. /\ given \in Nat /\ mark \in 0..given /\ lowest \in Nat /\ since \in 0..mark
      /\ got \subseteq (1..given) \ flying /\ committed \cup flying \subseteq 1..given
  BY <1>2 DEF SyncTypes, CallRecord
<1>4. mark' \in mark..given /\ mark' \in {mark} \cup got
  BY <1>1, <1>2, AdvanceIsLast
<1>5. /\ lowest' \in Nat /\ lowest <= lowest'
      /\ since = 0 /\ got # {} => \E i \in got : i <= lowest'
  <2>1. CASE since = 0 /\ got # {}
    <3>1. Min(got) \in got
      BY <1>3, <2>1, MinIsFirst
    <3>. DEFINE T == {lowest, Min(got)}
                b == lowest + given
    <3>2. b \in Nat /\ T \subseteq 0..b /\ T # {}
      BY <1>3, <3>1
    <3>3. Max(T) \in T /\ \A y \in T : y <= Max(T)
      <4> HIDE DEF T, b
      <4> QED
        BY <3>2, MaxIsLast
    <3>4. lowest' = Max(T) /\ lowest \in T /\ Min(got) \in T
      BY <1>1, <2>1
    <3>5. lowest' \in 0..b
      BY <3>2, <3>3, <3>4
    <3> HIDE DEF T, b
    <3>6. lowest <= lowest' /\ Min(got) <= lowest'
      BY <3>3, <3>4
    <3> QED
      BY <3>1, <3>2, <3>5, <3>6
  <2>2. CASE ~(since = 0 /\ got # {})
    BY <1>1, <1>3, <2>2
  <2> QED
    BY <2>1, <2>2
<1>6. /\ SyncTypes' /\ PagesWhole' /\ LoadsFresh' /\ MoresFresh'
      /\ overtaken \subseteq view' \cup overtaken' /\ view' = view \cup got
      /\ committed' = committed /\ flying' = flying
  <2>. DEFINE v == view \cup got
  <2>1. v \subseteq view \cup call[c].items
    OBVIOUS
  <2> HIDE DEF v
  <2>2. v \subseteq view \cup call[c].items \cup call[c].have
    BY <2>1
  <2>3. Arrive(c, "fill", v)
    BY <1>1 DEF v
  <2>4. SyncTypes' /\ PagesWhole' /\ LoadsFresh' /\ MoresFresh'
        /\ overtaken \subseteq view' \cup overtaken' /\ view' = v
        /\ committed' = committed /\ flying' = flying
    BY <1>2, <1>4, <1>5, <2>1, <2>2, <2>3, ArriveStep
  <2> QED
    BY <2>4 DEF v
<1>7. ASSUME NEW k \in committed \cup flying, k \in lowest'..mark', ~(k <= mark)
      PROVE  k \in got \cup call[c].late
  <2>1. k \in 1..given /\ mark' \in got /\ k <= mark' /\ since < k
    BY <1>3, <1>4, <1>7
  <2>2. since = 0 => \E i \in got : i <= k
    <3> SUFFICES ASSUME since = 0
                 PROVE  \E i \in got : i <= k
      OBVIOUS
    <3>1. PICK i \in got : i <= lowest'
      BY <1>5, <2>1
    <3>2. i \in Nat /\ lowest' <= k
      BY <1>3, <1>5, <1>7
    <3> QED
      BY <1>5, <2>1, <3>1, <3>2
  <2>3. InPage(c, k)
    BY <2>1, <2>2 DEF InPage
  <2> QED
    BY <1>2, <2>3 DEF SyncIInv, PagesWhole
<1>8. \A k \in committed \cup flying :
        k \in lowest'..mark' /\ k <= mark => k \in lowest..mark
  BY <1>3, <1>5
<1>9. FlyingMissed'
  BY <1>1, <1>3, <1>6, <1>7, <1>8 DEF FlyingMissed, SyncIInv
<1>10. ViewHasNoHole'
  BY <1>1, <1>6, <1>7, <1>8 DEF ViewHasNoHole, SyncIInv
<1> QED
  BY <1>6, <1>9, <1>10 DEF SyncIInv

\* A load: below its newest message the page is whole, above it the view was, and
\* what the load takes from the view there is overtaken.
LEMMA SetStep ==
  ASSUME SyncIInv, NEW c \in Histories, SetHistory(c)
  PROVE  SyncIInv'
<1>. DEFINE got == call[c].items
<1>1. /\ Arrive(c, "load", got) /\ mark' = Advance(mark, got)
      /\ lowest' = IF got = {} THEN mark + 1
                   ELSE IF Max(got) < lowest THEN lowest ELSE Min(got)
      /\ missed' = missed \cup call[c].late
  BY DEF SetHistory
<1>2. /\ c \in Calls /\ SyncTypes /\ CallRecord(c)
      /\ call[c].stage = "answered" /\ call[c].kind = "load"
  BY <1>1 DEF Calls, SyncIInv, SyncTypes, Arrive
<1>3. /\ given \in Nat /\ mark \in 0..given /\ lowest \in Nat /\ call[c].since = 0
      /\ got \subseteq (1..given) \ flying /\ committed \cup flying \subseteq 1..given
  BY <1>2 DEF SyncTypes, CallRecord
<1>4. mark' \in mark..given /\ mark' \in {mark} \cup got
  BY <1>1, <1>2, AdvanceIsLast
<1>5. got # {} => /\ Min(got) \in got /\ Max(got) \in got
                    /\ \A i \in got : i <= Max(got)
  <2> SUFFICES ASSUME got # {}
               PROVE  /\ Min(got) \in got /\ Max(got) \in got
                      /\ \A i \in got : i <= Max(got)
    OBVIOUS
  <2>1. got \subseteq Nat /\ got \subseteq 0..given
    BY <1>3
  <2> HIDE DEF got
  <2> QED
    BY <1>3, <2>1, MinIsFirst, MaxIsLast
<1>6. lowest' \in Nat
  BY <1>1, <1>3, <1>5
<1>7. /\ SyncTypes' /\ PagesWhole' /\ LoadsFresh' /\ MoresFresh'
      /\ overtaken \subseteq view' \cup overtaken' /\ view' = got
      /\ committed' = committed /\ flying' = flying
  BY <1>1, <1>2, <1>4, <1>6, ArriveStep
<1>8. ASSUME NEW k \in committed \cup flying, k \in lowest'..mark'
      PROVE  \/ k \in got \cup call[c].late
             \/ k \in lowest..mark /\ \E i \in got : i < k
  <2>1. k \in 1..given /\ lowest' <= k /\ k <= mark'
    BY <1>3, <1>4, <1>6, <1>8
  <2>2. got # {}
    BY <1>1, <1>3, <1>4, <2>1
  <2>3. Max(got) \in 1..given /\ Min(got) \in 1..given /\ mark \in Nat
    BY <1>3, <1>5, <2>2
  <2>4. CASE k <= Max(got)
    <3>1. lowest' = Min(got)
      BY <1>1, <1>3, <2>1, <2>2, <2>3, <2>4
    <3>2. InPage(c, k)
      BY <1>3, <1>5, <2>1, <2>2, <2>4, <3>1 DEF InPage
    <3> QED
      BY <1>2, <3>2 DEF SyncIInv, PagesWhole
  <2>5. CASE ~(k <= Max(got))
    <3>1. Max(got) < k
      BY <2>1, <2>3, <2>5
    <3>2. mark' = mark
      <4>1. mark' \in got => mark' <= Max(got) /\ mark' \in Nat
        BY <1>3, <1>5, <2>2
      <4> QED
        BY <1>4, <2>1, <2>3, <3>1, <4>1
    <3>3. lowest <= k
      BY <1>1, <1>3, <2>1, <2>2, <2>3, <3>1
    <3> QED
      BY <1>3, <1>5, <2>1, <2>2, <3>1, <3>2, <3>3
  <2> QED
    BY <2>4, <2>5
<1>9. FlyingMissed'
  BY <1>1, <1>3, <1>7, <1>8 DEF FlyingMissed, SyncIInv
<1>10. ViewHasNoHole'
  <2> SUFFICES ASSUME NEW k \in committed, k \in lowest'..mark'
               PROVE  k \in view' \cup missed' \cup overtaken'
    BY <1>7 DEF ViewHasNoHole
  <2>1. CASE k \in got \cup call[c].late
    BY <1>1, <1>7, <2>1
  <2>2. ASSUME k \in lowest..mark, NEW i \in got, i < k
        PROVE  k \in view' \cup missed' \cup overtaken'
    <3>1. k \in view \cup missed \cup overtaken
      BY <2>2 DEF SyncIInv, ViewHasNoHole
    <3>2. k \in view => k \in overtaken \cup got
      <4>1. ~(k < i)
        BY <1>3, <2>2
      <4> QED
        BY <1>2, <4>1 DEF SyncIInv, LoadsFresh, InHands
    <3> QED
      BY <1>1, <1>7, <3>1, <3>2
  <2> QED
    BY <1>8, <2>1, <2>2
<1> QED
  BY <1>7, <1>9, <1>10 DEF SyncIInv

\* A load of older messages: it puts back what was in the view when it was sent.
LEMMA PrependStep ==
  ASSUME SyncIInv, NEW c \in Histories, PrependOlder(c)
  PROVE  SyncIInv'
<1>. DEFINE got == call[c].items
            have  == call[c].have
            v     == IF got \ have # {} THEN (got \ have) \cup have ELSE view
<1>1. Arrive(c, "more", v) /\ UNCHANGED <<mark, lowest, missed>>
  BY DEF PrependOlder
<1>2. c \in Calls /\ call[c].kind = "more"
  BY <1>1 DEF Calls, Arrive
<1>3. mark' \in mark..given /\ lowest' \in Nat
  BY <1>1 DEF SyncIInv, SyncTypes
<1>4. v \subseteq view \cup got \cup have
  OBVIOUS
<1>5. /\ SyncTypes' /\ PagesWhole' /\ LoadsFresh' /\ MoresFresh'
      /\ overtaken \subseteq view' \cup overtaken' /\ view' = v
      /\ committed' = committed /\ flying' = flying
  <2> HIDE DEF v
  <2> QED
    BY <1>1, <1>2, <1>3, <1>4, ArriveStep
<1>6. view \subseteq view' \cup overtaken
  <2>1. view \subseteq overtaken \cup have
    BY <1>2 DEF SyncIInv, MoresFresh
  <2> QED
    BY <1>5, <2>1
<1> QED
  BY <1>1, <1>5, <1>6 DEF SyncIInv, FlyingMissed, ViewHasNoHole

-----------------------------------------------------------------------------
\* The reachable states of a tab: an answer that is on its way is whole over the
\* stretch it covers, a load that is out can take away only what is marked as
\* overtaken, and every seq in flight below the cursor is marked as missed.
THEOREM SyncInductive == SyncSpec => []SyncIInv
<1>1. SyncIInv /\ [SyncNext]_syncVars => SyncIInv'
  <2> SUFFICES ASSUME SyncIInv, [SyncNext]_syncVars
               PROVE  SyncIInv'
    OBVIOUS
  <2>1. CASE TakeSeq \/ \E k \in Seqs : CommitSeq(k) \/ DeleteMessage(k)
    BY <2>1, TableStep
  <2>2. CASE \/ \E k \in Seqs : AppendMessage(k) \/ RemoveMessage(k)
             \/ \E m \in 0..MaxSeq : Reload(m)
    BY <2>2, StoreStep
  <2>3. CASE \/ \E c \in Fills : BackfillAll(c)
             \/ \E c \in Histories : LoadHistory(c) \/ LoadMore(c)
             \/ \E c \in Calls : CallFails(c)
    BY <2>3, SendStep
  <2>4. CASE \E c \in Calls : ReadTable(c)
    BY <2>4, ReadStep
  <2>5. CASE \E c \in Fills : MergeBackfill(c)
    BY <2>5, MergeStep
  <2>6. CASE \E c \in Histories : SetHistory(c) \/ PrependOlder(c)
    BY <2>6, SetStep, PrependStep
  <2>7. CASE UNCHANGED syncVars
    <3>1. UNCHANGED <<scope, committed, flying, given, view, mark, call, lowest, missed,
                      overtaken>>
      BY <2>7 DEF syncVars, tableVars, ghosts
    <3> QED
      BY <3>1 DEF SyncIInv, SyncTypes, CallRecord, PagesWhole, InPage, LoadsFresh, InHands,
                  MoresFresh, FlyingMissed, ViewHasNoHole
  <2> QED
    BY <2>1, <2>2, <2>3, <2>4, <2>5, <2>6, <2>7 DEF SyncNext, Poll, Calls
<1> QED
  BY <1>1, SyncInitial, PTL DEF SyncSpec

\* Whatever the order in which pushes, polls, loads of history, commits and
\* deletions meet in a tab, and however often calls fail, break off or the tab is
\* loaded again, mergeByIdSeq, the set of loadHistory and handleScroll, and the
\* advance of the cursor leave no hole in the view: a committed message between the
\* oldest one loaded and the cursor is shown, unless it was not committed when the
\* page around it was read, or came while a history request was out.
THEOREM NoHoleIsLeft == SyncSpec => []ViewHasNoHole
<1>1. SyncIInv => ViewHasNoHole
  BY DEF SyncIInv
<1> QED
  BY <1>1, SyncInductive, PTL
=============================================================================
