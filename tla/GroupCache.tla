------------------------------ MODULE GroupCache ------------------------------
(***************************************************************************)
(* One node's groupcache.Cache and the handlers that use it: the lruCache  *)
(* with its map and its list, the RWMutex, the singleflight group, the     *)
(* filler that reads the table, and the writers that go to the table first *)
(* and drop (UserCache) or set (CommunityCache) the entry afterwards.      *)
(*                                                                         *)
(* lruCache.Get moves an element of container/list while its caller holds  *)
(* the read lock only, so hits run at once: the list is kept as pointers   *)
(* and a move is taken assignment by assignment.                           *)
(***************************************************************************)
EXTENDS Naturals, Sequences, SequencesExt, FiniteSets

CONSTANTS Keys, Procs, None,
          Gens,        \* list elements a key has in turn
          Root,        \* the sentinel of the list
          Capacity,    \* WithLocalCapacity
          Written,     \* keys whose rows are created or updated; others have one
          MaxVersion   \* bound on the versions of a row

ASSUME CacheAssumption ==
  /\ Capacity \in Nat \ {0} /\ MaxVersion \in Nat \ {0} /\ Written \subseteq Keys
  /\ None \notin Procs

VARIABLES db,      \* db[k]: the committed version of the row, 0 for none
          items,   \* items[k]: the entry [elem, val] of the map, or None
          link,    \* the pointers next and prev of Root and of the elements
          member,  \* elements whose list field is set; its size is Len()
          flight,  \* flight[k]: the leader of the singleflight call, or None
          op,      \* op[p]: what p is doing
          ans,     \* ans[p]: the version p was last told, 0 for an error
          jam,     \* the write lock is held for ever
          raced,   \* two hits moved elements at the same time
          recent,  \* keys by last use, while nothing has raced
          excuse   \* excuse[k]: k's entry is old for a reason the code accepts

\* An element is made for one key; its number sets it apart from earlier ones.
Elems == Keys \X Gens

lru  == <<items, link, member>>
hist == <<raced, recent, excuse>>
vars == <<db, items, link, member, flight, op, ans, jam, raced, recent, excuse>>

Idle == [pc |-> "idle", key |-> None, val |-> 0, stage |-> 0, lead |-> FALSE]

Init ==
  /\ db \in [Keys -> {0, 1}] /\ \A k \in Keys \ Written : db[k] = 1
  /\ items = [k \in Keys |-> None]
  /\ link = [e \in Elems \cup {Root} |->
               IF e = Root THEN [next |-> Root, prev |-> Root]
                           ELSE [next |-> None, prev |-> None]]
  /\ member = {} /\ flight = [k \in Keys |-> None]
  /\ op = [p \in Procs |-> Idle] /\ ans = [p \in Procs |-> 0]
  /\ jam = FALSE /\ raced = FALSE /\ recent = <<>>
  /\ excuse = [k \in Keys |-> FALSE]

-----------------------------------------------------------------------------
(* container/list *)

\* The assignments of (*List).move(e, &root), in order.
Assign(l, e, n) ==
  CASE n = 1 -> [l EXCEPT ![l[e].prev].next = l[e].next]
    [] n = 2 -> [l EXCEPT ![l[e].next].prev = l[e].prev]
    [] n = 3 -> [l EXCEPT ![e].prev = Root]
    [] n = 4 -> [l EXCEPT ![e].next = l[Root].next]
    [] n = 5 -> [l EXCEPT ![l[e].prev].next = e]
    [] n = 6 -> [l EXCEPT ![l[e].next].prev = e]

AssignAll(l, e, from, to) == FoldLeft(LAMBDA m, n : Assign(m, e, n), l,
                                      [i \in 1..(to - from + 1) |-> from + i - 1])

\* A queue, not an LRU list.
LeaveInPlace(l, e) == l

MoveToFront(l, e) == IF l[Root].next = e THEN l ELSE AssignAll(l, e, 1, 6)

PushFront(l, e) == AssignAll(l, e, 3, 6)

Unlink(l, e) == [AssignAll(l, e, 1, 2) EXCEPT ![e] = [next |-> None, prev |-> None]]

\* A new element for k: one nothing points to.
Fresh(k) == CHOOSE e \in {k} \X Gens :
              \A x \in Elems \cup {Root} : e \notin {link[x].next, link[x].prev}

-----------------------------------------------------------------------------
(* lruCache, inside the write lock *)

KeyOf(e) == e[1]

Without(s, k) == SelectSeq(s, LAMBDA x : x # k)
Used(k) == IF raced THEN <<>> ELSE <<k>> \o Without(recent, k)

Excused(k, v) == [excuse EXCEPT ![k] = v < db[k]]

\* Add, up to the loop: a known key is overwritten and moved to the front, a new
\* one is pushed to the front.
Add(k, v) ==
  \/ /\ items[k] # None
     /\ items' = [items EXCEPT ![k].val = v]
     /\ link' = MoveToFront(link, items[k].elem)
     /\ UNCHANGED member
  \/ /\ items[k] = None
     /\ items' = [items EXCEPT ![k] = [elem |-> Fresh(k), val |-> v]]
     /\ link' = PushFront(link, Fresh(k))
     /\ member' = member \cup {Fresh(k)}

LruRemove(k) ==
  IF items[k] = None THEN UNCHANGED <<items, link, member, recent>>
  ELSE /\ items' = [items EXCEPT ![k] = None]
       /\ link' = Unlink(link, items[k].elem) /\ member' = member \ {items[k].elem}
       /\ recent' = Without(recent, k)

\* Who is in the loop of Add holds the write lock.
Readers == {p \in Procs : op[p].pc = "move"}
Evictors == {p \in Procs : op[p].pc = "evict"}
ReadLock == ~jam /\ Evictors = {}
WriteLock == ReadLock /\ Readers = {}

-----------------------------------------------------------------------------
(* Cache.Get *)

Call(p, k) ==
  /\ op[p].pc = "idle"
  /\ op' = [op EXCEPT ![p] = [Idle EXCEPT !.pc = "look", !.key = k]]
  /\ ans' = [ans EXCEPT ![p] = 0]
  /\ UNCHANGED <<db, lru, flight, jam, hist>>

\* The flight lands for its leader alone.
LandAlone(p, v) ==
  LET k == op[p].key IN
  /\ ans' = [ans EXCEPT ![p] = v]
  /\ op' = [op EXCEPT ![p] = Idle]
  /\ flight' = IF op[p].lead THEN [flight EXCEPT ![k] = None] ELSE flight

\* p returns v; if it leads a flight, so do those who wait for it.
Land(p, v) ==
  LET k == op[p].key
      told == {p} \cup {q \in Procs : op[p].lead /\ op[q].pc = "wait" /\ op[q].key = k}
  IN /\ ans' = [q \in Procs |-> IF q \in told THEN v ELSE ans[q]]
     /\ op' = [q \in Procs |-> IF q \in told THEN Idle ELSE op[q]]
     /\ flight' = IF op[p].lead THEN [flight EXCEPT ![k] = None] ELSE flight

\* The first look, and the second one inside the flight.  lruCache.Get has
\* nothing to move when the element is the first one of the list; otherwise the
\* move goes on under the read lock.  Bound: moves overlap once; after that they
\* are taken one at a time, whole.
Look(p) ==
  LET k == op[p].key IN
  /\ op[p].pc \in {"look", "look2"} /\ ReadLock
  /\ \/ /\ items[k] = None
        /\ op' = [op EXCEPT ![p].pc = IF @ = "look" THEN "join" ELSE "fill"]
        /\ UNCHANGED <<ans, flight, recent>>
        /\ UNCHANGED link
     \/ /\ items[k] # None /\ link[Root].next # items[k].elem /\ ~raced
        /\ op' = [op EXCEPT ![p].pc = "move", ![p].stage = 1]
        /\ UNCHANGED <<ans, flight, recent, link>>
     \/ /\ items[k] # None /\ (link[Root].next = items[k].elem \/ raced)
        /\ raced => Readers = {}
        /\ link' = MoveToFront(link, items[k].elem)
        /\ Land(p, items[k].val)
        /\ recent' = Used(k)
  /\ UNCHANGED <<db, items, member, jam, raced, excuse>>

\* Do: the first caller leads, the others wait for its result.
Join(p) ==
  LET k == op[p].key IN
  /\ op[p].pc = "join"
  /\ \/ /\ flight[k] = None
        /\ flight' = [flight EXCEPT ![k] = p]
        /\ op' = [op EXCEPT ![p].pc = "look2", ![p].lead = TRUE]
     \/ /\ flight[k] # None
        /\ op' = [op EXCEPT ![p].pc = "wait"]
        /\ UNCHANGED flight
  /\ UNCHANGED <<db, lru, ans, jam, hist>>

\* The assignments of move; after the last one the value is read and the lock
\* released.
Move(p) ==
  LET k == op[p].key
      n == op[p].stage
  IN /\ op[p].pc = "move"
     /\ link' = Assign(link, items[k].elem, n)
     /\ raced' = (raced \/ Readers # {p})
     /\ \/ /\ n < 6
           /\ op' = [op EXCEPT ![p].stage = n + 1]
           /\ recent' = IF raced' THEN <<>> ELSE recent
           /\ UNCHANGED <<ans, flight>>
        \/ /\ n = 6
           /\ Land(p, items[k].val)
           /\ recent' = IF raced' THEN <<>> ELSE Used(k)
     /\ UNCHANGED <<db, items, member, jam, excuse>>

\* A missing row is stored like any other.
FillUnchecked(p) ==
  /\ op[p].pc = "fill"
  /\ op' = [op EXCEPT ![p].pc = "store", ![p].val = db[op[p].key]]
  /\ UNCHANGED <<db, lru, flight, ans, jam, hist>>

\* The filler.  Whoever owns the key by its hash, it is called here.
Fill(p) ==
  LET k == op[p].key IN
  /\ op[p].pc = "fill" /\ db[k] > 0
  /\ op' = [op EXCEPT ![p].pc = "store", ![p].val = db[k]]
  /\ UNCHANGED <<db, lru, flight, ans, jam, hist>>

\* No row, or an error of the query, or the context of the leader is cancelled:
\* all who wait get the error.
FillFails(p) ==
  /\ op[p].pc = "fill"
  /\ Land(p, 0)
  /\ UNCHANGED <<db, lru, jam, hist>>

\* c.lru.Add(key, val), from a fill or from a Set.
AddEntry(p) ==
  LET k == op[p].key
      v == op[p].val
  IN /\ WriteLock /\ Add(k, v)
     /\ recent' = Used(k) /\ excuse' = Excused(k, v)
     /\ IF items[k] # None THEN Land(p, v)
        ELSE op' = [op EXCEPT ![p].pc = "evict"] /\ UNCHANGED <<ans, flight>>
     /\ UNCHANGED <<db, jam, raced>>

Store(p) == op[p].pc = "store" /\ AddEntry(p)

\* One round of the loop that makes room.  If the back is the root, the type
\* assertion panics: Get has not deferred its Unlock and leaves the lock taken,
\* Set gives it back and the cache goes on, one entry too long; either way the
\* caller, and who waits for its flight, gets an error.  If the back is no
\* element of the list any more, Remove does nothing, and the loop never ends.
Evict(p) ==
  LET back == link[Root].prev IN
  /\ op[p].pc = "evict" /\ ~jam
  /\ \/ /\ Cardinality(member) <= Capacity
        /\ Land(p, op[p].val)
        /\ UNCHANGED <<lru, jam, recent>>
     \/ /\ Cardinality(member) > Capacity /\ back \in member
        /\ items' = [items EXCEPT ![KeyOf(back)] = None]
        /\ link' = Unlink(link, back) /\ member' = member \ {back}
        /\ recent' = Without(recent, KeyOf(back))
        /\ UNCHANGED <<op, ans, flight, jam>>
     \/ /\ Cardinality(member) > Capacity /\ back = Root
        /\ jam' = op[p].lead
        /\ Land(p, 0)
        /\ UNCHANGED <<lru, recent>>
     \/ /\ Cardinality(member) > Capacity /\ back \notin member \cup {Root}
        /\ jam' = TRUE
        /\ items' = [items EXCEPT ![KeyOf(back)] = None]
        /\ UNCHANGED <<link, member, recent, op, ans, flight>>
  /\ UNCHANGED <<db, raced, excuse>>

-----------------------------------------------------------------------------
(* The writers *)

\* The row is written and the entry stays.
WriteOnly(p, k) ==
  /\ op[p].pc = "idle" /\ db[k] \in 1..(MaxVersion - 1)
  /\ db' = [db EXCEPT ![k] = @ + 1]
  /\ op' = [op EXCEPT ![p] = [Idle EXCEPT !.pc = "reread", !.key = k]]
  /\ UNCHANGED <<lru, flight, ans, jam, hist>>

\* UpdateProfile: the UPDATE, then Invalidate, then the row is read again.
Update(p, k) ==
  /\ op[p].pc = "idle" /\ db[k] \in 1..(MaxVersion - 1)
  /\ db' = [db EXCEPT ![k] = @ + 1]
  /\ op' = [op EXCEPT ![p] = [Idle EXCEPT !.pc = "drop", !.key = k]]
  /\ UNCHANGED <<lru, flight, ans, jam, hist>>

Invalidate(p) ==
  LET k == op[p].key IN
  /\ op[p].pc = "drop" /\ WriteLock
  /\ LruRemove(k)
  /\ op' = [op EXCEPT ![p].pc = "reread"]
  /\ excuse' = [excuse EXCEPT ![k] = FALSE]
  /\ UNCHANGED <<db, flight, ans, jam, raced>>

\* The answer is the row as it is now, or Internal although the row is written.
Reread(p) ==
  /\ op[p].pc = "reread"
  /\ \E v \in {0, db[op[p].key]} : ans' = [ans EXCEPT ![p] = v]
  /\ op' = [op EXCEPT ![p] = Idle]
  /\ UNCHANGED <<db, lru, flight, jam, hist>>

\* CreateCommunity: the row is inserted, then set in the cache.
Create(p, k) ==
  /\ op[p].pc = "idle" /\ db[k] = 0
  /\ db' = [db EXCEPT ![k] = 1]
  /\ op' = [op EXCEPT ![p] = [Idle EXCEPT !.pc = "set", !.key = k, !.val = 1]]
  /\ UNCHANGED <<lru, flight, ans, jam, hist>>

Set(p) == op[p].pc = "set" /\ AddEntry(p)

\* An update through another node invalidates that node's cache only.
UpdateElsewhere(k) ==
  /\ db[k] \in 1..(MaxVersion - 1)
  /\ db' = [db EXCEPT ![k] = @ + 1]
  /\ excuse' = [excuse EXCEPT ![k] = TRUE]
  /\ UNCHANGED <<lru, flight, op, ans, jam, raced, recent>>

-----------------------------------------------------------------------------
Step(p) == \/ Look(p) \/ Join(p) \/ Move(p) \/ Fill(p) \/ FillFails(p) \/ Store(p)
           \/ Evict(p) \/ Invalidate(p) \/ Reread(p) \/ Set(p)

Next ==
  \/ \E p \in Procs : Step(p)
  \/ \E p \in Procs, k \in Keys : Call(p, k)
  \/ \E p \in Procs, k \in Written : Update(p, k) \/ Create(p, k)
  \/ \E k \in Written : UpdateElsewhere(k)

Spec == Init /\ [][Next]_vars

-----------------------------------------------------------------------------
(* Properties *)

\* Unless two hits have moved elements at the same time under the read lock,
\* the list links exactly the entries of the map, most recently used first, in
\* both directions: what Add removes is the entry that has not been used for
\* longest, an Add leaves no more entries than the capacity, and none blocks the
\* cache.  Even then, unless the lock is lost, the map has one entry for each
\* element of the list.
LruOrder ==
  /\ ~jam =>
    /\ \A k \in Keys : items[k] # None => items[k].elem \in member
    /\ Cardinality(member) = Cardinality({k \in Keys : items[k] # None})
  /\ ~raced =>
    /\ ~jam
    /\ Evictors = {} => Cardinality(member) <= Capacity
    /\ Readers = {} =>
         LET ring == <<Root>> \o [i \in 1..Len(recent) |-> items[recent[i]].elem] \o <<Root>>
         IN /\ Range(recent) = {k \in Keys : items[k] # None}
            /\ \A i \in 1..(Len(ring) - 1) : /\ link[ring[i]].next = ring[i + 1]
                                             /\ link[ring[i + 1]].prev = ring[i]

\* Whoever waits for a flight waits for a leader that has not returned, and no
\* key has two flights: no follower is left behind by a leader that is done,
\* whatever it met, a panic included.  A leader that waits for a lost lock keeps
\* its followers waiting with it.
WaitersHaveLeader ==
  /\ \A p \in Procs : op[p].pc = "wait" => flight[op[p].key] # None
  /\ \A k \in Keys : flight[k] # None =>
       op[flight[k]].lead /\ op[flight[k]].key = k
  /\ \A p \in Procs : op[p].lead => flight[op[p].key] = p

\* An entry older than its row is about to be dropped, or was stored by a fill
\* or a Set that overlapped an update, or the row was updated through another
\* node.
StaleIsExplained ==
  \A k \in Keys : items[k] # None /\ items[k].val < db[k] =>
    excuse[k] \/ \E p \in Procs : op[p].pc = "drop" /\ op[p].key = k

\* The versions a caller may still be given: the entry's, and the one a flight,
\* or a Set, has in its hands.
Servable == [k \in Keys |->
  (IF items[k] = None THEN {} ELSE {items[k].val}) \cup
  {op[p].val : p \in {q \in Procs : op[q].pc \in {"store", "set", "evict"} /\ op[q].key = k}}]

RT == INSTANCE ReadThrough WITH servable <- Servable

\* The cache with its list, lock and flights implements the read-through cache:
\* every answer is a version that was committed when it was loaded, and a
\* version that has been dropped is not served again.
ImplementsReadThrough == RT!Spec

\* "Evicts the least recently used entry if the cache exceeds maxSize."  The
\* eviction of Add ends.
EvictionEnds == ~jam
=============================================================================
