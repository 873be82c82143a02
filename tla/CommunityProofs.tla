--------------------------- MODULE CommunityProofs ---------------------------
(* Proofs about Community, for any users, nodes, requests, channels, page     *)
(* size and faults.                                                          *)
EXTENDS Community, TLAPS

(* A request that has arrived has a call, and one that waits in a            *)
(* singleflight call is at that Get, on that node.                          *)
Placed ==
  /\ \A r \in Reqs : pc[r] # "idle" => call[r] \in Calls
  /\ \A n \in Nodes, k \in Keys : \A r \in waiters[n][k] :
       pc[r] = k /\ call[r].node = n

(* Only a live community has live channels, and it is inserted once, by the   *)
(* first request.                                                           *)
CreatedOnce ==
  /\ \A c \in Channels : channels[c] = "live" => community = "live"
  /\ \A r \in Reqs : pc[r] = "row" =>
       community = "none" /\ \A q \in Reqs \ {r} : pc[q] = "idle"

(* The row a process caches names the owner: no other is let through the      *)
(* owner's door of checkPermission, and the owner is never the one removed.   *)
OwnerKnown ==
  /\ \A n \in Nodes : /\ cache[n]["community"] \in {None, {Owner}}
                      /\ fetched[n]["community"] \in {None, {Owner}}
  /\ \A r \in Reqs : pc[r] = "remove" => call[r].target # Owner

(* A role belongs to a member; a running request of a member is present. *)
RolesAndPresence ==
  /\ assigned \subseteq members
  /\ \A r \in Reqs : Running(r) /\ call[r].user \in members => present[r]

(* A list that names the owner was read while the owner was a member. *)
Names(L) == L # None /\ Owner \in L
OwnerNamed(n) == Names(cache[n]["members"]) \/ Names(fetched[n]["members"])

OwnerListed ==
  \A n \in Nodes : OwnerNamed(n) => Owner \in members \/ community = "gone"

(* The steps of SendMessage and GetMessages, and who gets past their checks. *)
Guarded(r) == pc[r] # "idle" /\ call[r].kind \in {"send", "read"}

Checked ==
  \A r \in Reqs : Guarded(r) =>
    /\ pc[r] \in {"channel", "members", "community", "roles", "act"} \cup Ended
    /\ pc[r] \in {"act", "ok"} => present[r]
    /\ pc[r] = "community" /\ call[r].user = Owner => present[r]
    /\ pc[r] = "members" /\ call[r].user = Owner /\ ~ present[r] =>
         \A n \in Nodes : ~ OwnerNamed(n)

(* What StaleListExplained says of the list in the cache, of the one in flight. *)
FetchExplained ==
  \A n \in Nodes :
    \/ fetched[n]["members"] \in {None, Listed(members)}
    \/ n \in behind \/ Invalidating(n)

IInv == /\ TypeOK /\ Placed /\ CreatedOnce /\ OwnerKnown /\ RolesAndPresence
        /\ OwnerListed /\ Checked /\ MembersHaveRole
        /\ StaleListExplained /\ FetchExplained

-----------------------------------------------------------------------------
(* Facts about the operators. *)
LEMMA ListedSubset ==
  \A S \in SUBSET Users : Listed(S) \in SUBSET Users /\ Listed(S) \subseteq S
BY DEF Listed

(* Replacing one entry of a table by node and key changes that entry only. *)
LEMMA UpdateType ==
  ASSUME NEW S, NEW f \in [Nodes -> [Keys -> S]], NEW n \in Nodes, NEW k \in Keys,
         NEW v \in S
  PROVE  /\ [f EXCEPT ![n][k] = v] \in [Nodes -> [Keys -> S]]
         /\ [f EXCEPT ![n][k] = v][n][k] = v
         /\ \A m \in Nodes, j \in Keys :
              m # n \/ j # k => [f EXCEPT ![n][k] = v][m][j] = f[m][j]
OBVIOUS

(* The fault counter stays within its bound. *)
LEMMA FaultType ==
  ASSUME TypeOK, Fault \/ UNCHANGED faults PROVE faults' \in 0..MaxFaults
BY CommunityAssumption DEF TypeOK, Fault

(* Where a handler goes after a Get: only the owner passes by the roles, and   *)
(* the owner is not the one removed.                                        *)
LEMMA AfterCommunityFacts ==
  ASSUME NEW c \in Calls
  PROVE  /\ AfterCommunity(c, {Owner})
              \in {"public", "act", "denied", "remove", "roles"}
         /\ AfterCommunity(c, {Owner}) = "remove" => c.target # Owner
         /\ c.kind \in {"send", "read"} => AfterCommunity(c, {Owner}) =
              IF c.user = Owner THEN "act" ELSE "roles"
<1>1. CASE c.kind = "join"
  BY <1>1 DEF AfterCommunity
<1>2. CASE c.kind = "delete"
  BY <1>2 DEF AfterCommunity
<1>3. CASE c.kind = "leave"
  BY <1>3 DEF AfterCommunity
<1>4. CASE c.kind = "kick"
  BY <1>4 DEF AfterCommunity
<1>5. CASE c.kind \notin {"join", "delete", "leave", "kick"}
  BY <1>5 DEF AfterCommunity
<1>. QED
  BY <1>1, <1>2, <1>3, <1>4, <1>5

(* The steps a handler may be at after the Get of a key. *)
Moved == {"community", "notmember", "public", "act", "denied", "remove", "roles"}

(* The same for a Get of either key: members leads on to the community row. *)
LEMMA AfterGetFacts ==
  ASSUME NEW c \in Calls, NEW k \in Keys, NEW v,
         k = "community" => v = {Owner}
  PROVE  /\ AfterGet(c, k, v) \in Moved
         /\ AfterGet(c, k, v) = "remove" => c.target # Owner
         /\ k = "members" => AfterGet(c, k, v) =
              IF c.user \in v THEN "community" ELSE "notmember"
         /\ k = "community" /\ c.kind \in {"send", "read"} =>
              AfterGet(c, k, v) = IF c.user = Owner THEN "act" ELSE "roles"
<1>1. CASE k = "members"
  BY <1>1 DEF AfterGet, AfterMembers, Moved
<1>2. CASE k = "community"
  BY <1>2, AfterCommunityFacts DEF AfterGet, Moved
<1>. QED
  BY <1>1, <1>2 DEF Keys

-----------------------------------------------------------------------------
(* The initial states. *)
LEMMA InitIInv == Init => IInv
<1> SUFFICES ASSUME Init PROVE IInv
  OBVIOUS
<1>1. TypeOK
  <2>1. faults \in 0..MaxFaults
    BY CommunityAssumption DEF Init
  <2>2. channels \in [Channels -> {"none", "live", "gone"}] /\ role \in BOOLEAN
    BY DEF Init
  <2>3. members \in SUBSET Users
    BY CommunityAssumption DEF Init
  <2>4. \A n \in Nodes, k \in Keys : cache[n][k] \in {None} \cup SUBSET Users
    BY <2>3, ListedSubset DEF Init
  <2>5. cache \in [Nodes -> [Keys -> {None} \cup SUBSET Users]]
    BY <2>4 DEF Init
  <2>6. /\ waiters \in [Nodes -> [Keys -> SUBSET Reqs]]
        /\ fetched \in [Nodes -> [Keys -> {None} \cup SUBSET Users]]
    BY DEF Init
  <2>7. /\ call \in [Reqs -> {None} \cup Calls]
        /\ pc \in [Reqs -> Steps \cup Ended]
        /\ present \in [Reqs -> BOOLEAN]
    BY DEF Init, Steps
  <2>8. /\ community \in {"none", "live", "gone"} /\ assigned \in SUBSET Users
        /\ behind \in SUBSET Nodes /\ roleless \in SUBSET Users
    BY <2>3 DEF Init
  <2>. QED
    BY <2>1, <2>2, <2>3, <2>5, <2>6, <2>7, <2>8 DEF TypeOK
<1>2. Placed /\ CreatedOnce /\ OwnerKnown
  BY DEF Init, Placed, CreatedOnce, OwnerKnown, Keys
<1>3. RolesAndPresence /\ OwnerListed /\ Checked /\ MembersHaveRole
  BY DEF Init, RolesAndPresence, Running, OwnerListed, OwnerNamed, Names, Checked,
         Guarded, MembersHaveRole, Keys
<1>4. StaleListExplained /\ FetchExplained
  BY DEF Init, StaleListExplained, FetchExplained, Keys
<1>. QED
  BY <1>1, <1>2, <1>3, <1>4 DEF IInv

-----------------------------------------------------------------------------
(* What a step leaves alone keeps the parts of the invariant about it. *)
LEMMA RoleFrame ==
  ASSUME MembersHaveRole,
         members' \ (assigned' \cup roleless' \cup {Owner})
           \subseteq members \ (assigned \cup roleless \cup {Owner}),
         \A q \in Reqs : pc[q] \in {"joined", "everyone"} =>
           pc'[q] \in {"joined", "everyone"} /\ call'[q] = call[q]
  PROVE  MembersHaveRole'
BY DEF MembersHaveRole

ListsKept == \A n \in Nodes : /\ cache'[n]["members"] = cache[n]["members"]
                              /\ fetched'[n]["members"] = fetched[n]["members"]
Telling == {"joined", "nomember", "removed", "deleted"}

(* The same lists, and every invalidation still to come. *)
LEMMA StaleFrame ==
  ASSUME StaleListExplained, FetchExplained, ListsKept, members' = members,
         behind \subseteq behind',
         \A q \in Reqs : pc[q] \in Telling =>
           pc'[q] \in Telling /\ call'[q] = call[q]
  PROVE  StaleListExplained' /\ FetchExplained'
<1>1. ASSUME NEW n \in Nodes, Invalidating(n) PROVE Invalidating(n)'
  BY <1>1 DEF Invalidating, Telling
<1>2. Listed(members)' = Listed(members)
  BY DEF Listed
<1>. QED
  BY <1>1, <1>2 DEF StaleListExplained, FetchExplained, ListsKept

(* Nobody joins, and nobody starts to run. *)
LEMMA PresenceFrame ==
  ASSUME RolesAndPresence, assigned' \subseteq members', members' \subseteq members,
         \A q \in Reqs : present[q] => present'[q],
         \A q \in Reqs : pc'[q] \notin Ended \cup {"idle"} =>
           pc[q] \notin Ended \cup {"idle"} /\ call'[q] = call[q]
  PROVE  RolesAndPresence'
BY DEF RolesAndPresence, Running

(* No channel comes to life and no row is inserted. *)
LEMMA CreatedFrame ==
  ASSUME CreatedOnce, community' = community,
         \A c \in Channels : channels'[c] = "live" =>
           channels[c] = "live" \/ community = "live",
         \A q \in Reqs : pc'[q] = "row" => pc[q] = "row",
         \A q \in Reqs : pc[q] = "idle" => pc'[q] = "idle"
  PROVE  CreatedOnce'
BY DEF CreatedOnce

(* The requests in W move, neither from nor to a step these parts speak of. *)
Movers(W) ==
  /\ \A q \in Reqs \ W : pc'[q] = pc[q]
  /\ \A q \in W : /\ pc[q] \notin Ended \cup Telling \cup {"idle", "everyone"}
                  /\ pc'[q] \notin {"idle", "row"}

(* The requests of W move on; the database and the history are left alone. *)
LEMMA MoversFrame ==
  ASSUME IInv, NEW W \in SUBSET Reqs, Movers(W),
         UNCHANGED <<database, call, present, behind, roleless>>
  PROVE  /\ CreatedOnce' /\ RolesAndPresence' /\ MembersHaveRole'
         /\ ListsKept => StaleListExplained' /\ FetchExplained' /\ OwnerListed'
<1>1. CreatedOnce'
  BY CreatedFrame DEF IInv, Movers, database
<1>2. RolesAndPresence'
  BY PresenceFrame DEF IInv, Movers, database, RolesAndPresence
<1>3. MembersHaveRole'
  BY RoleFrame DEF IInv, Movers, Telling, database
<1>4. ASSUME ListsKept PROVE StaleListExplained' /\ FetchExplained' /\ OwnerListed'
  <2>1. StaleListExplained' /\ FetchExplained'
    BY <1>4, StaleFrame DEF IInv, Movers, database
  <2>2. OwnerListed'
    BY <1>4 DEF IInv, OwnerListed, OwnerNamed, Names, ListsKept, database
  <2>. QED
    BY <2>1, <2>2
<1>. QED
  BY <1>1, <1>2, <1>3, <1>4

(* A request that has arrived has a call; one that runs a step of its own     *)
(* does not wait for a fill.                                                *)
LEMMA Arrived ==
  ASSUME IInv, NEW r \in Reqs, pc[r] # "idle"
  PROVE  /\ call[r] \in Calls /\ Node(r) \in Nodes
         /\ call[r].user \in Users /\ call[r].target \in Users
         /\ call[r].kind \in Kinds /\ call[r].channel \in Channels
BY DEF IInv, Placed, Calls, Node

-----------------------------------------------------------------------------
(* The steps of a handler that read: pc[r] moves and nothing else. *)
Reading(r) == \/ DatabaseError(r) \/ GetChannel(r) \/ CheckPermission(r)
              \/ Access(r) \/ JoinPublic(r) \/ JoinGetMember(r) \/ Update(r)
              \/ \E k \in Keys : Hit(r, k)

(* Such a step: r goes to p, and a guarded request gets past a check only if  *)
(* its user was present.                                                    *)
Moves(r, p) ==
  /\ pc' = [pc EXCEPT ![r] = p] /\ p \in Steps \cup Ended
  /\ UNCHANGED <<database, caches, call, history>>
  /\ Fault \/ UNCHANGED faults
  /\ pc[r] \notin Ended \cup Telling \cup {"idle", "everyone"}
  /\ p \notin {"idle", "row"}
  /\ \A n \in Nodes, k \in Keys : r \notin waiters[n][k]
  /\ p = "remove" => call[r].target # Owner
  /\ Guarded(r) =>
       /\ p \in {"members", "community", "roles", "act"} \cup Ended
       /\ p \in {"act", "ok"} => present[r]
       /\ p = "community" /\ call[r].user = Owner => present[r]
       /\ p = "members" => pc[r] = "channel" /\ channels[call[r].channel] = "live"

(* A step that reads moves its request to a step of Moved or to an end. *)
LEMMA ReadingMoves ==
  ASSUME IInv, NEW r \in Reqs, Reading(r)
  PROVE  Moves(r, pc'[r])
<1> USE DEF Go, At, Kind, Ended, Telling, Moves
<1>0. ASSUME pc[r] # "idle" PROVE call[r] \in Calls /\ Node(r) \in Nodes
  BY <1>0, Arrived
<1>a. ASSUME pc[r] \notin Keys PROVE \A n \in Nodes, k \in Keys : r \notin waiters[n][k]
  BY <1>a DEF IInv, Placed
<1>b. pc \in [Reqs -> Steps \cup Ended]
  BY DEF IInv, TypeOK
<1>1. CASE DatabaseError(r)
  BY <1>1, <1>a, <1>b DEF DatabaseError, DatabaseSteps, Keys, Steps, history
<1>2. CASE GetChannel(r)
  BY <1>2, <1>0, <1>a, <1>b DEF GetChannel, Keys, Steps, Guarded
<1>3. CASE CheckPermission(r)
  <2>1. HasPermission(call[r].user, call[r].kind) => call[r].user \in members
    BY DEF HasPermission, ComputePermissions, IInv, RolesAndPresence
  <2>2. HasPermission(call[r].user, call[r].kind) => present[r]
    BY <2>1, <1>3 DEF CheckPermission, IInv, RolesAndPresence, Running
  <2>. QED
    BY <1>3, <2>2, <1>a, <1>b DEF CheckPermission, Keys, Steps
<1>4. CASE Access(r)
  <2>1. Guarded(r) => present[r]
    BY <1>4 DEF Access, IInv, Checked
  <2>. QED
    BY <1>4, <2>1, <1>a, <1>b DEF Access, Keys, Steps
<1>5. CASE JoinPublic(r)
  <2>1. ~ Guarded(r)
    BY <1>5 DEF JoinPublic, IInv, Checked
  <2>. QED
    BY <1>5, <2>1, <1>a, <1>b DEF JoinPublic, Keys, Steps
<1>6. CASE JoinGetMember(r)
  <2>1. ~ Guarded(r)
    BY <1>6 DEF JoinGetMember, IInv, Checked
  <2>. QED
    BY <1>6, <2>1, <1>a, <1>b DEF JoinGetMember, Keys, Steps
<1>7. CASE Update(r)
  BY <1>7, <1>a, <1>b DEF Update, Keys, Steps, Guarded
<1>8. ASSUME NEW k \in Keys, Hit(r, k) PROVE Moves(r, pc'[r])
  <2> DEFINE v == cache[Node(r)][k]
  <2>1. pc[r] = k /\ call[r] \in Calls /\ Node(r) \in Nodes
    BY <1>8, <1>0 DEF Hit, Keys
  <2>2. \A n \in Nodes, j \in Keys : r \notin waiters[n][j]
    BY <1>8, <2>1 DEF Hit, Node, IInv, Placed
  <2>3. k = "community" => v = {Owner}
    BY <1>8, <2>1 DEF Hit, IInv, OwnerKnown
  <2>4. /\ pc' = [pc EXCEPT ![r] = pc'[r]] /\ pc'[r] = AfterGet(call[r], k, v)
        /\ UNCHANGED <<database, caches, call, history, faults>>
    BY <1>8, <1>b DEF Hit
  <2>5. pc'[r] \in Moved /\ (pc'[r] = "remove" => call[r].target # Owner)
    BY <2>1, <2>3, <2>4, AfterGetFacts
  <2>6. Guarded(r) =>
          /\ pc'[r] \in {"community", "roles", "act", "notmember"}
          /\ pc'[r] = "act" => present[r]
          /\ pc'[r] = "community" /\ call[r].user = Owner => present[r]
    <3>1. CASE k = "community"
      BY <2>1, <2>3, <2>4, <3>1, AfterGetFacts DEF Guarded, IInv, Checked
    <3>2. CASE k = "members"
      <4>1. Guarded(r) /\ call[r].user = Owner /\ Owner \in v => present[r]
        BY <1>8, <2>1, <3>2 DEF Hit, IInv, Checked, OwnerNamed, Names
      <4>. QED
        BY <2>1, <2>4, <3>2, <4>1, AfterGetFacts
    <3>. QED
      BY <3>1, <3>2 DEF Keys
  <2>. QED
    BY <2>1, <2>2, <2>4, <2>5, <2>6 DEF Keys, Moved, Steps
<1>. QED
  BY <1>1, <1>2, <1>3, <1>4, <1>5, <1>6, <1>7, <1>8 DEF Reading

(* Steps that read and decide preserve the invariant. *)
LEMMA ReadingInv ==
  ASSUME IInv, NEW r \in Reqs, Reading(r) PROVE IInv'
<1> DEFINE p == pc'[r]
<1>1. Moves(r, p)
  BY ReadingMoves
<1>2. TypeOK'
  BY <1>1, FaultType DEF Moves, IInv, TypeOK, database, caches, history
<1>3. Movers({r}) /\ ListsKept
  BY <1>1 DEF Moves, Movers, ListsKept, caches, IInv, TypeOK
<1>4. /\ CreatedOnce' /\ RolesAndPresence' /\ MembersHaveRole'
      /\ StaleListExplained' /\ FetchExplained' /\ OwnerListed'
  BY <1>1, <1>3, MoversFrame DEF Moves, history
<1>5. Placed' /\ OwnerKnown'
  BY <1>1 DEF Moves, IInv, TypeOK, Placed, OwnerKnown, caches
<1>6. Checked'
  <2>1. p = "members" /\ Guarded(r) /\ call[r].user = Owner /\ ~ present[r] =>
          \A n \in Nodes : ~ OwnerNamed(n)
    <3>1. SUFFICES ASSUME p = "members", Guarded(r), call[r].user = Owner, ~ present[r]
                   PROVE  community = "live" /\ Owner \notin members
      BY DEF IInv, OwnerListed
    <3>2. call[r].channel \in Channels
      BY <3>1, Arrived DEF Guarded
    <3>. QED
      BY <1>1, <3>1, <3>2
         DEF Moves, IInv, CreatedOnce, RolesAndPresence, Running, Ended
  <2>2. \A n \in Nodes : OwnerNamed(n)' <=> OwnerNamed(n)
    BY <1>1 DEF Moves, OwnerNamed, Names, caches
  <2>. QED
    BY <1>1, <2>1, <2>2 DEF Moves, IInv, TypeOK, Checked, Guarded, history
<1>. QED
  BY <1>2, <1>4, <1>5, <1>6 DEF IInv

-----------------------------------------------------------------------------
(* The other steps of a handler: r, which waits for no fill and is not one of   *)
(* the guarded requests, moves on; tables or caches change.                 *)
Writes(r) ==
  /\ pc' = [pc EXCEPT ![r] = pc'[r]]
  /\ pc[r] \notin Keys \cup Ended \cup {"idle"}
  /\ pc'[r] \in (Steps \cup Ended) \ {"idle", "row", "remove"}
  /\ ~ Guarded(r)
  /\ UNCHANGED <<call, waiters, fetched>>
  /\ Fault \/ UNCHANGED faults

(* A request that writes moves on; the parts about requests and their types hold. *)
LEMMA WritesFrame ==
  ASSUME IInv, NEW r \in Reqs, Writes(r),
         \A q \in Reqs : present[q] => present'[q],
         \A n \in Nodes : /\ Names(cache[n]["members"])' => Names(cache[n]["members"])
                          /\ cache'[n]["community"] \in {None, {Owner}}
  PROVE  Placed' /\ OwnerKnown' /\ Checked'
<1>1. \A q \in Reqs : q # r => pc'[q] = pc[q]
  BY DEF Writes, IInv, TypeOK
<1>2. Placed'
  <2>1. \A n \in Nodes, k \in Keys : \A q \in waiters[n][k] : q \in Reqs /\ q # r
    BY DEF Writes, IInv, TypeOK, Placed
  <2>. QED
    BY <1>1, <2>1 DEF Writes, IInv, Placed
<1>3. OwnerKnown'
  BY <1>1 DEF Writes, IInv, OwnerKnown
<1>4. \A n \in Nodes : OwnerNamed(n)' => OwnerNamed(n)
  BY DEF OwnerNamed, Names, Writes
<1>5. \A q \in Reqs : Guarded(q)' => q # r /\ Guarded(q)
  BY <1>1 DEF Guarded, Writes
<1>6. Checked'
  BY <1>1, <1>4, <1>5 DEF Checked, IInv, Writes
<1>. QED
  BY <1>2, <1>3, <1>6

(* A write to community_members: who is left out of behind will be told. *)
LEMMA WriteMembersFrame ==
  ASSUME IInv, NEW r \in Reqs, Writes(r), UNCHANGED cache,
         NEW S \in SUBSET Users, NEW told \in SUBSET Nodes, WriteMembers(S, told),
         \A n \in told : Invalidating(n)',
         assigned' \subseteq S
  PROVE  /\ members' \in SUBSET Users /\ behind' \in SUBSET Nodes
         /\ present' \in [Reqs -> BOOLEAN]
         /\ Placed' /\ OwnerKnown' /\ Checked' /\ RolesAndPresence'
         /\ (Owner \in members => Owner \in S \/ community' = "gone") /\
            (community = "gone" => community' = "gone") => OwnerListed'
         /\ StaleListExplained' /\ FetchExplained'
<1>1. /\ members' \in SUBSET Users /\ behind' \in SUBSET Nodes
      /\ present' \in [Reqs -> BOOLEAN]
  BY DEF WriteMembers, IInv, TypeOK
<1>2. \A q \in Reqs : present[q] => present'[q]
  BY DEF WriteMembers
<1>3. Placed' /\ OwnerKnown' /\ Checked'
  <2>1. \A n \in Nodes : /\ Names(cache[n]["members"])' => Names(cache[n]["members"])
                         /\ cache'[n]["community"] \in {None, {Owner}}
    BY DEF Names, IInv, OwnerKnown
  <2>. QED
    BY <1>2, <2>1, WritesFrame
<1>4. RolesAndPresence'
  <2>1. ASSUME NEW q \in Reqs, Running(q)', call'[q].user \in members'
        PROVE  present'[q]
    <3>1. Running(q)
      BY <2>1 DEF Running, Writes, Ended, IInv, TypeOK
    <3>. QED
      BY <2>1, <3>1 DEF WriteMembers, Writes
  <2>. QED
    BY <2>1 DEF RolesAndPresence, WriteMembers
<1>5. ASSUME Owner \in members => Owner \in S \/ community' = "gone",
             community = "gone" => community' = "gone"
      PROVE  OwnerListed'
  BY <1>5 DEF IInv, OwnerListed, OwnerNamed, Names, Writes, WriteMembers
<1>6. StaleListExplained' /\ FetchExplained'
  <2>1. Listed(members)' = Listed(S)
    BY DEF WriteMembers, Listed
  <2>2. \A n \in Nodes \ told : Outdated(n, S) => n \in behind'
    BY DEF WriteMembers
  <2>3. cache' = cache /\ fetched' = fetched
    BY DEF Writes
  <2>. QED
    BY <2>1, <2>2, <2>3 DEF StaleListExplained, FetchExplained, Outdated
<1>. QED
  BY <1>1, <1>3, <1>4, <1>5, <1>6

(* Invalidate on the node of r. *)
LEMMA InvalidateFrame ==
  ASSUME IInv, NEW r \in Reqs, Writes(r), UNCHANGED <<database, present>>,
         InvalidateMembers(Node(r))
  PROVE  /\ cache' \in [Nodes -> [Keys -> {None} \cup SUBSET Users]]
         /\ behind' \in SUBSET Nodes
         /\ Placed' /\ OwnerKnown' /\ Checked' /\ RolesAndPresence'
         /\ OwnerListed' /\ StaleListExplained' /\ FetchExplained'
<1> DEFINE n == Node(r)
<1>0. n \in Nodes /\ n = call[r].node /\ "members" \in Keys /\ "community" \in Keys
  BY Arrived DEF Writes, Keys, Node
<1>1. /\ cache' \in [Nodes -> [Keys -> {None} \cup SUBSET Users]]
      /\ cache'[n]["members"] = None
      /\ \A m \in Nodes : m # n => cache'[m]["members"] = cache[m]["members"]
      /\ \A m \in Nodes : cache'[m]["community"] = cache[m]["community"]
  BY <1>0, UpdateType DEF InvalidateMembers, IInv, TypeOK
<1>2. behind' \in SUBSET Nodes
  BY <1>0 DEF InvalidateMembers, IInv, TypeOK
<1>3. Placed' /\ OwnerKnown' /\ Checked'
  <2>1. \A m \in Nodes : /\ Names(cache[m]["members"])' => Names(cache[m]["members"])
                         /\ cache'[m]["community"] \in {None, {Owner}}
    BY <1>1 DEF Names, IInv, OwnerKnown
  <2>. QED
    BY <2>1, WritesFrame
<1>4. RolesAndPresence'
  BY PresenceFrame DEF IInv, Writes, TypeOK, database, RolesAndPresence, Ended
<1>5. OwnerListed'
  BY <1>1 DEF IInv, OwnerListed, OwnerNamed, Names, Writes, database
<1>6. StaleListExplained' /\ FetchExplained'
  <2>1. Listed(members)' = Listed(members)
    BY DEF Listed, database
  <2>2. ASSUME NEW m \in Nodes, m # n, Invalidating(m) PROVE Invalidating(m)'
    BY <2>2, <1>0 DEF Invalidating, Writes, IInv, TypeOK
  <2>3. \A m \in Nodes : m # n => (m \in behind' <=> m \in behind)
    BY DEF InvalidateMembers
  <2>4. fetched[n]["members"] \in {None, Listed(members)} \/ n \in behind'
    BY <1>0 DEF InvalidateMembers
  <2>5. fetched' = fetched
    BY DEF Writes
  <2>. QED
    BY <1>1, <2>1, <2>2, <2>3, <2>4, <2>5 DEF IInv, StaleListExplained, FetchExplained
<1>. QED
  BY <1>1, <1>2, <1>3, <1>4, <1>5, <1>6

(* A step that leaves the members, the lists and the history alone. *)
LEMMA ListsFrame ==
  ASSUME IInv, NEW r \in Reqs, Writes(r), ListsKept,
         UNCHANGED <<members, present, behind>>, assigned' \subseteq members,
         community = "gone" => community' = "gone",
         pc[r] \in Telling => pc'[r] \in Telling,
         \A n \in Nodes : cache'[n]["community"] \in {None, {Owner}}
  PROVE  /\ Placed' /\ OwnerKnown' /\ Checked' /\ RolesAndPresence'
         /\ OwnerListed' /\ StaleListExplained' /\ FetchExplained'
<1>1. Placed' /\ OwnerKnown' /\ Checked'
  BY WritesFrame DEF ListsKept, Names
<1>2. RolesAndPresence'
  BY PresenceFrame DEF IInv, Writes, TypeOK, Ended
<1>3. OwnerListed'
  BY DEF IInv, OwnerListed, OwnerNamed, Names, ListsKept
<1>4. StaleListExplained' /\ FetchExplained'
  BY StaleFrame DEF IInv, Writes, TypeOK
<1>. QED
  BY <1>1, <1>2, <1>3, <1>4

(* InvalidateCommunity and Set change one entry of one process. *)
LEMMA RowCacheFrame ==
  ASSUME IInv, NEW n \in Nodes, NEW v \in {None, {Owner}},
         cache' = [cache EXCEPT ![n]["community"] = v], fetched' = fetched
  PROVE  /\ cache' \in [Nodes -> [Keys -> {None} \cup SUBSET Users]]
         /\ ListsKept
         /\ \A m \in Nodes : cache'[m]["community"] \in {None, {Owner}}
<1>1. v \in {None} \cup SUBSET Users
  BY CommunityAssumption
<1>2. /\ cache' \in [Nodes -> [Keys -> {None} \cup SUBSET Users]]
      /\ cache'[n]["community"] = v
      /\ \A m \in Nodes : cache'[m]["members"] = cache[m]["members"]
      /\ \A m \in Nodes : m # n => cache'[m]["community"] = cache[m]["community"]
  BY <1>1, UpdateType DEF IInv, TypeOK, Keys
<1>. QED
  BY <1>2 DEF ListsKept, IInv, OwnerKnown

-----------------------------------------------------------------------------
(* JoinCommunity. *)
LEMMA JoinAddInv ==
  ASSUME IInv, NEW r \in Reqs, JoinAdd(r) PROVE IInv'
<1>1. pc[r] = "add" /\ call[r] \in Calls /\ Node(r) \in Nodes /\ call[r].user \in Users
  BY Arrived DEF JoinAdd, At
<1>2. Writes(r) /\ UNCHANGED <<community, role, assigned, channels, caches, call,
                               roleless, faults>>
  BY <1>1 DEF JoinAdd, At, Go, Writes, Keys, Ended, Steps, caches, IInv, TypeOK, Checked
<1>3. CASE pc'[r] \in {"failed", "getmember"} /\ UNCHANGED <<members, present, behind>>
  <2>1. ListsKept /\ assigned' \subseteq members /\ pc[r] \notin Telling
    BY <1>1, <1>2 DEF ListsKept, caches, IInv, RolesAndPresence, Telling
  <2>2. /\ Placed' /\ OwnerKnown' /\ Checked' /\ RolesAndPresence'
        /\ OwnerListed' /\ StaleListExplained' /\ FetchExplained'
    BY <1>2, <1>3, <2>1, ListsFrame DEF caches, IInv, OwnerKnown
  <2>3. CreatedOnce' /\ MembersHaveRole'
    BY <1>1, <1>2, <1>3, CreatedFrame, RoleFrame DEF IInv, Writes, TypeOK
  <2>4. TypeOK'
    BY <1>2, <1>3, FaultType DEF IInv, TypeOK, Writes, caches
  <2>. QED
    BY <2>2, <2>3, <2>4 DEF IInv
<1>4. CASE /\ pc'[r] = "joined"
           /\ WriteMembers(members \cup {call[r].user}, {Node(r)})
  <2> DEFINE S == members \cup {call[r].user}
  <2>0. S \in SUBSET Users /\ assigned' \subseteq S
    BY <1>1, <1>2 DEF IInv, TypeOK, RolesAndPresence
  <2>1. \A n \in {Node(r)} : Invalidating(n)'
    BY <1>2, <1>4 DEF Invalidating, Node
  <2> HIDE DEF S
  <2>2. /\ members' \in SUBSET Users /\ behind' \in SUBSET Nodes
        /\ present' \in [Reqs -> BOOLEAN]
        /\ Placed' /\ OwnerKnown' /\ Checked' /\ RolesAndPresence'
        /\ (Owner \in members => Owner \in S \/ community' = "gone") /\
           (community = "gone" => community' = "gone") => OwnerListed'
        /\ StaleListExplained' /\ FetchExplained'
    <3>1. {Node(r)} \in SUBSET Nodes
      BY <1>1
    <3>2. WriteMembers(S, {Node(r)}) /\ UNCHANGED cache
      BY <1>2, <1>4 DEF S, caches
    <3>. QED
      BY <1>2, <2>0, <2>1, <3>1, <3>2, WriteMembersFrame
  <2>3. OwnerListed'
    BY <1>2, <2>2 DEF S
  <2>4. CreatedOnce'
    BY <1>1, <1>2, <1>4, CreatedFrame DEF IInv, Writes, TypeOK
  <2>5. MembersHaveRole'
    <3>1. members' = members \cup {call[r].user}
      BY <1>4 DEF WriteMembers
    <3>2. \A q \in Reqs : pc[q] \in {"joined", "everyone"} => pc'[q] = pc[q]
      BY <1>1, <1>2 DEF Writes, IInv, TypeOK
    <3>. QED
      BY <1>2, <1>4, <3>1, <3>2 DEF MembersHaveRole, IInv
  <2>6. TypeOK'
    BY <1>2, <2>2, FaultType DEF IInv, TypeOK, Writes, caches
  <2>. QED
    BY <2>2, <2>3, <2>4, <2>5, <2>6 DEF IInv
<1>. QED
  BY <1>1, <1>3, <1>4 DEF JoinAdd, Go, IInv, TypeOK

(* The joined member's node is told. *)
LEMMA JoinInvalidateInv ==
  ASSUME IInv, NEW r \in Reqs, JoinInvalidate(r) PROVE IInv'
<1>1. /\ pc[r] \in {"joined", "nomember"}
      /\ pc'[r] \in {"everyone", "nilmember"} /\ (pc[r] = "joined" => pc'[r] = "everyone")
      /\ UNCHANGED <<database, present, roleless, faults>>
      /\ InvalidateMembers(Node(r))
  BY DEF JoinInvalidate, Go, At, IInv, TypeOK
<1>2. Writes(r)
  BY <1>1 DEF JoinInvalidate, InvalidateMembers, Go, Writes, Keys, Ended, Steps,
              IInv, Checked
<1>3. /\ cache' \in [Nodes -> [Keys -> {None} \cup SUBSET Users]]
      /\ behind' \in SUBSET Nodes
      /\ Placed' /\ OwnerKnown' /\ Checked' /\ RolesAndPresence'
      /\ OwnerListed' /\ StaleListExplained' /\ FetchExplained'
  BY <1>1, <1>2, InvalidateFrame
<1>4. CreatedOnce' /\ MembersHaveRole'
  BY <1>1, <1>2, CreatedFrame, RoleFrame DEF IInv, Writes, TypeOK, database
<1>5. TypeOK'
  BY <1>1, <1>2, <1>3, FaultType DEF IInv, TypeOK, Writes, database
<1>. QED
  BY <1>3, <1>4, <1>5 DEF IInv

(* The role is assigned, or the member is recorded without one. *)
LEMMA JoinRoleInv ==
  ASSUME IInv, NEW r \in Reqs, JoinRole(r) PROVE IInv'
<1> DEFINE u == call[r].user
<1>1. /\ pc[r] \in {"everyone", "nilmember"} /\ pc'[r] \in {"ok", "panicked"}
      /\ UNCHANGED <<community, members, role, channels, caches, call, present, behind>>
      /\ u \in Users
  BY Arrived DEF JoinRole, Go, At, IInv, TypeOK
<1>2. Writes(r)
  BY <1>1 DEF JoinRole, Go, At, Writes, Keys, Ended, Steps, caches, IInv, TypeOK, Checked
<1>3. /\ assigned' \in SUBSET Users /\ roleless' \in SUBSET Users
      /\ assigned' \subseteq members
      /\ members \ (assigned' \cup roleless')
           \subseteq (members \ (assigned \cup roleless)) \ {u}
  BY <1>1 DEF JoinRole, IInv, TypeOK, RolesAndPresence
<1>4. /\ Placed' /\ OwnerKnown' /\ Checked' /\ RolesAndPresence'
      /\ OwnerListed' /\ StaleListExplained' /\ FetchExplained'
  BY <1>1, <1>2, <1>3, ListsFrame DEF ListsKept, caches, Telling, IInv, OwnerKnown
<1>5. CreatedOnce'
  BY <1>1, <1>2, CreatedFrame DEF IInv, Writes, TypeOK
<1>6. MembersHaveRole'
  BY <1>1, <1>2, <1>3 DEF MembersHaveRole, IInv, Writes, TypeOK
<1>7. TypeOK'
  BY <1>1, <1>2, <1>3, FaultType DEF IInv, TypeOK, Writes, caches
<1>. QED
  BY <1>4, <1>5, <1>6, <1>7 DEF IInv

-----------------------------------------------------------------------------
(* LeaveCommunity, KickMember and DeleteCommunity. *)
LEMMA RemoveInv ==
  ASSUME IInv, NEW r \in Reqs, Remove(r) PROVE IInv'
<1> DEFINE t == call[r].target
<1> DEFINE S == members \ {t}
<1>1. /\ pc[r] = "remove" /\ pc'[r] = "removed" /\ Node(r) \in Nodes /\ t # Owner
      /\ UNCHANGED <<community, role, channels, caches, call, faults>>
      /\ WriteMembers(S, {Node(r)})
      /\ assigned' = assigned \ {t} /\ roleless' = roleless \ {t}
  BY Arrived DEF Remove, Go, At, IInv, TypeOK, OwnerKnown
<1>2. Writes(r)
  BY <1>1 DEF Remove, Go, Writes, Keys, Ended, Steps, caches, IInv, Checked
<1>3. S \in SUBSET Users /\ assigned' \subseteq S /\ members' = S
  BY <1>1 DEF IInv, TypeOK, RolesAndPresence, WriteMembers
<1>4. \A n \in {Node(r)} : Invalidating(n)'
  BY <1>1 DEF Invalidating, Node
<1> HIDE DEF S
<1>5. /\ members' \in SUBSET Users /\ behind' \in SUBSET Nodes
      /\ present' \in [Reqs -> BOOLEAN]
      /\ Placed' /\ OwnerKnown' /\ Checked' /\ RolesAndPresence'
      /\ (Owner \in members => Owner \in S \/ community' = "gone") /\
         (community = "gone" => community' = "gone") => OwnerListed'
      /\ StaleListExplained' /\ FetchExplained'
  <2>1. {Node(r)} \in SUBSET Nodes
    BY <1>1
  <2>. QED
    BY <1>1, <1>2, <1>3, <1>4, <2>1, WriteMembersFrame DEF caches
<1>6. OwnerListed'
  BY <1>1, <1>5 DEF S
<1>7. CreatedOnce'
  BY <1>1, <1>2, CreatedFrame DEF IInv, Writes, TypeOK
<1>8. MembersHaveRole'
  BY <1>1, <1>2, <1>3, RoleFrame DEF S, IInv, Writes, TypeOK
<1>9. TypeOK'
  BY <1>1, <1>2, <1>5, FaultType DEF IInv, TypeOK, Writes, caches
<1>. QED
  BY <1>5, <1>6, <1>7, <1>8, <1>9 DEF IInv

(* The node of the removal is told. *)
LEMMA RemoveInvalidateInv ==
  ASSUME IInv, NEW r \in Reqs, RemoveInvalidate(r) PROVE IInv'
<1>1. /\ pc[r] = "removed" /\ pc'[r] = "ok"
      /\ UNCHANGED <<database, present, roleless, faults>>
      /\ InvalidateMembers(Node(r))
  BY DEF RemoveInvalidate, Go, At, IInv, TypeOK
<1>2. Writes(r)
  BY <1>1 DEF RemoveInvalidate, InvalidateMembers, Go, Writes, Keys, Ended, Steps,
              IInv, Checked
<1>3. /\ cache' \in [Nodes -> [Keys -> {None} \cup SUBSET Users]]
      /\ behind' \in SUBSET Nodes
      /\ Placed' /\ OwnerKnown' /\ Checked' /\ RolesAndPresence'
      /\ OwnerListed' /\ StaleListExplained' /\ FetchExplained'
  BY <1>1, <1>2, InvalidateFrame
<1>4. CreatedOnce' /\ MembersHaveRole'
  BY <1>1, <1>2, CreatedFrame, RoleFrame DEF IInv, Writes, TypeOK, database
<1>5. TypeOK'
  BY <1>1, <1>2, <1>3, FaultType DEF IInv, TypeOK, Writes, database
<1>. QED
  BY <1>3, <1>4, <1>5 DEF IInv

(* Everything goes with the community. *)
LEMMA DeleteInv ==
  ASSUME IInv, NEW r \in Reqs, Delete(r) PROVE IInv'
<1>1. /\ pc[r] = "act" /\ pc'[r] = "deleted" /\ Node(r) \in Nodes
      /\ community' = "gone" /\ role' = FALSE /\ assigned' = {} /\ roleless' = {}
      /\ channels' \in [Channels -> {"none", "live", "gone"}]
      /\ \A c \in Channels : channels'[c] # "live"
      /\ UNCHANGED <<caches, call, faults>>
      /\ WriteMembers({}, {Node(r)}) /\ members' = {}
  BY Arrived DEF Delete, Go, At, IInv, TypeOK, WriteMembers
<1>2. Writes(r)
  BY <1>1 DEF Delete, Go, Kind, Writes, Keys, Ended, Steps, caches, Guarded
<1>4. \A n \in {Node(r)} : Invalidating(n)'
  BY <1>1 DEF Invalidating, Node
<1>5. /\ members' \in SUBSET Users /\ behind' \in SUBSET Nodes
      /\ present' \in [Reqs -> BOOLEAN]
      /\ Placed' /\ OwnerKnown' /\ Checked' /\ RolesAndPresence'
      /\ (Owner \in members => Owner \in {} \/ community' = "gone") /\
         (community = "gone" => community' = "gone") => OwnerListed'
      /\ StaleListExplained' /\ FetchExplained'
  <2>1. {Node(r)} \in SUBSET Nodes /\ {} \in SUBSET Users
    BY <1>1
  <2>2. assigned' \subseteq {} /\ UNCHANGED cache
    BY <1>1 DEF caches
  <2>. QED
    BY <1>1, <1>2, <1>4, <2>1, <2>2, WriteMembersFrame
<1>6. OwnerListed'
  BY <1>1, <1>5
<1>7. CreatedOnce'
  BY <1>1, <1>2 DEF IInv, CreatedOnce, Writes, TypeOK
<1>8. MembersHaveRole'
  BY <1>1 DEF MembersHaveRole
<1>9. TypeOK'
  BY <1>1, <1>2, <1>5, FaultType DEF IInv, TypeOK, Writes, caches
<1>. QED
  BY <1>5, <1>6, <1>7, <1>8, <1>9 DEF IInv

(* The steps that drop or set the row in the cache of a process. *)
LEMMA RowCacheInv ==
  ASSUME IInv, NEW r \in Reqs,
         UpdateInvalidate(r) \/ DeleteInvalidate(r) \/ CreateSet(r)
  PROVE  IInv'
<1>1. /\ pc[r] \in {"updated", "deleted", "set"}
      /\ pc'[r] \in {"ok", "removed"} /\ (pc[r] = "deleted" => pc'[r] = "removed")
      /\ UNCHANGED <<database, present, behind, roleless, faults>>
      /\ Writes(r) /\ Node(r) \in Nodes
  BY Arrived DEF UpdateInvalidate, DeleteInvalidate, CreateSet, InvalidateCommunity, Go,
         At, Writes, Keys, Ended, Steps, history, IInv, TypeOK, Checked
<1>2. \E v \in {None, {Owner}} :
        cache' = [cache EXCEPT ![Node(r)]["community"] = v]
  BY DEF UpdateInvalidate, DeleteInvalidate, CreateSet, InvalidateCommunity
<1>3. /\ cache' \in [Nodes -> [Keys -> {None} \cup SUBSET Users]]
      /\ ListsKept
      /\ \A m \in Nodes : cache'[m]["community"] \in {None, {Owner}}
  BY <1>1, <1>2, RowCacheFrame DEF Writes
<1>4. /\ Placed' /\ OwnerKnown' /\ Checked' /\ RolesAndPresence'
      /\ OwnerListed' /\ StaleListExplained' /\ FetchExplained'
  BY <1>1, <1>3, ListsFrame DEF Telling, IInv, RolesAndPresence, database
<1>5. CreatedOnce' /\ MembersHaveRole'
  BY <1>1, CreatedFrame, RoleFrame DEF IInv, Writes, TypeOK, database
<1>6. TypeOK'
  BY <1>1, <1>3, FaultType DEF IInv, TypeOK, Writes, database
<1>. QED
  BY <1>4, <1>5, <1>6 DEF IInv

-----------------------------------------------------------------------------
(* The channels, and CreateCommunity. *)
Builds(r) == CreateChannel(r) \/ DeleteChannel(r) \/ CreateRole(r)
             \/ CreateAssign(r) \/ CreateGeneral(r)

(* The statements of the owner and of CreateCommunity that leave members alone. *)
LEMMA BuildsInv ==
  ASSUME IInv, NEW r \in Reqs, Builds(r) PROVE IInv'
<1>1. /\ pc[r] \in {"act", "mkrole", "assign", "general"}
      /\ pc'[r] \in {"ok", "failed", "assign", "general", "set"}
      /\ UNCHANGED <<community, members, caches, call, present, behind, roleless>>
      /\ Writes(r)
  BY DEF Builds, CreateChannel, DeleteChannel, CreateRole, CreateAssign, CreateGeneral,
         Go, At, Kind, Writes, Keys, Ended, Steps, caches, history, IInv, TypeOK,
         Checked, Guarded
<1>2. /\ channels' \in [Channels -> {"none", "live", "gone"}]
      /\ \A c \in Channels : channels'[c] = "live" =>
           channels[c] = "live" \/ community = "live"
  BY Arrived DEF Builds, CreateChannel, DeleteChannel, CreateRole, CreateAssign,
         CreateGeneral, NewChannel, At, IInv, TypeOK
<1>3. role' \in BOOLEAN /\ assigned \subseteq assigned' /\ assigned' \subseteq members
  BY DEF Builds, CreateChannel, DeleteChannel, CreateRole, CreateAssign,
         CreateGeneral, IInv, TypeOK, RolesAndPresence
<1>4. /\ Placed' /\ OwnerKnown' /\ Checked' /\ RolesAndPresence'
      /\ OwnerListed' /\ StaleListExplained' /\ FetchExplained'
  BY <1>1, <1>3, ListsFrame DEF ListsKept, caches, Telling, IInv, OwnerKnown
<1>5. CreatedOnce'
  BY <1>1, <1>2, CreatedFrame DEF IInv, Writes, TypeOK
<1>6. MembersHaveRole'
  BY <1>1, <1>3, RoleFrame DEF IInv, Writes, TypeOK
<1>7. TypeOK'
  BY <1>1, <1>2, <1>3, FaultType DEF IInv, TypeOK, Writes, caches
<1>. QED
  BY <1>4, <1>5, <1>6, <1>7 DEF IInv

(* The row is inserted when no other request has arrived. *)
LEMMA CreateRowInv ==
  ASSUME IInv, NEW r \in Reqs, CreateRow(r) PROVE IInv'
<1>1. /\ pc[r] = "row" /\ pc'[r] = "owner" /\ community' = "live" /\ community = "none"
      /\ \A q \in Reqs : q # r => pc[q] = "idle" /\ pc'[q] = "idle"
      /\ UNCHANGED <<members, role, assigned, channels, caches, call, present, behind,
                     roleless, faults>>
      /\ Writes(r)
  BY DEF CreateRow, Go, At, Writes, Keys, Ended, Steps, caches, history, IInv, TypeOK,
         Checked, CreatedOnce
<1>2. /\ Placed' /\ OwnerKnown' /\ Checked' /\ RolesAndPresence'
      /\ OwnerListed' /\ StaleListExplained' /\ FetchExplained'
  BY <1>1, ListsFrame
     DEF ListsKept, caches, Telling, IInv, OwnerKnown, RolesAndPresence
<1>3. CreatedOnce'
  BY <1>1 DEF IInv, CreatedOnce
<1>4. MembersHaveRole'
  BY <1>1, RoleFrame DEF IInv, Writes, TypeOK
<1>5. TypeOK'
  BY <1>1, FaultType DEF IInv, TypeOK, Writes, caches
<1>. QED
  BY <1>2, <1>3, <1>4, <1>5 DEF IInv

(* The owner becomes a member; every list without it is behind. *)
LEMMA CreateOwnerInv ==
  ASSUME IInv, NEW r \in Reqs, CreateOwner(r) PROVE IInv'
<1>1. /\ pc[r] = "owner" /\ pc'[r] \in {"mkrole", "failed"}
      /\ UNCHANGED <<community, role, assigned, channels, caches, call, roleless, faults>>
      /\ Writes(r)
  BY DEF CreateOwner, Go, At, Writes, Keys, Ended, Steps, caches, IInv, TypeOK, Checked
<1>2. CreatedOnce'
  BY <1>1, CreatedFrame DEF IInv, Writes, TypeOK
<1>3. CASE UNCHANGED <<members, behind, present>>
  <2>1. /\ Placed' /\ OwnerKnown' /\ Checked' /\ RolesAndPresence'
        /\ OwnerListed' /\ StaleListExplained' /\ FetchExplained'
    BY <1>1, <1>3, ListsFrame
       DEF ListsKept, caches, Telling, IInv, OwnerKnown, RolesAndPresence
  <2>2. MembersHaveRole'
    BY <1>1, <1>3, RoleFrame DEF IInv, Writes, TypeOK
  <2>3. TypeOK'
    BY <1>1, <1>3, FaultType DEF IInv, TypeOK, Writes, caches
  <2>. QED
    BY <1>2, <2>1, <2>2, <2>3 DEF IInv
<1>4. CASE WriteMembers(members \cup {Owner}, {})
  <2> DEFINE S == members \cup {Owner}
  <2>1. /\ S \in SUBSET Users /\ assigned' \subseteq S /\ members' = S
        /\ {} \in SUBSET Nodes /\ \A n \in {} : Invalidating(n)'
    BY <1>1, <1>4, CommunityAssumption DEF IInv, TypeOK, RolesAndPresence, WriteMembers
  <2> HIDE DEF S
  <2>2. /\ members' \in SUBSET Users /\ behind' \in SUBSET Nodes
        /\ present' \in [Reqs -> BOOLEAN]
        /\ Placed' /\ OwnerKnown' /\ Checked' /\ RolesAndPresence'
        /\ (Owner \in members => Owner \in S \/ community' = "gone") /\
           (community = "gone" => community' = "gone") => OwnerListed'
        /\ StaleListExplained' /\ FetchExplained'
    <3>1. WriteMembers(S, {}) /\ UNCHANGED cache
      BY <1>1, <1>4 DEF S, caches
    <3>. QED
      BY <1>1, <2>1, <3>1, WriteMembersFrame
  <2>3. OwnerListed'
    BY <1>1, <2>2 DEF S
  <2>4. MembersHaveRole'
    <3>1. members' \ (assigned' \cup roleless' \cup {Owner})
            \subseteq members \ (assigned \cup roleless \cup {Owner})
      BY <1>1, <2>1 DEF S
    <3>. QED
      BY <1>1, <3>1, RoleFrame DEF IInv, Writes, TypeOK
  <2>5. TypeOK'
    BY <1>1, <2>2, FaultType DEF IInv, TypeOK, Writes, caches
  <2>. QED
    BY <1>2, <2>2, <2>3, <2>4, <2>5 DEF IInv
<1>. QED
  BY <1>3, <1>4 DEF CreateOwner

-----------------------------------------------------------------------------
(* A request arrives. *)
LEMMA StartInv ==
  ASSUME IInv, NEW r \in Reqs, NEW c \in Calls, Start(r, c) PROVE IInv'
<1> DEFINE p == FirstStep(c.kind)
<1>1. /\ pc[r] = "idle" /\ pc' = [pc EXCEPT ![r] = p] /\ call' = [call EXCEPT ![r] = c]
      /\ present' = [present EXCEPT ![r] = c.user \in members]
      /\ UNCHANGED <<database, caches, behind, roleless, faults>>
  BY DEF Start, Go
<1>2. /\ p \in {"row", "channel", "community"} /\ (p = "row" <=> c.kind = "create")
      /\ c.kind \in {"send", "read"} => p = "channel"
  BY DEF FirstStep
<1>3. /\ \A q \in Reqs : q # r => /\ pc'[q] = pc[q] /\ call'[q] = call[q]
                                  /\ present'[q] = present[q]
      /\ pc'[r] = p /\ call'[r] = c /\ present'[r] = (c.user \in members)
  BY <1>1 DEF IInv, TypeOK
<1>4. \A n \in Nodes, k \in Keys : \A q \in waiters[n][k] : q \in Reqs /\ q # r
  BY <1>1 DEF IInv, TypeOK, Placed, Keys
<1>5. TypeOK'
  BY <1>1, <1>2, FaultType DEF IInv, TypeOK, database, caches, Steps
<1>6. Placed'
  BY <1>1, <1>3, <1>4 DEF IInv, Placed, caches
<1>7. CreatedOnce'
  <2>1. CASE c.kind = "create"
    <3>1. community = "none" /\ \A q \in Reqs : pc[q] = "idle"
      BY <2>1 DEF Start
    <3>. QED
      BY <1>1, <1>3, <3>1 DEF IInv, CreatedOnce, database
  <2>2. CASE c.kind # "create"
    <3>1. community # "none"
      BY <2>2 DEF Start
    <3>. QED
      BY <1>1, <1>2, <1>3, <2>2, <3>1 DEF IInv, CreatedOnce, database
  <2>. QED
    BY <2>1, <2>2
<1>8. OwnerKnown'
  BY <1>1, <1>2, <1>3 DEF IInv, OwnerKnown, caches
<1>9. RolesAndPresence'
  <2>1. assigned' \subseteq members'
    BY <1>1 DEF IInv, RolesAndPresence, database
  <2>2. ASSUME NEW q \in Reqs, Running(q)', call'[q].user \in members' PROVE present'[q]
    <3>1. CASE q = r
      BY <1>1, <1>3, <2>2, <3>1 DEF database
    <3>2. CASE q # r
      BY <1>1, <1>3, <2>2, <3>2 DEF IInv, RolesAndPresence, Running, database
    <3>. QED
      BY <3>1, <3>2
  <2>. QED
    BY <2>1, <2>2 DEF RolesAndPresence
<1>10. OwnerListed' /\ ListsKept
  BY <1>1 DEF IInv, OwnerListed, OwnerNamed, Names, ListsKept, database, caches
<1>11. Checked'
  <2>1. \A n \in Nodes : OwnerNamed(n)' <=> OwnerNamed(n)
    BY <1>1 DEF OwnerNamed, Names, caches
  <2>. QED
    BY <1>2, <1>3, <2>1 DEF IInv, Checked, Guarded
<1>12. MembersHaveRole'
  BY <1>1, <1>3, RoleFrame DEF IInv, database
<1>13. StaleListExplained' /\ FetchExplained'
  BY <1>1, <1>3, <1>10, StaleFrame DEF IInv, Telling, database
<1>. QED
  BY <1>5, <1>6, <1>7, <1>8, <1>9, <1>10, <1>11, <1>12, <1>13 DEF IInv

-----------------------------------------------------------------------------
(* The singleflight calls. *)
LEMMA MissInv ==
  ASSUME IInv, NEW r \in Reqs, NEW k \in Keys, Miss(r, k) PROVE IInv'
<1> DEFINE n == Node(r)
<1>1. /\ pc[r] = k /\ n \in Nodes /\ n = call[r].node
      /\ waiters' = [waiters EXCEPT ![n][k] = waiters[n][k] \cup {r}]
      /\ UNCHANGED <<database, cache, fetched, call, pc, history, faults>>
  BY Arrived DEF Miss, At, Keys, Node
<1>2. /\ waiters' \in [Nodes -> [Keys -> SUBSET Reqs]]
      /\ waiters'[n][k] = waiters[n][k] \cup {r}
      /\ \A m \in Nodes, j \in Keys : m # n \/ j # k => waiters'[m][j] = waiters[m][j]
  <2>1. waiters[n][k] \cup {r} \in SUBSET Reqs
    BY <1>1 DEF IInv, TypeOK
  <2>. QED
    BY <1>1, <2>1, UpdateType DEF IInv, TypeOK
<1>3. TypeOK'
  BY <1>1, <1>2, FaultType DEF IInv, TypeOK, database, history
<1>4. Placed'
  BY <1>1, <1>2 DEF IInv, Placed
<1>5. Movers({}) /\ ListsKept
  BY <1>1 DEF Movers, ListsKept
<1>6. /\ CreatedOnce' /\ RolesAndPresence' /\ MembersHaveRole'
      /\ StaleListExplained' /\ FetchExplained' /\ OwnerListed'
  BY <1>1, <1>5, MoversFrame DEF history
<1>7. OwnerKnown' /\ Checked'
  BY <1>1 DEF IInv, OwnerKnown, Checked, Guarded, OwnerNamed, Names, history
<1>. QED
  BY <1>3, <1>4, <1>6, <1>7 DEF IInv

(* The filler reads what the database holds now. *)
LEMMA FillInv ==
  ASSUME IInv, NEW n \in Nodes, NEW k \in Keys, Fill(n, k) PROVE IInv'
<1>1. /\ fetched' = [fetched EXCEPT ![n][k] = Load(k)]
      /\ UNCHANGED <<database, cache, waiters, call, pc, history, faults>>
  BY DEF Fill
<1>2. /\ Load(k) \in SUBSET Users
      /\ k = "community" => Load(k) = {Owner}
      /\ k = "members" => Load(k) = Listed(members)
  BY ListedSubset, CommunityAssumption DEF Load, IInv, TypeOK
<1>3. /\ fetched' \in [Nodes -> [Keys -> {None} \cup SUBSET Users]]
      /\ fetched'[n][k] = Load(k)
      /\ \A m \in Nodes, j \in Keys : m # n \/ j # k => fetched'[m][j] = fetched[m][j]
  BY <1>1, <1>2, UpdateType DEF IInv, TypeOK
<1>4. TypeOK' /\ Placed'
  BY <1>1, <1>3, FaultType DEF IInv, TypeOK, Placed, database, history
<1>5. CreatedOnce' /\ RolesAndPresence' /\ MembersHaveRole'
  <2>1. Movers({})
    BY <1>1 DEF Movers
  <2>. QED
    BY <1>1, <2>1, MoversFrame DEF history
<1>6. OwnerKnown'
  BY <1>1, <1>2, <1>3 DEF IInv, OwnerKnown, Keys
<1>7. \A m \in Nodes : OwnerNamed(m)' => OwnerNamed(m) \/ Owner \in members
  BY <1>1, <1>2, <1>3, ListedSubset DEF OwnerNamed, Names, IInv, TypeOK, Keys
<1>8. OwnerListed'
  BY <1>1, <1>7 DEF IInv, OwnerListed, database
<1>9. Checked'
  <2>1. ASSUME NEW r \in Reqs, Guarded(r), pc[r] = "members", call[r].user = Owner,
               ~ present[r]
        PROVE  Owner \notin members
    BY <2>1 DEF IInv, RolesAndPresence, Running, Ended
  <2>. QED
    BY <1>1, <1>7, <2>1 DEF IInv, Checked, Guarded, history
<1>10. StaleListExplained' /\ FetchExplained'
  <2>1. Listed(members)' = Listed(members)
    BY <1>1 DEF Listed, database
  <2>2. \A m \in Nodes : Invalidating(m)' <=> Invalidating(m)
    BY <1>1 DEF Invalidating
  <2>3. \A m \in Nodes : fetched'[m]["members"] \in {fetched[m]["members"], Listed(members)}
    BY <1>2, <1>3 DEF Keys
  <2>. QED
    BY <1>1, <2>1, <2>2, <2>3 DEF IInv, StaleListExplained, FetchExplained, history
<1>. QED
  BY <1>4, <1>5, <1>6, <1>8, <1>9, <1>10 DEF IInv

(* The requests that wait for the call on k move on. *)
LEMMA ResumeFrame ==
  ASSUME IInv, NEW n \in Nodes, NEW k \in Keys,
         waiters' = [waiters EXCEPT ![n][k] = {}],
         \A r \in Reqs \ waiters[n][k] : pc'[r] = pc[r],
         \A r \in waiters[n][k] : pc'[r] \notin {"idle", "row"},
         UNCHANGED <<database, call, history>>
  PROVE  /\ waiters' \in [Nodes -> [Keys -> SUBSET Reqs]]
         /\ waiters[n][k] \in SUBSET Reqs /\ Movers(waiters[n][k])
         /\ Placed' /\ CreatedOnce' /\ RolesAndPresence' /\ MembersHaveRole'
<1> DEFINE W == waiters[n][k]
<1>1. W \in SUBSET Reqs /\ \A r \in W : r \in Reqs /\ pc[r] = k /\ call[r] \in Calls
  BY DEF IInv, TypeOK, Placed, Keys
<1>2. {} \in SUBSET Reqs
  OBVIOUS
<1>3. /\ waiters' \in [Nodes -> [Keys -> SUBSET Reqs]] /\ waiters'[n][k] = {}
      /\ \A m \in Nodes, j \in Keys : m # n \/ j # k => waiters'[m][j] = waiters[m][j]
  BY <1>2, UpdateType DEF IInv, TypeOK
<1>5. Movers(W)
  BY <1>1 DEF Movers, Keys, Ended, Telling
<1>6. CreatedOnce' /\ RolesAndPresence' /\ MembersHaveRole'
  BY <1>1, <1>5, MoversFrame DEF history
<1>7. Placed'
  <2>1. ASSUME NEW m \in Nodes, NEW j \in Keys, NEW r \in waiters'[m][j]
        PROVE  r \in waiters[m][j] /\ r \in Reqs /\ r \notin W
    <3>1. (m # n \/ j # k) /\ r \in waiters[m][j]
      BY <2>1, <1>3
    <3>. QED
      BY <3>1, <1>1 DEF IInv, TypeOK, Placed
  <2>2. \A m \in Nodes, j \in Keys : \A r \in waiters'[m][j] :
          pc'[r] = j /\ call'[r].node = m
    BY <2>1 DEF IInv, Placed
  <2>3. \A r \in Reqs : pc'[r] # "idle" => call'[r] \in Calls
    BY <1>1 DEF IInv, Placed
  <2>. QED
    BY <2>2, <2>3 DEF Placed
<1>. QED
  BY <1>1, <1>3, <1>5, <1>6, <1>7

(* A fill that fails sends everyone who waits to an end. *)
LEMMA FillFailsInv ==
  ASSUME IInv, NEW n \in Nodes, NEW k \in Keys, FillFails(n, k) PROVE IInv'
<1> DEFINE W == waiters[n][k]
<1>1. /\ waiters' = [waiters EXCEPT ![n][k] = {}]
      /\ pc' = [r \in Reqs |->
           IF r \in W THEN IF k = "community" THEN "notfound" ELSE "failed" ELSE pc[r]]
      /\ UNCHANGED <<database, cache, fetched, call, history>>
      /\ Fault \/ UNCHANGED faults
  BY DEF FillFails, Resume
<1>2. /\ \A r \in Reqs \ W : pc'[r] = pc[r]
      /\ \A r \in W : r \in Reqs /\ pc'[r] \in {"notfound", "failed"}
  BY <1>1 DEF IInv, TypeOK
<1>3. /\ waiters' \in [Nodes -> [Keys -> SUBSET Reqs]]
      /\ W \in SUBSET Reqs /\ Movers(W)
      /\ Placed' /\ CreatedOnce' /\ RolesAndPresence' /\ MembersHaveRole'
  BY <1>1, <1>2, ResumeFrame
<1>4. TypeOK'
  <2>1. pc' \in [Reqs -> Steps \cup Ended]
    BY <1>1 DEF IInv, TypeOK, Ended
  <2>. QED
    BY <1>1, <1>3, <2>1, FaultType DEF IInv, TypeOK, database, history
<1>5. StaleListExplained' /\ FetchExplained' /\ OwnerListed'
  BY <1>1, <1>3, MoversFrame DEF ListsKept, history
<1>6. OwnerKnown'
  BY <1>1, <1>2 DEF IInv, OwnerKnown
<1>7. Checked'
  <2>1. \A m \in Nodes : OwnerNamed(m)' <=> OwnerNamed(m)
    BY <1>1 DEF OwnerNamed, Names
  <2>. QED
    BY <1>1, <1>2, <2>1 DEF IInv, Checked, Guarded, history, Ended
<1>. QED
  BY <1>3, <1>4, <1>5, <1>6, <1>7 DEF IInv

(* What the filler read is cached, however old, and everyone who waits goes on with it. *)
LEMMA AddInv ==
  ASSUME IInv, NEW n \in Nodes, NEW k \in Keys, Add(n, k) PROVE IInv'
<1> DEFINE W == waiters[n][k]
<1> DEFINE v == fetched[n][k]
<1>1. /\ waiters' = [waiters EXCEPT ![n][k] = {}]
      /\ pc' = [r \in Reqs |-> IF r \in W THEN AfterGet(call[r], k, v) ELSE pc[r]]
      /\ cache' = [cache EXCEPT ![n][k] = v] /\ fetched' = [fetched EXCEPT ![n][k] = None]
      /\ UNCHANGED <<database, call, history, faults>>
      /\ v # None
  BY DEF Add, Resume
<1>2. /\ v \in {None} \cup SUBSET Users /\ None \in {None} \cup SUBSET Users
      /\ k = "community" => v = {Owner}
  BY <1>1 DEF IInv, TypeOK, OwnerKnown
<1>3. /\ cache' \in [Nodes -> [Keys -> {None} \cup SUBSET Users]] /\ cache'[n][k] = v
      /\ \A m \in Nodes, j \in Keys : m # n \/ j # k => cache'[m][j] = cache[m][j]
  BY <1>1, <1>2, UpdateType DEF IInv, TypeOK
<1>4. /\ fetched' \in [Nodes -> [Keys -> {None} \cup SUBSET Users]]
      /\ fetched'[n][k] = None
      /\ \A m \in Nodes, j \in Keys : m # n \/ j # k => fetched'[m][j] = fetched[m][j]
  BY <1>1, <1>2, UpdateType DEF IInv, TypeOK
<1>5. \A r \in W : r \in Reqs /\ pc[r] = k /\ call[r] \in Calls
  BY DEF IInv, TypeOK, Placed, Keys
<1>6. /\ \A r \in Reqs \ W : pc'[r] = pc[r]
      /\ \A r \in W : pc'[r] = AfterGet(call[r], k, v)
  BY <1>1, <1>5
<1>7. \A r \in W : pc'[r] \in Moved /\ (pc'[r] = "remove" => call[r].target # Owner)
  BY <1>2, <1>5, <1>6, AfterGetFacts
<1>8. /\ waiters' \in [Nodes -> [Keys -> SUBSET Reqs]]
      /\ W \in SUBSET Reqs /\ Movers(W)
      /\ Placed' /\ CreatedOnce' /\ RolesAndPresence' /\ MembersHaveRole'
  BY <1>1, <1>6, <1>7, ResumeFrame DEF Moved
<1>9. TypeOK'
  <2>1. pc' \in [Reqs -> Steps \cup Ended]
    BY <1>1, <1>6, <1>7 DEF IInv, TypeOK, Moved, Steps, Ended
  <2>. QED
    BY <1>1, <1>3, <1>4, <1>8, <2>1 DEF IInv, TypeOK, database, history
<1>10. OwnerKnown'
  BY <1>1, <1>2, <1>3, <1>4, <1>6, <1>7 DEF IInv, OwnerKnown, Keys
<1>11. \A m \in Nodes : OwnerNamed(m)' => OwnerNamed(m)
  BY <1>3, <1>4 DEF OwnerNamed, Names, Keys
<1>12. OwnerListed'
  BY <1>1, <1>11 DEF IInv, OwnerListed, database
<1>13. Checked'
  <2>1. ASSUME NEW r \in W, Guarded(r)
        PROVE  /\ pc'[r] \in {"community", "roles", "act", "notmember"}
               /\ pc'[r] = "act" => present[r]
               /\ pc'[r] = "community" /\ call[r].user = Owner => present[r]
    <3>1. CASE k = "community"
      BY <2>1, <3>1, <1>2, <1>5, <1>6, AfterGetFacts DEF Guarded, IInv, Checked
    <3>2. CASE k = "members"
      <4>1. call[r].user = Owner /\ Owner \in v => present[r]
        BY <2>1, <3>2, <1>1, <1>5 DEF IInv, Checked, OwnerNamed, Names
      <4>. QED
        BY <3>2, <4>1, <1>5, <1>6, AfterGetFacts
    <3>. QED
      BY <3>1, <3>2 DEF Keys
  <2>2. \A r \in Reqs : Guarded(r)' => Guarded(r)
    BY <1>1, <1>5, <1>6 DEF Guarded, Keys
  <2>. QED
    BY <1>1, <1>6, <1>11, <2>1, <2>2 DEF IInv, Checked, history, Ended
<1>14. StaleListExplained' /\ FetchExplained'
  <2>1. Listed(members)' = Listed(members)
    BY <1>1 DEF Listed, database
  <2>2. \A m \in Nodes : Invalidating(m) => Invalidating(m)'
    BY <1>1, <1>5, <1>6 DEF Invalidating, Keys
  <2>3. \A m \in Nodes :
          /\ cache'[m]["members"] \in {cache[m]["members"], fetched[m]["members"]}
          /\ fetched'[m]["members"] \in {None, fetched[m]["members"]}
    BY <1>3, <1>4 DEF Keys
  <2>. QED
    BY <1>1, <2>1, <2>2, <2>3 DEF IInv, StaleListExplained, FetchExplained, history
<1>. QED
  BY <1>8, <1>9, <1>10, <1>12, <1>13, <1>14 DEF IInv

-----------------------------------------------------------------------------
(* A process dies. *)
LEMMA CrashInv ==
  ASSUME IInv, NEW n \in Nodes, Crash(n) PROVE IInv'
<1> DEFINE lost == {r \in Reqs : Running(r) /\ Node(r) = n}
<1>1. /\ cache' = [cache EXCEPT ![n] = [k \in Keys |-> None]]
      /\ waiters' = [waiters EXCEPT ![n] = [k \in Keys |-> {}]]
      /\ fetched' = [fetched EXCEPT ![n] = [k \in Keys |-> None]]
      /\ pc' = [r \in Reqs |-> IF r \in lost THEN "failed" ELSE pc[r]]
      /\ roleless' = roleless \cup ((members \ assigned) \cap
           {call[r].user : r \in {q \in lost : pc[q] \in {"joined", "everyone"}}})
      /\ behind' = behind \ {n}
      /\ UNCHANGED <<database, call, present>>
      /\ Fault
  BY DEF Crash
<1>2. /\ \A k \in Keys : cache'[n][k] = None /\ waiters'[n][k] = {} /\ fetched'[n][k] = None
      /\ \A m \in Nodes : m # n => /\ cache'[m] = cache[m] /\ waiters'[m] = waiters[m]
                                   /\ fetched'[m] = fetched[m]
  BY <1>1 DEF IInv, TypeOK
<1>3. \A r \in Reqs :
        \/ pc'[r] = pc[r] /\ r \notin lost
        \/ pc'[r] = "failed" /\ Running(r) /\ Node(r) = n
  BY <1>1
<1>4. TypeOK'
  <2>1. pc' \in [Reqs -> Steps \cup Ended]
    BY <1>1 DEF IInv, TypeOK, Ended
  <2>2. /\ cache' \in [Nodes -> [Keys -> {None} \cup SUBSET Users]]
        /\ waiters' \in [Nodes -> [Keys -> SUBSET Reqs]]
        /\ fetched' \in [Nodes -> [Keys -> {None} \cup SUBSET Users]]
    BY <1>1 DEF IInv, TypeOK
  <2>3. roleless' \in SUBSET Users /\ behind' \in SUBSET Nodes
    BY <1>1 DEF IInv, TypeOK
  <2>. QED
    BY <1>1, <2>1, <2>2, <2>3, FaultType DEF IInv, TypeOK, database
<1>5. Placed'
  <2>1. ASSUME NEW m \in Nodes, NEW k \in Keys, NEW r \in waiters'[m][k]
        PROVE  pc'[r] = k /\ call'[r].node = m
    <3>1. m # n /\ r \in waiters[m][k]
      BY <1>2, <2>1
    <3>2. r \in Reqs /\ pc[r] = k /\ call[r].node = m
      BY <3>1 DEF IInv, TypeOK, Placed
    <3>. QED
      BY <1>1, <1>3, <3>1, <3>2 DEF Node
  <2>2. \A r \in Reqs : pc'[r] # "idle" => call'[r] \in Calls
    BY <1>1, <1>3 DEF IInv, Placed, Running
  <2>. QED
    BY <2>1, <2>2 DEF Placed
<1>6. CreatedOnce'
  BY <1>1, <1>3, CreatedFrame DEF IInv, database, Running
<1>7. RolesAndPresence'
  <2>1. \A q \in Reqs : pc'[q] \notin Ended \cup {"idle"} =>
          pc[q] \notin Ended \cup {"idle"} /\ call'[q] = call[q]
    BY <1>1, <1>3 DEF Running, Ended
  <2>. QED
    BY <1>1, <2>1, PresenceFrame DEF IInv, RolesAndPresence, database
<1>8. OwnerKnown'
  BY <1>1, <1>2, <1>3 DEF IInv, OwnerKnown, Keys
<1>9. \A m \in Nodes : OwnerNamed(m)' => OwnerNamed(m)
  BY <1>2 DEF OwnerNamed, Names, Keys
<1>10. OwnerListed'
  BY <1>1, <1>9 DEF IInv, OwnerListed, database
<1>11. Checked'
  BY <1>1, <1>3, <1>9 DEF IInv, Checked, Guarded, Running, Ended
<1>12. MembersHaveRole'
  <2>1. SUFFICES ASSUME NEW u \in members \ (assigned \cup roleless' \cup {Owner})
                 PROVE  \E r \in Reqs : /\ pc'[r] \in {"joined", "everyone"}
                                        /\ call'[r].user = u
    BY <1>1 DEF MembersHaveRole, database
  <2>2. PICK r \in Reqs : pc[r] \in {"joined", "everyone"} /\ call[r].user = u
    BY <1>1, <2>1 DEF IInv, MembersHaveRole
  <2>3. r \notin lost
    BY <1>1, <2>1, <2>2
  <2>. QED
    BY <1>1, <2>2, <2>3
<1>13. StaleListExplained' /\ FetchExplained'
  <2>1. Listed(members)' = Listed(members)
    BY <1>1 DEF Listed, database
  <2>2. ASSUME NEW m \in Nodes, m # n, Invalidating(m) PROVE Invalidating(m)'
    BY <1>1, <1>3, <2>2 DEF Invalidating, Node
  <2>. QED
    BY <1>1, <1>2, <2>1, <2>2 DEF IInv, StaleListExplained, FetchExplained, Keys
<1>. QED
  BY <1>4, <1>5, <1>6, <1>7, <1>8, <1>10, <1>11, <1>12, <1>13 DEF IInv

-----------------------------------------------------------------------------
(* Every step, and a stutter, preserves the invariant. *)
LEMMA StepInv == IInv /\ [Next]_vars => IInv'
<1> SUFFICES ASSUME IInv, [Next]_vars PROVE IInv'
  OBVIOUS
<1>1. ASSUME NEW r \in Reqs, NEW c \in Calls, Start(r, c) PROVE IInv'
  BY <1>1, StartInv
<1>2. ASSUME NEW r \in Reqs, Handle(r) \/ DatabaseError(r) PROVE IInv'
  <2>1. \/ Reading(r) \/ \E k \in Keys : Miss(r, k)
        \/ JoinAdd(r) \/ JoinInvalidate(r) \/ JoinRole(r)
        \/ Remove(r) \/ RemoveInvalidate(r) \/ Delete(r)
        \/ UpdateInvalidate(r) \/ DeleteInvalidate(r) \/ CreateSet(r)
        \/ Builds(r) \/ CreateRow(r) \/ CreateOwner(r)
    BY <1>2 DEF Handle, Join, Create, Manage, Reading, Builds
  <2>. QED
    BY <2>1, ReadingInv, MissInv, JoinAddInv, JoinInvalidateInv, JoinRoleInv, RemoveInv,
       RemoveInvalidateInv, DeleteInv, RowCacheInv, BuildsInv, CreateRowInv, CreateOwnerInv
<1>3. ASSUME NEW n \in Nodes, NEW k \in Keys, Flight(n, k) PROVE IInv'
  BY <1>3, FillInv, FillFailsInv, AddInv DEF Flight
<1>4. ASSUME NEW n \in Nodes, Crash(n) PROVE IInv'
  BY <1>4, CrashInv
<1>5. CASE UNCHANGED vars
  <2>1. Movers({}) /\ ListsKept
    BY <1>5 DEF vars, Movers, ListsKept
  <2>2. /\ CreatedOnce' /\ RolesAndPresence' /\ MembersHaveRole'
        /\ StaleListExplained' /\ FetchExplained' /\ OwnerListed'
    BY <1>5, <2>1, MoversFrame DEF vars, database
  <2>3. TypeOK' /\ Placed'
    BY <1>5 DEF vars, IInv, TypeOK, Placed
  <2>4. OwnerKnown' /\ Checked'
    BY <1>5 DEF vars, IInv, OwnerKnown, Checked, Guarded, OwnerNamed, Names
  <2>. QED
    BY <2>2, <2>3, <2>4 DEF IInv
<1>. QED
  BY <1>1, <1>2, <1>3, <1>4, <1>5 DEF Next

(* The inductive invariant holds in every reachable state. *)
THEOREM Inductive == Spec => []IInv
BY InitIInv, StepInv, PTL DEF Spec

(* The type invariant, for any users, nodes, requests and faults. *)
THEOREM TypeCorrect == Spec => []TypeOK
<1>1. IInv => TypeOK
  BY DEF IInv
<1>. QED
  BY <1>1, Inductive, PTL

(* A SendMessage or GetMessages that succeeds is one of a user who was a       *)
(* member while it ran, whatever list the process had cached.                *)
THEOREM RemovedCannotPostHolds == Spec => []RemovedCannotPost
<1>1. IInv => RemovedCannotPost
  BY DEF IInv, Checked, Guarded, RemovedCannotPost
<1>. QED
  BY <1>1, Inductive, PTL

(* No interleaving of joins, leaves, kicks and crashes costs a member its     *)
(* role, other than the failures MembersHaveRole names.                      *)
THEOREM MembersKeepRole == Spec => []MembersHaveRole
<1>1. IInv => MembersHaveRole
  BY DEF IInv
<1>. QED
  BY <1>1, Inductive, PTL

(* A cached list differs from the table only for the reasons named. *)
THEOREM StaleListsAreExplained == Spec => []StaleListExplained
<1>1. IInv => StaleListExplained
  BY DEF IInv
<1>. QED
  BY <1>1, Inductive, PTL

(* The owner of a community that lives on never stops being a member: no      *)
(* step removes it from community_members.                                   *)
THEOREM OwnerAlwaysStays == Spec => OwnerStays
<1> DEFINE A == (Owner \in members /\ community' = "live") => (Owner \in members')
<1>1. IInv /\ [Next]_vars => [A]_vars
  <2> SUFFICES ASSUME IInv, Next, Owner \in members, community' = "live"
               PROVE  Owner \in members'
    OBVIOUS
  <2>1. ASSUME NEW r \in Reqs, Remove(r) PROVE Owner \in members'
    BY <2>1 DEF Remove, WriteMembers, At, IInv, OwnerKnown
  <2>2. ASSUME NEW r \in Reqs, JoinAdd(r) \/ CreateOwner(r) PROVE Owner \in members'
    BY <2>2 DEF JoinAdd, CreateOwner, WriteMembers
  <2>3. ASSUME NEW r \in Reqs, Delete(r) PROVE FALSE
    BY <2>3 DEF Delete
  <2>4. CASE UNCHANGED members
    BY <2>4
  <2>5. \/ UNCHANGED members
        \/ \E r \in Reqs : Remove(r) \/ JoinAdd(r) \/ CreateOwner(r) \/ Delete(r)
    BY DEF Next, Start, Handle, DatabaseError, Hit, Miss, GetChannel, CheckPermission,
       Access, Join, JoinPublic, JoinGetMember, JoinInvalidate, JoinRole,
       RemoveInvalidate, Create, CreateRow, CreateRole, CreateAssign, CreateGeneral,
       CreateSet, Manage, Update, UpdateInvalidate, CreateChannel, DeleteChannel,
       DeleteInvalidate, Flight, Fill, FillFails, Add, Crash, database
  <2>. QED
    BY <2>1, <2>2, <2>3, <2>4, <2>5
<1>. QED
  BY <1>1, Inductive, PTL DEF Spec, OwnerStays

=============================================================================
