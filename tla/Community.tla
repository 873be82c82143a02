------------------------------ MODULE Community ------------------------------
(***************************************************************************)
(* community-service: one community, its channels, its members and their   *)
(* @everyone role in PostgreSQL, and the two LRU caches each process keeps  *)
(* in front of it (pkg/groupcache): the community row and the member list.  *)
(*                                                                         *)
(* A request is one call of the API, handled by one process.  Each database *)
(* statement and each cache operation is a step: the handlers use no        *)
(* transaction, and other requests run between two of their calls.          *)
(* A cache Get is a hit, or a singleflight call: the first request starts   *)
(* it, others join it, the filler reads the database, the value is added to *)
(* the LRU and handed to all that wait.  Remove does not stop a call in     *)
(* flight, and reaches the cache of the local process only.                 *)
(***************************************************************************)
EXTENDS Naturals, FiniteSets

CONSTANTS
  Users,        \* user ids: numbers, since the member list is ordered by id
  Owner,        \* the user who creates the community
  Nodes,        \* the processes of community-service
  Warm,         \* the processes that have served the member list before
  Reqs,         \* bound on the requests handled
  Channels,     \* bound on the channels that are followed
  Kinds,        \* the API calls that are made
  None,
  MaxListed,    \* the page the members filler asks for (1000 in the code)
  MaxFaults     \* bound on database errors and process crashes

AllKinds == {"create", "update", "delete", "mkchannel", "rmchannel", "join",
             "leave", "kick", "send", "read"}
Keys == {"community", "members"}

ASSUME CommunityAssumption ==
  /\ Users \subseteq Nat /\ Owner \in Users
  /\ Kinds \subseteq AllKinds
  /\ \A S \in SUBSET Users : None # S
  /\ MaxFaults \in Nat /\ MaxListed \in Nat

VARIABLES
  community,    \* the row: "none" (not yet inserted), "live", "gone"
  members,      \* community_members
  role,         \* the @everyone role exists
  assigned,     \* member_roles: the members who have it
  channels,     \* channels[c]: "none", "live", "gone"
  cache,        \* cache[n][k]: the value in the LRU of n, or None
  waiters,      \* waiters[n][k]: the requests in the singleflight call
  fetched,      \* fetched[n][k]: what its filler has read, or None
  call,         \* call[r]: the request, None before it arrives
  pc,           \* pc[r]: the next call of its handler, or its outcome
  present,      \* history: present[r], its user was a member while it ran
  behind,       \* history: nodes that hold a list no invalidation will reach
  roleless,     \* history: members whose AssignRole failed or was not reached
  faults

database == <<community, members, role, assigned, channels>>
caches == <<cache, waiters, fetched>>
history == <<present, behind, roleless>>
vars == <<community, members, role, assigned, channels, cache, waiters,
          fetched, call, pc, present, behind, roleless, faults>>

(* Each call has a user and a node; only some have a target or a channel. *)
Calls == [kind : Kinds, user : Users, target : Users, node : Nodes,
          channel : Channels]
Ended == {"ok", "denied", "notmember", "notfound", "failed", "panicked"}
Steps == {"idle", "row", "owner", "mkrole", "assign", "general", "set",
          "channel", "members", "community", "roles", "public", "add",
          "getmember", "nomember", "joined", "everyone", "nilmember",
          "remove", "act",
          "removed", "updated", "deleted"}

(* One type invariant for the module. *)
TypeOK ==
  /\ community \in {"none", "live", "gone"}
  /\ members \in SUBSET Users /\ assigned \in SUBSET Users
  /\ role \in BOOLEAN
  /\ channels \in [Channels -> {"none", "live", "gone"}]
  /\ cache \in [Nodes -> [Keys -> {None} \cup SUBSET Users]]
  /\ waiters \in [Nodes -> [Keys -> SUBSET Reqs]]
  /\ fetched \in [Nodes -> [Keys -> {None} \cup SUBSET Users]]
  /\ call \in [Reqs -> {None} \cup Calls]
  /\ pc \in [Reqs -> Steps \cup Ended]
  /\ present \in [Reqs -> BOOLEAN]
  /\ behind \in SUBSET Nodes /\ roleless \in SUBSET Users
  /\ faults \in 0..MaxFaults

(* Fault variant: a row of the outer join without a user. *)
ListedWithNull(S) == S \cup {None}

(* The member list, in the order of user ids, cut at the page of the filler. *)
Listed(S) == {u \in S : Cardinality({v \in S : v < u}) < MaxListed}

(* Before the community is created, or once it is and has some members, whose *)
(* list the warm processes have in their cache.                             *)
Init ==
  /\ \/ /\ community = "none" /\ members = {} /\ role = FALSE
        /\ channels = [c \in Channels |-> "none"]
     \/ /\ community = "live" /\ role = TRUE
        /\ members \in {S \in SUBSET Users : Owner \in S}
        /\ \E c \in Channels :
             channels = [d \in Channels |-> IF d = c THEN "live" ELSE "none"]
  /\ assigned = members
  /\ cache = [n \in Nodes |-> [k \in Keys |->
       IF community = "live" /\ n \in Warm /\ k = "members"
       THEN Listed(members) ELSE None]]
  /\ waiters = [n \in Nodes |-> [k \in Keys |-> {}]]
  /\ fetched = [n \in Nodes |-> [k \in Keys |-> None]]
  /\ call = [r \in Reqs |-> None]
  /\ pc = [r \in Reqs |-> "idle"]
  /\ present = [r \in Reqs |-> FALSE]
  /\ behind = {} /\ roleless = {} /\ faults = 0

Go(r, p) == pc' = [pc EXCEPT ![r] = p]
Fault == faults < MaxFaults /\ faults' = faults + 1
At(r, p) == pc[r] = p
Kind(r) == call[r].kind
Node(r) == call[r].node
Running(r) == pc[r] \notin Ended \cup {"idle"}

-----------------------------------------------------------------------------
(* A request arrives.  The id of the community is known once its row is      *)
(* visible: it can be searched for and joined from then on.                 *)
FirstStep(k) ==
  CASE k = "create" -> "row"
    [] k \in {"send", "read", "rmchannel"} -> "channel"
    [] OTHER -> "community"

Start(r, c) ==
  /\ pc[r] = "idle"
  /\ IF c.kind = "create"
     THEN c.user = Owner /\ community = "none" /\ \A q \in Reqs : pc[q] = "idle"
     ELSE community # "none"
  /\ c.kind # "kick" => c.target = c.user
  /\ call' = [call EXCEPT ![r] = c]
  /\ Go(r, FirstStep(c.kind))
  /\ present' = [present EXCEPT ![r] = c.user \in members]
  /\ UNCHANGED <<database, caches, behind, roleless, faults>>

(* A database error ends the handler with an error, before its statement     *)
(* took effect.  The two AssignRole calls only log it.                      *)
DatabaseSteps == {"row", "owner", "mkrole", "general", "channel", "roles",
                  "public", "add", "getmember", "remove", "act"}

DatabaseError(r) ==
  /\ pc[r] \in DatabaseSteps
  /\ Fault
  /\ Go(r, "failed")
  /\ UNCHANGED <<database, caches, call, history>>

-----------------------------------------------------------------------------
(* What the fillers read: of the community row only owner_id is used.        *)
Load(k) == IF k = "members" THEN Listed(members) ELSE {Owner}

(* Fault variant: the owner may leave. *)
AnyoneLeaves(c, owner) ==
  CASE c.kind = "join" -> "public"
    [] c.kind = "leave" \/ c.target = c.user -> "remove"
    [] OTHER -> IF c.user \in owner THEN "act" ELSE "roles"

(* checkPermission for the owner passes without a look at the roles;         *)
(* everyone else goes on to ListMemberRoles.  Join only needs the row.  The   *)
(* owner can neither leave nor be kicked.                                   *)
AfterCommunity(c, owner) ==
  CASE c.kind = "join" -> "public"
    [] c.kind = "delete" -> IF c.user \in owner THEN "act" ELSE "denied"
    [] c.kind \in {"leave", "kick"} /\ c.target = c.user ->
         IF c.user \in owner THEN "denied" ELSE "remove"
    [] c.kind = "kick" /\ c.target # c.user ->
         IF c.user \notin owner THEN "roles"
         ELSE IF c.target \in owner THEN "denied" ELSE "remove"
    [] OTHER -> IF c.user \in owner THEN "act" ELSE "roles"

(* cachedMembersSet(members)[callerID] of SendMessage and GetMessages. *)
AfterMembers(c, list) == IF c.user \in list THEN "community" ELSE "notmember"

AfterGet(c, k, v) ==
  IF k = "members" THEN AfterMembers(c, v) ELSE AfterCommunity(c, v)

(* Cache.Get with the key in the LRU. *)
Hit(r, k) ==
  /\ At(r, k) /\ r \notin waiters[Node(r)][k]
  /\ cache[Node(r)][k] # None
  /\ Go(r, AfterGet(call[r], k, cache[Node(r)][k]))
  /\ UNCHANGED <<database, caches, call, history, faults>>

(* Cache.Get without it: the request starts or joins the singleflight call. *)
Miss(r, k) ==
  /\ At(r, k) /\ r \notin waiters[Node(r)][k]
  /\ cache[Node(r)][k] = None
  /\ waiters' = [waiters EXCEPT ![Node(r)][k] = @ \cup {r}]
  /\ UNCHANGED <<database, cache, fetched, call, pc, history, faults>>

(* Everyone who waits for the call moves on. *)
Resume(n, k, p(_)) ==
  /\ pc' = [r \in Reqs |-> IF r \in waiters[n][k] THEN p(r) ELSE pc[r]]
  /\ waiters' = [waiters EXCEPT ![n][k] = {}]

(* The filler: a row that is not there is an error, and is not cached; a     *)
(* failing query is an error for everyone who joined the call.              *)
Fill(n, k) ==
  /\ waiters[n][k] # {} /\ fetched[n][k] = None
  /\ k = "community" => community = "live"
  /\ fetched' = [fetched EXCEPT ![n][k] = Load(k)]
  /\ UNCHANGED <<database, cache, waiters, call, pc, history, faults>>

FillFails(n, k) ==
  /\ waiters[n][k] # {} /\ fetched[n][k] = None
  /\ \/ k = "community" /\ community # "live" /\ UNCHANGED faults
     \/ Fault
  /\ Resume(n, k, LAMBDA r : IF k = "community" THEN "notfound" ELSE "failed")
  /\ UNCHANGED <<database, cache, fetched, call, history>>

(* Fault variant: the value is cached and the call does not return. *)
AddOnly(n, k) ==
  /\ fetched[n][k] # None
  /\ cache' = [cache EXCEPT ![n][k] = fetched[n][k]]
  /\ UNCHANGED <<database, waiters, fetched, call, pc, history, faults>>

(* lru.Add, after whatever happened since the filler's query. *)
Add(n, k) ==
  /\ fetched[n][k] # None
  /\ cache' = [cache EXCEPT ![n][k] = fetched[n][k]]
  /\ fetched' = [fetched EXCEPT ![n][k] = None]
  /\ Resume(n, k, LAMBDA r : AfterGet(call[r], k, fetched[n][k]))
  /\ UNCHANGED <<database, call, history, faults>>

-----------------------------------------------------------------------------
(* GetChannel by id: a channel of the community, read from the database. *)
GetChannel(r) ==
  /\ At(r, "channel")
  /\ Go(r, IF channels[call[r].channel] # "live" THEN "notfound"
           ELSE IF Kind(r) = "rmchannel" THEN "community" ELSE "members")
  /\ UNCHANGED <<database, caches, call, history, faults>>

(* ComputePermissions and HasPermission: the union of the roles' bits.  The  *)
(* only role is @everyone, which reads and sends.                           *)
EveryonePermissions == {"read", "send"}

(* Fault variant: a user with the list behind it needs no role. *)
TrustTheList(u, required) == required \in EveryonePermissions

ComputePermissions(u) == IF u \in assigned THEN EveryonePermissions ELSE {}
HasPermission(u, required) == required \in ComputePermissions(u)

(* ListMemberRoles, from the database. *)
CheckPermission(r) ==
  /\ At(r, "roles")
  /\ Go(r, IF HasPermission(call[r].user, Kind(r)) THEN "act" ELSE "denied")
  /\ UNCHANGED <<database, caches, call, history, faults>>

(* InsertChannelMessage, whose foreign key needs the channel, and            *)
(* GetChannelMessages, which finds nothing in a deleted channel.            *)
Access(r) ==
  /\ At(r, "act") /\ Kind(r) \in {"send", "read"}
  /\ Go(r, IF Kind(r) = "send" /\ channels[call[r].channel] # "live"
           THEN "failed" ELSE "ok")
  /\ UNCHANGED <<database, caches, call, history, faults>>

-----------------------------------------------------------------------------
(* A statement that makes S the members leaves every list behind that was    *)
(* cached or fetched before it, except on the nodes that are told next.      *)
Outdated(n, S) == \/ cache[n]["members"] \notin {None, Listed(S)}
                  \/ fetched[n]["members"] \notin {None, Listed(S)}

WriteMembers(S, told) ==
  /\ members' = S
  /\ behind' = behind \cup {n \in Nodes \ told : Outdated(n, S)}
  /\ present' = [q \in Reqs |->
       present[q] \/ (Running(q) /\ call[q].user \in S)]

(* Fault variant: the cached list is kept. *)
KeepList(n) == /\ UNCHANGED <<caches, behind>>

(* MembersCache.Invalidate on the local process.  A call in flight that read *)
(* the table before the write will put its list back.                       *)
InvalidateMembers(n) ==
  /\ cache' = [cache EXCEPT ![n]["members"] = None]
  /\ behind' = IF fetched[n]["members"] \in {None, Listed(members)}
               THEN behind \ {n} ELSE behind \cup {n}
  /\ UNCHANGED <<waiters, fetched>>

InvalidateCommunity(n) ==
  /\ cache' = [cache EXCEPT ![n]["community"] = None]
  /\ UNCHANGED <<waiters, fetched, behind>>

(* JoinCommunity: IsCommunityPublic (every community is, no call changes it). *)
JoinPublic(r) ==
  /\ At(r, "public")
  /\ Go(r, IF community = "live" THEN "add" ELSE "notfound")
  /\ UNCHANGED <<database, caches, call, history, faults>>

(* AddMember: INSERT ... ON CONFLICT DO NOTHING; on a conflict the row is     *)
(* read by a second statement, and may be gone by then.                     *)
JoinAdd(r) ==
  /\ At(r, "add")
  /\ \/ /\ community # "live"
        /\ Go(r, "failed") /\ UNCHANGED <<members, present, behind>>
     \/ /\ community = "live" /\ call[r].user \in members
        /\ Go(r, "getmember") /\ UNCHANGED <<members, present, behind>>
     \/ /\ community = "live" /\ call[r].user \notin members
        /\ Go(r, "joined") /\ WriteMembers(members \cup {call[r].user}, {Node(r)})
  /\ UNCHANGED <<community, role, assigned, channels, caches, call, roleless,
                 faults>>

JoinGetMember(r) ==
  /\ At(r, "getmember")
  /\ Go(r, IF call[r].user \in members THEN "joined" ELSE "nomember")
  /\ UNCHANGED <<database, caches, call, history, faults>>

(* Fault variant: a new member gets no role. *)
JoinWithoutRole(r) ==
  /\ pc[r] \in {"joined", "nomember"}
  /\ InvalidateMembers(Node(r))
  /\ Go(r, "ok")
  /\ UNCHANGED <<database, call, present, roleless, faults>>

(* The list is invalidated, then the role is looked up and assigned. *)
JoinInvalidate(r) ==
  /\ pc[r] \in {"joined", "nomember"}
  /\ InvalidateMembers(Node(r))
  /\ Go(r, IF At(r, "joined") THEN "everyone" ELSE "nilmember")
  /\ UNCHANGED <<database, call, present, roleless, faults>>

(* GetDefaultRole and AssignRole; an error, such as that of the foreign key   *)
(* for a user who is no member any more, is logged and the join succeeds.     *)
(* With (nil, nil) from GetMember the handler then dies on member.Nickname.  *)
JoinRole(r) ==
  /\ \/ At(r, "everyone") /\ Go(r, "ok")
     \/ At(r, "nilmember") /\ Go(r, "panicked")
  /\ LET u == call[r].user IN
       \/ /\ role /\ u \in members
          /\ assigned' = assigned \cup {u}
          /\ roleless' = roleless \ {u}
          /\ UNCHANGED faults
       \/ /\ IF role /\ u \in members THEN Fault ELSE UNCHANGED faults
          /\ roleless' = roleless \cup ((members \ assigned) \cap {u})
          /\ UNCHANGED assigned
  /\ UNCHANGED <<community, members, role, channels, caches, call, present,
                 behind>>

(* LeaveCommunity and KickMember: the DELETE cascades to member_roles. *)
Remove(r) ==
  /\ At(r, "remove") /\ Go(r, "removed")
  /\ WriteMembers(members \ {call[r].target}, {Node(r)})
  /\ assigned' = assigned \ {call[r].target}
  /\ roleless' = roleless \ {call[r].target}
  /\ UNCHANGED <<community, role, channels, caches, call, faults>>

RemoveInvalidate(r) ==
  /\ At(r, "removed") /\ Go(r, "ok")
  /\ InvalidateMembers(Node(r))
  /\ UNCHANGED <<database, call, present, roleless, faults>>

-----------------------------------------------------------------------------
(* UpdateCommunity, CreateChannel and DeleteChannel of the owner. *)
Update(r) ==
  /\ At(r, "act") /\ Kind(r) = "update"
  /\ Go(r, IF community = "live" THEN "updated" ELSE "failed")
  /\ UNCHANGED <<database, caches, call, history, faults>>

UpdateInvalidate(r) ==
  /\ At(r, "updated") /\ Go(r, "ok")
  /\ InvalidateCommunity(Node(r))
  /\ UNCHANGED <<database, call, present, roleless, faults>>

(* Channels past the bound are not followed. *)
NewChannel ==
  \/ \E c \in Channels : /\ channels[c] = "none"
                         /\ channels' = [channels EXCEPT ![c] = "live"]
  \/ (\A c \in Channels : channels[c] # "none") /\ UNCHANGED channels

CreateChannel(r) ==
  /\ At(r, "act") /\ Kind(r) = "mkchannel"
  /\ \/ /\ community = "live" /\ Go(r, "ok")
        /\ NewChannel
     \/ community # "live" /\ Go(r, "failed") /\ UNCHANGED channels
  /\ UNCHANGED <<community, members, role, assigned, caches, call, history,
                 faults>>

DeleteChannel(r) ==
  /\ At(r, "act") /\ Kind(r) = "rmchannel" /\ Go(r, "ok")
  /\ channels' = [channels EXCEPT ![call[r].channel] = "gone"]
  /\ UNCHANGED <<community, members, role, assigned, caches, call, history,
                 faults>>

(* DeleteCommunity: the DELETE cascades to all tables; then the caches.      *)
Delete(r) ==
  /\ At(r, "act") /\ Kind(r) = "delete" /\ Go(r, "deleted")
  /\ community' = "gone" /\ role' = FALSE
  /\ WriteMembers({}, {Node(r)}) /\ assigned' = {} /\ roleless' = {}
  /\ channels' = [c \in Channels |->
       IF channels[c] = "live" THEN "gone" ELSE channels[c]]
  /\ UNCHANGED <<caches, call, faults>>

DeleteInvalidate(r) ==
  /\ At(r, "deleted") /\ Go(r, "removed")
  /\ InvalidateCommunity(Node(r))
  /\ UNCHANGED <<database, call, present, roleless, faults>>

-----------------------------------------------------------------------------
(* CreateCommunity: five statements and no transaction.  An error after the  *)
(* first leaves a community without what the later ones would have added.    *)
CreateRow(r) ==
  /\ At(r, "row") /\ Go(r, "owner")
  /\ community' = "live"
  /\ UNCHANGED <<members, role, assigned, channels, caches, call, history,
                 faults>>

(* AddMember for the owner; no list is invalidated. *)
CreateOwner(r) ==
  /\ At(r, "owner")
  /\ \/ /\ community = "live" /\ Go(r, "mkrole")
        /\ WriteMembers(members \cup {Owner}, {})
     \/ /\ community # "live" /\ Go(r, "failed")
        /\ UNCHANGED <<members, behind, present>>
  /\ UNCHANGED <<community, role, assigned, channels, caches, call, roleless,
                 faults>>

CreateRole(r) ==
  /\ At(r, "mkrole")
  /\ \/ community = "live" /\ role' = TRUE /\ Go(r, "assign")
     \/ community # "live" /\ Go(r, "failed") /\ UNCHANGED role
  /\ UNCHANGED <<community, members, assigned, channels, caches, call,
                 history, faults>>

(* AssignRole to the owner, whose failure is logged. *)
CreateAssign(r) ==
  /\ At(r, "assign") /\ Go(r, "general")
  /\ \/ /\ assigned' = assigned \cup (members \cap {Owner})
        /\ UNCHANGED faults
     \/ Fault /\ UNCHANGED assigned
  /\ UNCHANGED <<community, members, role, channels, caches, call, history>>

(* The default channel "general". *)
CreateGeneral(r) ==
  /\ At(r, "general")
  /\ \/ /\ community = "live" /\ Go(r, "set")
        /\ NewChannel
     \/ community # "live" /\ Go(r, "failed") /\ UNCHANGED channels
  /\ UNCHANGED <<community, members, role, assigned, caches, call, history,
                 faults>>

(* CommunityCache.Set. *)
CreateSet(r) ==
  /\ At(r, "set") /\ Go(r, "ok")
  /\ cache' = [cache EXCEPT ![Node(r)]["community"] = {Owner}]
  /\ UNCHANGED <<database, waiters, fetched, call, history, faults>>

-----------------------------------------------------------------------------
(* A process dies and is restarted: its caches are empty and its requests    *)
(* stop where they are.                                                     *)
Crash(n) ==
  LET lost == {r \in Reqs : Running(r) /\ Node(r) = n} IN
  /\ Fault
  /\ cache' = [cache EXCEPT ![n] = [k \in Keys |-> None]]
  /\ waiters' = [waiters EXCEPT ![n] = [k \in Keys |-> {}]]
  /\ fetched' = [fetched EXCEPT ![n] = [k \in Keys |-> None]]
  /\ pc' = [r \in Reqs |-> IF r \in lost THEN "failed" ELSE pc[r]]
  /\ roleless' = roleless \cup ((members \ assigned) \cap
       {call[r].user : r \in {q \in lost : pc[q] \in {"joined", "everyone"}}})
  /\ behind' = behind \ {n}
  /\ UNCHANGED <<database, call, present>>

Join(r) == JoinPublic(r) \/ JoinAdd(r) \/ JoinGetMember(r) \/ JoinInvalidate(r)
           \/ JoinRole(r)
Create(r) == CreateRow(r) \/ CreateOwner(r) \/ CreateRole(r) \/ CreateAssign(r)
             \/ CreateGeneral(r) \/ CreateSet(r)
Manage(r) == Update(r) \/ UpdateInvalidate(r) \/ CreateChannel(r)
             \/ DeleteChannel(r) \/ Delete(r) \/ DeleteInvalidate(r)
Handle(r) == \/ \E k \in Keys : Hit(r, k) \/ Miss(r, k)
             \/ GetChannel(r) \/ CheckPermission(r) \/ Access(r)
             \/ Join(r) \/ Remove(r) \/ RemoveInvalidate(r)
             \/ Create(r) \/ Manage(r)
Flight(n, k) == Fill(n, k) \/ FillFails(n, k) \/ Add(n, k)

Next ==
  \/ \E r \in Reqs : (\E c \in Calls : Start(r, c)) \/ Handle(r) \/ DatabaseError(r)
  \/ \E n \in Nodes, k \in Keys : Flight(n, k)
  \/ \E n \in Nodes : Crash(n)

Spec == Init /\ [][Next]_vars

(* Goroutines are scheduled and database calls return. *)
FairSpec == /\ Spec
            /\ \A r \in Reqs : WF_vars(Handle(r))
            /\ \A n \in Nodes, k \in Keys : WF_vars(Flight(n, k))

-----------------------------------------------------------------------------
(* A removed member cannot post or read: a SendMessage or GetMessages that    *)
(* succeeds was made by someone who was a member at some moment while it ran,  *)
(* however old the cached list is that it was checked against.              *)
RemovedCannotPost ==
  \A r \in Reqs :
    pc[r] = "ok" /\ call[r].kind \in {"send", "read"} => present[r]

(* Every member but the owner has the role that lets it read and post, or a   *)
(* join that will still assign it, or is one whose assignment failed, was cut *)
(* off by a crash or came before the role existed: no interleaving of joins,  *)
(* leaves and kicks loses the role otherwise.                               *)
MembersHaveRole ==
  \A u \in members \ (assigned \cup roleless \cup {Owner}) :
    \E r \in Reqs : /\ pc[r] \in {"joined", "everyone"}
                    /\ call[r].user = u

(* A process serves a list that differs from the table only while a request   *)
(* on it has yet to invalidate it, or when the write was made elsewhere or     *)
(* overtook a fill in flight.                                               *)
Invalidating(n) ==
  \E r \in Reqs : /\ pc[r] \in {"joined", "nomember", "removed", "deleted"}
                  /\ call[r].node = n

StaleListExplained ==
  \A n \in Nodes :
    \/ cache[n]["members"] \in {None, Listed(members)}
    \/ n \in behind \/ Invalidating(n)

(* The owner never stops being a member of a community that lives on. *)
OwnerStays ==
  [][(Owner \in members /\ community' = "live") => (Owner \in members')]_vars

(* Every request is answered, the ones that joined another's fill as well. *)
RequestsEnd ==
  \A r \in Reqs : pc[r] # "idle" ~> pc[r] \in Ended
=============================================================================
