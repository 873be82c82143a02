------------------------------ MODULE WsGateway ------------------------------
(***************************************************************************)
(* The connection lifecycle of the ws-gateway cluster                      *)
(* (backend/services/ws-gateway): each gateway process keeps a ConnManager *)
(* with at most one entry per user, all of them share the Redis registry   *)
(* ws:uid:<user> -> gateway id, and each connection is served by one       *)
(* goroutine that runs HandleUpgrade, then readPump, then                  *)
(* cleanupDisconnect.  The goroutines of one user's connections interleave *)
(* freely, on one gateway or on several: a client that reconnects, or that *)
(* opens a second tab, has two of them at once.                            *)
(*                                                                         *)
(* A connection is a member of Conns, used for one upgrade.  pc[c] is the  *)
(* point its goroutine has reached; the Redis and NATS calls are steps of  *)
(* their own, because other goroutines run between them.                   *)
(***************************************************************************)
EXTENDS Naturals, FiniteSets

CONSTANTS
  Users, Gateways, Conns, Channels,
  None,         \* the absent entry: no gateway, no connection
  MaxFaults     \* bound on the failed calls and crashes of a behaviour

ASSUME NoneAssumption == None \notin Users \cup Gateways \cup Conns
ASSUME FaultsAssumption == MaxFaults \in Nat

VARIABLES
  pc,           \* pc[c]: where the goroutine of connection c is
  owner, host,  \* the user of c (from its token) and the gateway c is on
  open,         \* open[c]: reads and writes on the socket of c still succeed
  conns,        \* conns[g][u]: the connection of ConnManager.conns[u] on g
  subs,         \* subs[g][u]: SubscribedChannels of that entry
  registry,     \* registry[u]: the gateway id under ws:uid:u in Redis
  fresh,        \* fresh[c]: the last SET that c attempted succeeded
  announced,    \* announced[u]: the last presence event published for u
  up,           \* the gateway processes that are running
  faults,       \* failed calls and crashes so far
  orphaned,     \* history: users whose key no goroutine is left to DEL
  muted         \* history: users whose "online" no goroutine will retract

vars == <<pc, owner, host, open, conns, subs, registry, fresh, announced,
          up, faults, orphaned, muted>>

(* "set" .. "online": HandleUpgrade; "read" and "hbset": readPump;          *)
(* "unreg" .. "offline": cleanupDisconnect.                                *)
Serving == {"set", "online", "read", "hbset", "unreg"}
Unfinished == Serving \cup {"del", "offline"}
PcValues == Unfinished \cup {"idle", "done"}

(* One type invariant for the module. *)
TypeOK ==
  /\ pc \in [Conns -> PcValues]
  /\ owner \in [Conns -> Users \cup {None}]
  /\ host \in [Conns -> Gateways \cup {None}]
  /\ open \in [Conns -> BOOLEAN]
  /\ conns \in [Gateways -> [Users -> Conns \cup {None}]]
  /\ subs \in [Gateways -> [Users -> SUBSET Channels]]
  /\ registry \in [Users -> Gateways \cup {None}]
  /\ fresh \in [Conns -> BOOLEAN]
  /\ announced \in [Users -> {"none", "online", "offline"}]
  /\ up \in SUBSET Gateways
  /\ faults \in 0..MaxFaults
  /\ orphaned \in SUBSET Users
  /\ muted \in SUBSET Users

Init ==
  /\ pc = [c \in Conns |-> "idle"]
  /\ owner = [c \in Conns |-> None]
  /\ host = [c \in Conns |-> None]
  /\ open = [c \in Conns |-> FALSE]
  /\ conns = [g \in Gateways |-> [u \in Users |-> None]]
  /\ subs = [g \in Gateways |-> [u \in Users |-> {}]]
  /\ registry = [u \in Users |-> None]
  /\ fresh = [c \in Conns |-> FALSE]
  /\ announced = [u \in Users |-> "none"]
  /\ up = Gateways
  /\ faults = 0
  /\ orphaned = {}
  /\ muted = {}

-----------------------------------------------------------------------------
Goto(c, p) == pc' = [pc EXCEPT ![c] = p]

(* A Redis or NATS call that returns an error: it is only logged. *)
Fault == faults < MaxFaults /\ faults' = faults + 1

(* HandleUpgrade: a valid token and a successful upgrade, then              *)
(* ConnManager.Register, which replaces the user's entry with a new one and *)
(* leaves the connection it replaces open.  A refused token or upgrade      *)
(* changes nothing.                                                        *)
Upgrade(c, u, g) ==
  /\ pc[c] = "idle" /\ g \in up
  /\ owner' = [owner EXCEPT ![c] = u]
  /\ host' = [host EXCEPT ![c] = g]
  /\ open' = [open EXCEPT ![c] = TRUE]
  /\ conns' = [conns EXCEPT ![g][u] = c]
  /\ subs' = [subs EXCEPT ![g][u] = {}]
  /\ Goto(c, "set")
  /\ UNCHANGED <<registry, fresh, announced, up, faults, orphaned, muted>>

(* Fault variant: the connection is stored where the gateway id belongs. *)
RegisterWrongValue(c) ==
  /\ registry' = [registry EXCEPT ![owner[c]] = c]
  /\ UNCHANGED <<fresh, faults, orphaned>>

(* RegisterConnection: SET ws:uid:u g with the TTL of 5 minutes, on the      *)
(* upgrade and again on each heartbeat.                                    *)
RegisterConnection(c) ==
  \/ /\ registry' = [registry EXCEPT ![owner[c]] = host[c]]
     /\ fresh' = [fresh EXCEPT ![c] = TRUE]
     /\ orphaned' = orphaned \ {owner[c]}
     /\ UNCHANGED faults
  \/ /\ Fault
     /\ fresh' = [fresh EXCEPT ![c] = FALSE]
     /\ UNCHANGED <<registry, orphaned>>

UpgradeRegister(c) ==
  /\ pc[c] = "set"
  /\ RegisterConnection(c)
  /\ Goto(c, "online")
  /\ UNCHANGED <<owner, host, open, conns, subs, announced, up, muted>>

(* broadcastUserOnline, then go readPump. *)
BroadcastOnline(c) ==
  /\ pc[c] = "online"
  /\ \/ /\ announced' = [announced EXCEPT ![owner[c]] = "online"]
        /\ muted' = muted \ {owner[c]}
        /\ UNCHANGED faults
     \/ Fault /\ UNCHANGED <<announced, muted>>
  /\ Goto(c, "read")
  /\ UNCHANGED <<owner, host, open, conns, subs, registry, fresh, up, orphaned>>

-----------------------------------------------------------------------------
(* readPump: a heartbeat is acknowledged and extends the read deadline;     *)
(* the SET that follows is a step of its own.                              *)
Heartbeat(c) ==
  /\ pc[c] = "read" /\ open[c]
  /\ Goto(c, "hbset")
  /\ UNCHANGED <<owner, host, open, conns, subs, registry, fresh, announced,
                 up, faults, orphaned, muted>>

(* Fault variant: a heartbeat that does not refresh the key. *)
HeartbeatAckOnly(c) ==
  /\ pc[c] = "hbset"
  /\ Goto(c, "read")
  /\ UNCHANGED <<owner, host, open, conns, subs, registry, fresh, announced,
                 up, faults, orphaned, muted>>

HeartbeatRegister(c) ==
  /\ pc[c] = "hbset"
  /\ RegisterConnection(c)
  /\ Goto(c, "read")
  /\ UNCHANGED <<owner, host, open, conns, subs, announced, up, muted>>

(* readPump routes a subscribe or an unsubscribe: the entry is looked up by *)
(* user, so it is the one of the newest connection, whichever connection    *)
(* the message came from; without an entry nothing is recorded.            *)
Route(c, channels) ==
  /\ pc[c] = "read" /\ open[c]
  /\ subs' = IF conns[host[c]][owner[c]] = None THEN subs
             ELSE [subs EXCEPT ![host[c]][owner[c]] = channels]
  /\ UNCHANGED <<pc, owner, host, open, conns, registry, fresh, announced,
                 up, faults, orphaned, muted>>

RouteSubscribe(c, ch) == Route(c, subs[host[c]][owner[c]] \cup {ch})
RouteUnsubscribe(c, ch) == Route(c, subs[host[c]][owner[c]] \ {ch})

(* The peer closes, the network drops, or the peer stays silent past the    *)
(* read deadline of two heartbeat intervals.                               *)
PeerGone(c) ==
  /\ open[c]
  /\ open' = [open EXCEPT ![c] = FALSE]
  /\ UNCHANGED <<pc, owner, host, conns, subs, registry, fresh, announced,
                 up, faults, orphaned, muted>>

(* A read or a write of the pump fails and readPump returns. *)
PumpReturns(c) ==
  /\ pc[c] = "read" /\ ~open[c]
  /\ Goto(c, "unreg")
  /\ UNCHANGED <<owner, host, open, conns, subs, registry, fresh, announced,
                 up, faults, orphaned, muted>>

-----------------------------------------------------------------------------
(* Fault variants: cleanupDisconnect without one of its three steps. *)
UnregisterCloseOnly(c) ==
  LET e == conns[host[c]][owner[c]] IN
  /\ pc[c] = "unreg"
  /\ open' = IF e = None THEN open ELSE [open EXCEPT ![e] = FALSE]
  /\ Goto(c, "del")
  /\ UNCHANGED <<owner, host, conns, subs, registry, fresh, announced, up,
                 faults, orphaned, muted>>

SkipDel(c) ==
  /\ pc[c] = "del"
  /\ Goto(c, "offline")
  /\ UNCHANGED <<owner, host, open, conns, subs, registry, fresh, announced,
                 up, faults, orphaned, muted>>

SkipOffline(c) ==
  /\ pc[c] = "offline"
  /\ Goto(c, "done")
  /\ UNCHANGED <<owner, host, open, conns, subs, registry, fresh, announced,
                 up, faults, orphaned, muted>>

(* cleanupDisconnect, deferred by readPump: ConnManager.Unregister closes    *)
(* and deletes the entry the user has now, which need not be the one of c.  *)
Unregister(c) ==
  LET g == host[c]  u == owner[c]  e == conns[g][u] IN
  /\ pc[c] = "unreg"
  /\ open' = IF e = None THEN open ELSE [open EXCEPT ![e] = FALSE]
  /\ conns' = [conns EXCEPT ![g][u] = None]
  /\ subs' = [subs EXCEPT ![g][u] = {}]
  /\ Goto(c, "del")
  /\ UNCHANGED <<owner, host, registry, fresh, announced, up, faults,
                 orphaned, muted>>

(* UnregisterConnection: DEL ws:uid:u, whichever gateway the key names. *)
UnregisterConnection(c) ==
  /\ pc[c] = "del"
  /\ \/ /\ registry' = [registry EXCEPT ![owner[c]] = None]
        /\ orphaned' = orphaned \ {owner[c]}
        /\ UNCHANGED faults
     \/ /\ Fault
        /\ orphaned' = orphaned \cup {owner[c]}
        /\ UNCHANGED registry
  /\ Goto(c, "offline")
  /\ UNCHANGED <<owner, host, open, conns, subs, fresh, announced, up, muted>>

BroadcastOffline(c) ==
  /\ pc[c] = "offline"
  /\ \/ /\ announced' = [announced EXCEPT ![owner[c]] = "offline"]
        /\ muted' = muted \ {owner[c]}
        /\ UNCHANGED faults
     \/ /\ Fault
        /\ muted' = muted \cup {owner[c]}
        /\ UNCHANGED announced
  /\ Goto(c, "done")
  /\ UNCHANGED <<owner, host, open, conns, subs, registry, fresh, up, orphaned>>

-----------------------------------------------------------------------------
(* The unfinished goroutines of user u, and of gateway g. *)
Pending(u) == {c \in Conns : owner[c] = u /\ pc[c] \in Unfinished}
PendingOn(g) == {c \in Conns : host[c] = g /\ pc[c] \in Unfinished}

(* Fault variant: a SET without a TTL. *)
NoExpiry(u) ==
  /\ registry[u] # None /\ FALSE
  /\ UNCHANGED vars

(* The key expires 5 minutes after the last SET.  Every goroutine that      *)
(* still runs and whose last SET succeeded set it less than two heartbeat   *)
(* intervals and a call timeout ago, so the key cannot be that old.        *)
Expire(u) ==
  /\ registry[u] # None
  /\ \A c \in Pending(u) : ~fresh[c]
  /\ registry' = [registry EXCEPT ![u] = None]
  /\ orphaned' = orphaned \ {u}
  /\ UNCHANGED <<pc, owner, host, open, conns, subs, fresh, announced, up,
                 faults, muted>>

(* The process stops: a crash, or SIGTERM, whose handler closes NATS and     *)
(* Redis without running cleanupDisconnect for the hijacked connections.   *)
Stop(g) ==
  /\ g \in up /\ Fault
  /\ up' = up \ {g}
  /\ pc' = [c \in Conns |-> IF c \in PendingOn(g) THEN "done" ELSE pc[c]]
  /\ open' = [c \in Conns |-> open[c] /\ host[c] # g]
  /\ conns' = [conns EXCEPT ![g] = [u \in Users |-> None]]
  /\ subs' = [subs EXCEPT ![g] = [u \in Users |-> {}]]
  /\ orphaned' = orphaned \cup {u \in Users : registry[u] = g}
  /\ muted' = muted \cup {u \in Users : \E c \in PendingOn(g) : owner[c] = u}
  /\ UNCHANGED <<owner, host, registry, fresh, announced>>

Restart(g) ==
  /\ g \in Gateways \ up
  /\ up' = up \cup {g}
  /\ UNCHANGED <<pc, owner, host, open, conns, subs, registry, fresh,
                 announced, faults, orphaned, muted>>

-----------------------------------------------------------------------------
Pump(c) ==
  \/ UpgradeRegister(c) \/ BroadcastOnline(c)
  \/ Heartbeat(c) \/ HeartbeatRegister(c) \/ PumpReturns(c)
  \/ Unregister(c) \/ UnregisterConnection(c) \/ BroadcastOffline(c)

Next ==
  \/ \E c \in Conns :
       \/ \E u \in Users, g \in Gateways : Upgrade(c, u, g)
       \/ Pump(c)
       \/ \E ch \in Channels : RouteSubscribe(c, ch) \/ RouteUnsubscribe(c, ch)
       \/ PeerGone(c)
  \/ \E u \in Users : Expire(u)
  \/ \E g \in Gateways : Stop(g) \/ Restart(g)

Spec == Init /\ [][Next]_vars

(* Goroutines are scheduled, clients heartbeat while their socket is open    *)
(* (every 30s, sdk-js WSManager.startHeartbeat) and Redis expires old keys. *)
Fairness ==
  /\ \A c \in Conns : WF_vars(Pump(c))
  /\ \A u \in Users : WF_vars(Expire(u))

FairSpec == Spec /\ Fairness

-----------------------------------------------------------------------------
(* Every entry of a connection table belongs to a connection of that user    *)
(* on that gateway whose goroutine has yet to reach Unregister: whatever     *)
(* the interleaving of replacements and cleanups, DeliverToLocal never       *)
(* finds the entry of a connection whose pump is gone.                      *)
EntryIsServed ==
  \A g \in Gateways, u \in Users :
    LET c == conns[g][u] IN
    c # None => owner[c] = u /\ host[c] = g /\ pc[c] \in Serving

(* A registry key that names gateway g is backed by a goroutine on g that    *)
(* will still DEL it, unless a failed DEL or a stopped gateway left it to    *)
(* its TTL: once all connections of a user are cleaned up, Redis says so.   *)
RegistryBacked ==
  \A u \in Users :
    registry[u] # None =>
      \/ u \in orphaned
      \/ \E c \in Conns :
           /\ owner[c] = u /\ host[c] = registry[u]
           /\ pc[c] \in {"online", "read", "hbset", "unreg", "del"}

(* Contacts last told that u is online will be told otherwise: a goroutine   *)
(* that still has to publish constell.user.offline for u is running, unless  *)
(* that publish failed or its gateway stopped.                              *)
OnlineBacked ==
  \A u \in Users :
    announced[u] = "online" =>
      \/ u \in muted
      \/ \E c \in Conns :
           owner[c] = u /\ pc[c] \in {"read", "hbset", "unreg", "del", "offline"}

-----------------------------------------------------------------------------
(* The only goroutine of its user that is still running, and its socket is   *)
(* open.                                                                    *)
Sole(c) ==
  /\ pc[c] \in {"read", "hbset"} /\ open[c]
  /\ Pending(owner[c]) = {c}

(* Whatever reconnects, stale cleanups, failed calls and stopped gateways    *)
(* came before, a user left with one connection that stays up is registered  *)
(* again under its gateway: the heartbeat repairs the key.                  *)
RegistryHeals ==
  \A c \in Conns :
    (<>[]Sole(c)) => <>[](owner[c] # None => registry[owner[c]] = host[c])

(* A user whose connections are all gone for good leaves the registry, even  *)
(* when the gateway died without cleaning up.                               *)
RegistryForgets ==
  \A u \in Users : (<>[](Pending(u) = {})) => <>[](registry[u] = None)
=============================================================================
