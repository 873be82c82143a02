---------------------------- MODULE GatewayProofs ----------------------------
(***************************************************************************)
(* The two gateways.  First the connection table, the registry and the     *)
(* presence events of WsGateway, for every number of users, gateways,      *)
(* connections and faults; then what an answer of ApiGateway tells, for    *)
(* every number of calls and users.                                        *)
(***************************************************************************)
EXTENDS WsGateway, ApiGateway, TLAPS

(* A running goroutine knows its user and its gateway: the fact that makes  *)
(* the three invariants inductive.                                         *)
Placed ==
  \A c \in Conns :
    pc[c] \in Unfinished => owner[c] \in Users /\ host[c] \in Gateways

IInv == TypeOK /\ Placed /\ EntryIsServed /\ RegistryBacked /\ OnlineBacked

-----------------------------------------------------------------------------
(* A Redis or NATS error stays within the bound on faults. *)
LEMMA FaultType ==
  ASSUME faults \in 0..MaxFaults, Fault
  PROVE  faults' \in 0..MaxFaults
BY FaultsAssumption DEF Fault

LEMMA InitIInv == Init => IInv
BY FaultsAssumption, NoneAssumption
   DEF Init, IInv, TypeOK, Placed, EntryIsServed, RegistryBacked, OnlineBacked,
       PcValues, Unfinished, Serving

-----------------------------------------------------------------------------
(* The actions keep the type invariant. *)
LEMMA TypeStep ==
  ASSUME TypeOK, Placed, [Next]_vars
  PROVE  TypeOK'
<1> USE DEF TypeOK, PcValues, Unfinished, Serving, Placed
<1>1. ASSUME NEW c \in Conns, NEW u \in Users, NEW g \in Gateways,
             Upgrade(c, u, g)
      PROVE  TypeOK'
  BY <1>1 DEF Upgrade, Goto
<1>2. ASSUME NEW c \in Conns, UpgradeRegister(c)
      PROVE  TypeOK'
  BY <1>2, FaultType DEF UpgradeRegister, RegisterConnection, Goto
<1>3. ASSUME NEW c \in Conns, BroadcastOnline(c)
      PROVE  TypeOK'
  BY <1>3, FaultType DEF BroadcastOnline, Goto
<1>4. ASSUME NEW c \in Conns, Heartbeat(c)
      PROVE  TypeOK'
  BY <1>4 DEF Heartbeat, Goto
<1>5. ASSUME NEW c \in Conns, HeartbeatRegister(c)
      PROVE  TypeOK'
  BY <1>5, FaultType DEF HeartbeatRegister, RegisterConnection, Goto
<1>6. ASSUME NEW c \in Conns, PumpReturns(c)
      PROVE  TypeOK'
  BY <1>6 DEF PumpReturns, Goto
<1>7. ASSUME NEW c \in Conns, Unregister(c)
      PROVE  TypeOK'
  BY <1>7, NoneAssumption DEF Unregister, Goto
<1>8. ASSUME NEW c \in Conns, UnregisterConnection(c)
      PROVE  TypeOK'
  BY <1>8, FaultType DEF UnregisterConnection, Goto
<1>9. ASSUME NEW c \in Conns, BroadcastOffline(c)
      PROVE  TypeOK'
  BY <1>9, FaultType DEF BroadcastOffline, Goto
<1>10. ASSUME NEW c \in Conns, NEW ch \in Channels,
              RouteSubscribe(c, ch) \/ RouteUnsubscribe(c, ch)
       PROVE  TypeOK'
  <2>1. owner[c] \in Users /\ host[c] \in Gateways
    BY <1>10 DEF RouteSubscribe, RouteUnsubscribe, Route
  <2>2. PICK channels \in SUBSET Channels : Route(c, channels)
    BY <1>10, <2>1 DEF RouteSubscribe, RouteUnsubscribe
  <2>3. subs' \in [Gateways -> [Users -> SUBSET Channels]]
    BY <2>1, <2>2 DEF Route
  <2>. QED
    BY <2>2, <2>3 DEF Route
<1>11. ASSUME NEW c \in Conns, PeerGone(c)
       PROVE  TypeOK'
  BY <1>11 DEF PeerGone
<1>12. ASSUME NEW u \in Users, Expire(u)
       PROVE  TypeOK'
  BY <1>12 DEF Expire
<1>13. ASSUME NEW g \in Gateways, Stop(g)
       PROVE  TypeOK'
  BY <1>13, FaultType DEF Stop
<1>14. ASSUME NEW g \in Gateways, Restart(g)
       PROVE  TypeOK'
  BY <1>14 DEF Restart
<1>15. CASE UNCHANGED vars
  BY <1>15 DEF vars
<1>. QED
  BY <1>1, <1>2, <1>3, <1>4, <1>5, <1>6, <1>7, <1>8, <1>9, <1>10, <1>11,
     <1>12, <1>13, <1>14, <1>15 DEF Next, Pump

(* A goroutine keeps the user and the gateway its upgrade gave it. *)
LEMMA PlacedStep ==
  ASSUME TypeOK, Placed, [Next]_vars
  PROVE  Placed'
<1> USE DEF TypeOK, PcValues, Unfinished, Serving, Placed
<1>1. ASSUME NEW c \in Conns, NEW u \in Users, NEW g \in Gateways,
             Upgrade(c, u, g)
      PROVE  Placed'
  BY <1>1 DEF Upgrade, Goto
<1>2. ASSUME NEW c \in Conns, Pump(c)
      PROVE  Placed'
  <2>1. pc[c] \in Unfinished
    BY <1>2 DEF Pump, UpgradeRegister, BroadcastOnline, Heartbeat,
       HeartbeatRegister, PumpReturns, Unregister, UnregisterConnection,
       BroadcastOffline
  <2>2. UNCHANGED <<owner, host>>
    BY <1>2 DEF Pump, UpgradeRegister, BroadcastOnline, Heartbeat,
       HeartbeatRegister, PumpReturns, Unregister, UnregisterConnection,
       BroadcastOffline
  <2>3. \A d \in Conns \ {c} : pc'[d] = pc[d]
    BY <1>2 DEF Pump, UpgradeRegister, BroadcastOnline, Heartbeat,
       HeartbeatRegister, PumpReturns, Unregister, UnregisterConnection,
       BroadcastOffline, Goto
  <2>. QED
    BY <2>1, <2>2, <2>3
<1>3. ASSUME NEW c \in Conns, NEW ch \in Channels,
             RouteSubscribe(c, ch) \/ RouteUnsubscribe(c, ch)
      PROVE  Placed'
  <2>1. UNCHANGED <<pc, owner, host>>
    BY <1>3 DEF RouteSubscribe, RouteUnsubscribe, Route
  <2>. QED
    BY <2>1
<1>4. ASSUME NEW c \in Conns, PeerGone(c)
      PROVE  Placed'
  BY <1>4 DEF PeerGone
<1>5. ASSUME NEW u \in Users, Expire(u)
      PROVE  Placed'
  BY <1>5 DEF Expire
<1>6. ASSUME NEW g \in Gateways, Stop(g) \/ Restart(g)
      PROVE  Placed'
  BY <1>6 DEF Stop, Restart, PendingOn
<1>7. CASE UNCHANGED vars
  BY <1>7 DEF vars
<1>. QED
  BY <1>1, <1>2, <1>3, <1>4, <1>5, <1>6, <1>7 DEF Next

-----------------------------------------------------------------------------
(* Replacements and cleanups keep the connection table on live pumps.  The   *)
(* two steps that matter are Upgrade, whose connection was in no table, and  *)
(* Unregister, which empties the slot its own connection could be in.       *)
LEMMA EntryStep ==
  ASSUME TypeOK, Placed, EntryIsServed, [Next]_vars
  PROVE  EntryIsServed'
<1> USE NoneAssumption DEF TypeOK, PcValues, Unfinished, Serving, EntryIsServed
<1>1. ASSUME NEW c \in Conns, NEW u \in Users, NEW g \in Gateways,
             Upgrade(c, u, g)
      PROVE  EntryIsServed'
  BY <1>1 DEF Upgrade, Goto
<1>2. ASSUME NEW c \in Conns,
             \/ UpgradeRegister(c) \/ BroadcastOnline(c) \/ Heartbeat(c)
             \/ HeartbeatRegister(c) \/ PumpReturns(c)
      PROVE  EntryIsServed'
  <2>1. UNCHANGED <<owner, host, conns>> /\ pc'[c] \in Serving
        /\ \A d \in Conns \ {c} : pc'[d] = pc[d]
    BY <1>2 DEF UpgradeRegister, BroadcastOnline, Heartbeat,
       HeartbeatRegister, PumpReturns, Goto
  <2>. QED
    BY <2>1
<1>3. ASSUME NEW c \in Conns, Unregister(c)
      PROVE  EntryIsServed'
  <2>1. owner[c] \in Users /\ host[c] \in Gateways
    BY <1>3 DEF Unregister, Placed
  <2>2. conns' = [conns EXCEPT ![host[c]][owner[c]] = None]
        /\ UNCHANGED <<owner, host>>
        /\ \A d \in Conns \ {c} : pc'[d] = pc[d]
    BY <1>3 DEF Unregister, Goto
  <2>. QED
    BY <2>1, <2>2
<1>4. ASSUME NEW c \in Conns, UnregisterConnection(c) \/ BroadcastOffline(c)
      PROVE  EntryIsServed'
  <2>1. UNCHANGED <<owner, host, conns>> /\ pc[c] \notin Serving
        /\ \A d \in Conns \ {c} : pc'[d] = pc[d]
    BY <1>4 DEF UnregisterConnection, BroadcastOffline, Goto
  <2>. QED
    BY <2>1
<1>5. ASSUME NEW c \in Conns, NEW ch \in Channels,
             RouteSubscribe(c, ch) \/ RouteUnsubscribe(c, ch)
      PROVE  EntryIsServed'
  <2>1. UNCHANGED <<pc, owner, host, conns>>
    BY <1>5 DEF RouteSubscribe, RouteUnsubscribe, Route
  <2>. QED
    BY <2>1
<1>6. ASSUME NEW c \in Conns, PeerGone(c)
      PROVE  EntryIsServed'
  BY <1>6 DEF PeerGone
<1>7. ASSUME NEW u \in Users, Expire(u)
      PROVE  EntryIsServed'
  BY <1>7 DEF Expire
<1>8. ASSUME NEW g \in Gateways, Stop(g)
      PROVE  EntryIsServed'
  BY <1>8 DEF Stop, PendingOn
<1>9. ASSUME NEW g \in Gateways, Restart(g)
      PROVE  EntryIsServed'
  BY <1>9 DEF Restart
<1>10. CASE UNCHANGED vars
  BY <1>10 DEF vars
<1>. QED
  BY <1>1, <1>2, <1>3, <1>4, <1>5, <1>6, <1>7, <1>8, <1>9, <1>10
     DEF Next, Pump

-----------------------------------------------------------------------------
(* A key is set by a goroutine that has its DEL ahead of it, and only that   *)
(* DEL, a failed one or the end of the process takes the goroutine past it. *)
LEMMA RegistryStep ==
  ASSUME TypeOK, Placed, RegistryBacked, [Next]_vars
  PROVE  RegistryBacked'
<1> USE NoneAssumption DEF TypeOK, PcValues, Unfinished, Serving, RegistryBacked
<1>1. ASSUME NEW c \in Conns, NEW u \in Users, NEW g \in Gateways,
             Upgrade(c, u, g)
      PROVE  RegistryBacked'
  BY <1>1 DEF Upgrade, Goto
<1>2. ASSUME NEW c \in Conns, UpgradeRegister(c) \/ HeartbeatRegister(c)
      PROVE  RegistryBacked'
  <2>1. owner[c] \in Users /\ host[c] \in Gateways
    BY <1>2 DEF UpgradeRegister, HeartbeatRegister, Placed
  <2>2. /\ RegisterConnection(c) /\ UNCHANGED <<owner, host>>
        /\ pc'[c] \in {"online", "read"}
        /\ \A d \in Conns \ {c} : pc'[d] = pc[d]
    BY <1>2 DEF UpgradeRegister, HeartbeatRegister, Goto
  <2>3. SUFFICES ASSUME NEW u \in Users, registry'[u] # None, u \notin orphaned'
                 PROVE  \E d \in Conns :
                          /\ owner'[d] = u /\ host'[d] = registry'[u]
                          /\ pc'[d] \in {"online", "read", "hbset", "unreg", "del"}
    OBVIOUS
  <2>4. CASE u = owner[c] /\ registry'[u] = host[c]
    BY <2>2, <2>4
  <2>5. CASE registry'[u] = registry[u] /\ u \notin orphaned
    <3>1. PICK d \in Conns :
            /\ owner[d] = u /\ host[d] = registry[u]
            /\ pc[d] \in {"online", "read", "hbset", "unreg", "del"}
      BY <2>3, <2>5
    <3>. QED
      BY <2>2, <2>5, <3>1
  <2>. QED
    BY <2>1, <2>2, <2>3, <2>4, <2>5 DEF RegisterConnection
<1>3. ASSUME NEW c \in Conns,
             \/ BroadcastOnline(c) \/ Heartbeat(c) \/ PumpReturns(c)
             \/ Unregister(c)
      PROVE  RegistryBacked'
  <2>1. /\ UNCHANGED <<owner, host, registry, orphaned>>
        /\ pc'[c] \in {"read", "hbset", "unreg", "del"}
        /\ \A d \in Conns \ {c} : pc'[d] = pc[d]
    BY <1>3 DEF BroadcastOnline, Heartbeat, PumpReturns, Unregister, Goto
  <2>. QED
    BY <2>1
<1>4. ASSUME NEW c \in Conns, UnregisterConnection(c)
      PROVE  RegistryBacked'
  <2>1. owner[c] \in Users
    BY <1>4 DEF UnregisterConnection, Placed
  <2>2. /\ UNCHANGED <<owner, host>>
        /\ \A d \in Conns \ {c} : pc'[d] = pc[d]
        /\ \A u \in Users \ {owner[c]} :
             registry'[u] = registry[u] /\ (u \in orphaned => u \in orphaned')
        /\ registry'[owner[c]] = None \/ owner[c] \in orphaned'
    BY <1>4, <2>1 DEF UnregisterConnection, Goto
  <2>3. SUFFICES ASSUME NEW u \in Users, registry'[u] # None, u \notin orphaned'
                 PROVE  \E d \in Conns :
                          /\ owner'[d] = u /\ host'[d] = registry'[u]
                          /\ pc'[d] \in {"online", "read", "hbset", "unreg", "del"}
    OBVIOUS
  <2>4. u # owner[c] /\ registry'[u] = registry[u] /\ u \notin orphaned
    BY <2>2, <2>3
  <2>5. PICK d \in Conns :
          /\ owner[d] = u /\ host[d] = registry[u]
          /\ pc[d] \in {"online", "read", "hbset", "unreg", "del"}
    BY <2>3, <2>4
  <2>. QED
    BY <2>2, <2>4, <2>5
<1>5. ASSUME NEW c \in Conns, BroadcastOffline(c)
      PROVE  RegistryBacked'
  BY <1>5 DEF BroadcastOffline, Goto
<1>6. ASSUME NEW c \in Conns, NEW ch \in Channels,
             RouteSubscribe(c, ch) \/ RouteUnsubscribe(c, ch)
      PROVE  RegistryBacked'
  <2>1. UNCHANGED <<pc, owner, host, registry, orphaned>>
    BY <1>6 DEF RouteSubscribe, RouteUnsubscribe, Route
  <2>. QED
    BY <2>1
<1>7. ASSUME NEW c \in Conns, PeerGone(c)
      PROVE  RegistryBacked'
  <2>1. UNCHANGED <<pc, owner, host, registry, orphaned>>
    BY <1>7 DEF PeerGone
  <2>. QED
    BY <2>1
<1>8. ASSUME NEW u \in Users, Expire(u)
      PROVE  RegistryBacked'
  BY <1>8 DEF Expire
<1>9. ASSUME NEW g \in Gateways, Stop(g)
      PROVE  RegistryBacked'
  BY <1>9 DEF Stop, PendingOn
<1>10. ASSUME NEW g \in Gateways, Restart(g)
       PROVE  RegistryBacked'
  <2>1. UNCHANGED <<pc, owner, host, registry, orphaned>>
    BY <1>10 DEF Restart
  <2>. QED
    BY <2>1
<1>11. CASE UNCHANGED vars
  BY <1>11 DEF vars
<1>. QED
  BY <1>1, <1>2, <1>3, <1>4, <1>5, <1>6, <1>7, <1>8, <1>9, <1>10, <1>11
     DEF Next, Pump

-----------------------------------------------------------------------------
(* The same argument for the presence events. *)
LEMMA OnlineStep ==
  ASSUME TypeOK, Placed, OnlineBacked, [Next]_vars
  PROVE  OnlineBacked'
<1> USE DEF TypeOK, PcValues, Unfinished, Serving, OnlineBacked
<1>1. ASSUME NEW c \in Conns, NEW u \in Users, NEW g \in Gateways,
             Upgrade(c, u, g)
      PROVE  OnlineBacked'
  BY <1>1 DEF Upgrade, Goto
<1>2. ASSUME NEW c \in Conns, BroadcastOnline(c)
      PROVE  OnlineBacked'
  <2>1. owner[c] \in Users
    BY <1>2 DEF BroadcastOnline, Placed
  <2>2. /\ owner' = owner /\ pc'[c] = "read"
        /\ \A d \in Conns \ {c} : pc'[d] = pc[d]
        /\ \A u \in Users \ {owner[c]} :
             announced'[u] = announced[u] /\ (u \in muted => u \in muted')
    BY <1>2, <2>1 DEF BroadcastOnline, Goto
  <2>. QED
    BY <1>2, <2>1, <2>2 DEF BroadcastOnline
<1>3. ASSUME NEW c \in Conns,
             \/ UpgradeRegister(c) \/ Heartbeat(c) \/ HeartbeatRegister(c)
             \/ PumpReturns(c) \/ Unregister(c) \/ UnregisterConnection(c)
      PROVE  OnlineBacked'
  <2>1. /\ UNCHANGED <<owner, announced, muted>>
        /\ pc[c] = "set" \/ pc'[c] \in {"read", "hbset", "unreg", "del", "offline"}
        /\ \A d \in Conns \ {c} : pc'[d] = pc[d]
    BY <1>3 DEF UpgradeRegister, Heartbeat, HeartbeatRegister, PumpReturns,
       Unregister, UnregisterConnection, Goto
  <2>. QED
    BY <2>1
<1>4. ASSUME NEW c \in Conns, BroadcastOffline(c)
      PROVE  OnlineBacked'
  <2>1. owner[c] \in Users
    BY <1>4 DEF BroadcastOffline, Placed
  <2>2. /\ owner' = owner
        /\ \A d \in Conns \ {c} : pc'[d] = pc[d]
        /\ \A u \in Users \ {owner[c]} :
             announced'[u] = announced[u] /\ (u \in muted => u \in muted')
        /\ announced'[owner[c]] = "offline" \/ owner[c] \in muted'
    BY <1>4, <2>1 DEF BroadcastOffline, Goto
  <2>3. SUFFICES ASSUME NEW u \in Users, announced'[u] = "online", u \notin muted'
                 PROVE  \E d \in Conns :
                          /\ owner'[d] = u
                          /\ pc'[d] \in {"read", "hbset", "unreg", "del", "offline"}
    OBVIOUS
  <2>4. u # owner[c] /\ announced[u] = "online" /\ u \notin muted
    BY <2>2, <2>3
  <2>5. PICK d \in Conns :
          /\ owner[d] = u
          /\ pc[d] \in {"read", "hbset", "unreg", "del", "offline"}
    BY <2>4
  <2>. QED
    BY <2>2, <2>4, <2>5
<1>5. ASSUME NEW c \in Conns, NEW ch \in Channels,
             RouteSubscribe(c, ch) \/ RouteUnsubscribe(c, ch)
      PROVE  OnlineBacked'
  <2>1. UNCHANGED <<pc, owner, announced, muted>>
    BY <1>5 DEF RouteSubscribe, RouteUnsubscribe, Route
  <2>. QED
    BY <2>1
<1>6. ASSUME NEW c \in Conns, PeerGone(c)
      PROVE  OnlineBacked'
  BY <1>6 DEF PeerGone
<1>7. ASSUME NEW u \in Users, Expire(u)
      PROVE  OnlineBacked'
  BY <1>7 DEF Expire
<1>8. ASSUME NEW g \in Gateways, Stop(g)
      PROVE  OnlineBacked'
  BY <1>8 DEF Stop, PendingOn
<1>9. ASSUME NEW g \in Gateways, Restart(g)
      PROVE  OnlineBacked'
  BY <1>9 DEF Restart
<1>10. CASE UNCHANGED vars
  BY <1>10 DEF vars
<1>. QED
  BY <1>1, <1>2, <1>3, <1>4, <1>5, <1>6, <1>7, <1>8, <1>9, <1>10
     DEF Next, Pump

-----------------------------------------------------------------------------
(* IInv is inductive, hence an invariant of the specification. *)
THEOREM Inductive == Spec => []IInv
<1>1. IInv /\ [Next]_vars => IInv'
  BY TypeStep, PlacedStep, EntryStep, RegistryStep, OnlineStep DEF IInv
<1>. QED
  BY InitIInv, <1>1, PTL DEF Spec

(* The state of HandleUpgrade, readPump and cleanupDisconnect stays typed,   *)
(* for any number of users, gateways and connections.                       *)
THEOREM TypeCorrect == Spec => []TypeOK
BY Inductive, PTL DEF IInv

(* No interleaving of Register and Unregister leaves the entry of a finished *)
(* pump in a ConnManager.                                                   *)
THEOREM EntriesAreServed == Spec => []EntryIsServed
BY Inductive, PTL DEF IInv

(* Every ws:uid key has a goroutine that will delete it, or is one that a    *)
(* failed DEL or a stopped gateway left to the TTL.                         *)
THEOREM RegistryIsBacked == Spec => []RegistryBacked
BY Inductive, PTL DEF IInv

(* Every "online" that contacts last heard has a goroutine that will publish *)
(* the "offline", or is one whose publish failed or whose gateway stopped.  *)
THEOREM OnlineIsBacked == Spec => []OnlineBacked
BY Inductive, PTL DEF IInv

-----------------------------------------------------------------------------
(* The api-gateway, for every number of calls and subjects. *)

Stages == {"new", "middleware", "handler", "waiting", "done"}

ApiTypeInv ==
  /\ gw \in [Calls -> Stages]
  /\ svc \in [Calls -> {"none", "arriving", "serving", "ended"}]
  /\ DOMAIN call = Calls /\ DOMAIN reply = Calls /\ DOMAIN status = Calls

\* The request c stands for one the router has, with a value for every parameter.
Sent(c) ==
  call[c].route \in DOMAIN Routes /\ call[c].in \in Inputs(H(c))

\* What a reply says of the write, while the gateway waits for it; after an
\* internal error the row may be there or not.
ReplyTells(c) ==
  /\ reply[c] \in Refusals \cup {"ok"}
  /\ reply[c] = "ok" /\ H(c).rpc \in Writing => Did(c)
  /\ reply[c] \notin {"ok", "internal"} => ~Did(c)

\* What the status says once it is written.
StatusTells(c) ==
  /\ status[c] \in {200, 201} /\ H(c).rpc \in Writing => Did(c)
  /\ status[c] \in 400..499 \ {408} => ~Did(c) /\ svc[c] \in {"none", "ended"}

\* How far the gateway and the service of a call can be apart.
Flow(c) ==
  /\ gw[c] # "new" => Sent(c)
  /\ gw[c] \in {"new", "middleware", "handler"} => svc[c] = "none"
  /\ gw[c] = "waiting" => svc[c] # "none"
  /\ svc[c] # "ended" => ~Did(c)
  /\ svc[c] \in {"arriving", "serving"} => ~Refuses(H(c), call[c])
  /\ gw[c] = "waiting" /\ svc[c] = "ended" => ReplyTells(c)
  /\ gw[c] = "done" => StatusTells(c)

\* An entry of the ledger is what the call, as it was sent, asked for.
Written(e) ==
  /\ e.call \in Calls /\ gw[e.call] # "new" /\ e = Entry(e.call)
  /\ H(e.call).rpc \in Writing
  /\ ~Refuses(H(e.call), call[e.call]) /\ ~Unservable(e.rpc, e.args)

EntriesInv == \A e \in ledger : Written(e)
FlowInv == \A c \in Calls : Flow(c)

ApiIInv == ApiTypeInv /\ FlowInv /\ EntriesInv

-----------------------------------------------------------------------------
(* No call has been sent at first. *)
LEMMA ApiInitial == ApiInit => ApiIInv
BY DEF ApiInit, ApiIInv, ApiTypeInv, FlowInv, EntriesInv, Stages, Flow, Did

(* A call nothing happened to keeps its invariant. *)
LEMMA FlowKept ==
  ASSUME NEW d, Flow(d), gw'[d] = gw[d], svc'[d] = svc[d], call'[d] = call[d],
         reply'[d] = reply[d], status'[d] = status[d], Did(d)' <=> Did(d)
  PROVE  Flow(d)'
BY DEF Flow, Sent, H, ReplyTells, StatusTells

(* Whether a call was carried out changes with the ledger only, and an     *)
(* entry tells of its own call.                                            *)
LEMMA DidKept ==
  ASSUME NEW d, ledger' = ledger
  PROVE  Did(d)' <=> Did(d)
BY DEF Did

LEMMA DidAdded ==
  ASSUME NEW c, NEW d, ledger' = ledger \cup {Entry(c)}
  PROVE  /\ Did(c)'
         /\ d # c => (Did(d)' <=> Did(d))
<1>1. Entry(c).call = c
  BY DEF Entry
<1> QED
  BY <1>1 DEF Did

(* What the codes become: no failure looks like a success, and a refusal   *)
(* that looks like the client's fault is not the internal error after      *)
(* which a row may have been written.                                      *)
LEMMA Mapped ==
  /\ \A code \in Refusals : mapConnectCode(code) \notin {200, 201}
  /\ mapConnectCode("internal") = 500
  /\ mapConnectCode("unavailable") = 503
  /\ mapConnectCode("deadline_exceeded") = 504
  /\ mapConnectCode("canceled") = 408
BY DEF mapConnectCode, Refusals

-----------------------------------------------------------------------------
(* The routes. *)
RouteNames ==
  {"ListCommunities", "CreateCommunity", "GetCommunity", "UpdateCommunity",
   "CreateChannel", "GetChannels", "UpdateChannel", "JoinCommunity", "AddMember",
   "RemoveMember", "LeaveCommunity", "ListMembers", "SendMessage", "DeleteMessage",
   "EditMessage", "GetHistory", "GetUser", "UpdateProfile", "ListFriends", "SendDM",
   "GetDMHistory", "GetDMConversations", "UploadFile", "GetFileURL", "DeleteFile",
   "Search", "GetUnread", "MarkDMRead", "MarkChannelRead", "Register", "Login",
   "RefreshToken", "GetPresence", "BlockUser"}

(* The names are those of the router. *)
LEMMA RouteDomain == DOMAIN Routes = RouteNames
BY DEF Routes, RouteNames

\* The parameters a route asks for and does not pass on.
Kept(r) == IF r \in DOMAIN NotPassedOn THEN NotPassedOn[r] ELSE {}

\* The fields of an RPC that can be neither empty nor blank in a served call.
Solid(rpc) == Demanded \ (OptionalIn(rpc) \cup FreeText)

\* A handler that writes fills the fields from the parameters their names
\* announce, and every parameter it insists on fills such a field.
HandlerSound(h, kept) ==
  /\ h.ok \in {200, 201, 501}
  /\ h.rpc \in Writing =>
       /\ \A f \in DOMAIN h.args \cap DOMAIN Announced :
            h.args[f] \in Announced[f]
       /\ DOMAIN h.query \cap DOMAIN Announced = {}
       /\ \A p \in (h.ids \cup h.required) \ (kept \cup {"file"}) :
            \E f \in DOMAIN h.args :
              h.args[f] = p /\ f \in Solid(h.rpc)

(* Every route of the router has such a handler, one after the other. *)
LEMMA RoutesSound ==
  ASSUME NEW r \in RouteNames
  PROVE  HandlerSound(Routes[r], Kept(r))
<1> USE DEF HandlerSound, Solid, Kept, NotPassedOn, Handler, Page, Writing,
            Announced, Demanded, OptionalIn, FreeText
<1>1. HandlerSound(ListCommunities, Kept("ListCommunities"))
  BY DEF ListCommunities
<1>2. HandlerSound(CreateCommunity, Kept("CreateCommunity"))
  BY DEF CreateCommunity
<1>3. HandlerSound(GetCommunity, Kept("GetCommunity"))
  BY DEF GetCommunity
<1>4. HandlerSound(UpdateCommunity, Kept("UpdateCommunity"))
  BY DEF UpdateCommunity
<1>5. HandlerSound(CreateChannel, Kept("CreateChannel"))
  BY DEF CreateChannel
<1>6. HandlerSound(GetChannels, Kept("GetChannels"))
  BY DEF GetChannels
<1>7. HandlerSound(UpdateChannel, Kept("UpdateChannel"))
  BY DEF UpdateChannel
<1>8. HandlerSound(JoinCommunity, Kept("JoinCommunity"))
  BY DEF JoinCommunity
<1>9. HandlerSound(AddMember, Kept("AddMember"))
  BY DEF AddMember
<1>10. HandlerSound(RemoveMember, Kept("RemoveMember"))
  BY DEF RemoveMember
<1>11. HandlerSound(LeaveCommunity, Kept("LeaveCommunity"))
  BY DEF LeaveCommunity
<1>12. HandlerSound(ListMembers, Kept("ListMembers"))
  BY DEF ListMembers
<1>13. HandlerSound(SendMessage, Kept("SendMessage"))
  BY DEF SendMessage
<1>14. HandlerSound(DeleteMessage, Kept("DeleteMessage"))
  BY DEF DeleteMessage
<1>15. HandlerSound(EditMessage, Kept("EditMessage"))
  BY DEF EditMessage
<1>16. HandlerSound(GetHistory, Kept("GetHistory"))
  BY DEF GetHistory
<1>17. HandlerSound(GetUser, Kept("GetUser"))
  BY DEF GetUser
<1>18. HandlerSound(UpdateProfile, Kept("UpdateProfile"))
  BY DEF UpdateProfile
<1>19. HandlerSound(ListFriends, Kept("ListFriends"))
  BY DEF ListFriends
<1>20. HandlerSound(SendDM, Kept("SendDM"))
  BY DEF SendDM
<1>21. HandlerSound(GetDMHistory, Kept("GetDMHistory"))
  BY DEF GetDMHistory
<1>22. HandlerSound(GetDMConversations, Kept("GetDMConversations"))
  BY DEF GetDMConversations
<1>23. HandlerSound(UploadFile, Kept("UploadFile"))
  BY DEF UploadFile
<1>24. HandlerSound(GetFileURL, Kept("GetFileURL"))
  BY DEF GetFileURL
<1>25. HandlerSound(DeleteFile, Kept("DeleteFile"))
  BY DEF DeleteFile
<1>26. HandlerSound(Search, Kept("Search"))
  BY DEF Search
<1>27. HandlerSound(GetUnread, Kept("GetUnread"))
  BY DEF GetUnread
<1>28. HandlerSound(MarkDMRead, Kept("MarkDMRead"))
  BY DEF MarkDMRead
<1>29. HandlerSound(MarkChannelRead, Kept("MarkChannelRead"))
  BY DEF MarkChannelRead
<1>30. HandlerSound(Register, Kept("Register"))
  BY DEF Register
<1>31. HandlerSound(Login, Kept("Login"))
  BY DEF Login
<1>32. HandlerSound(RefreshToken, Kept("RefreshToken"))
  BY DEF RefreshToken
<1>33. HandlerSound(GetPresence, Kept("GetPresence"))
  BY DEF GetPresence
<1>34. HandlerSound(notImplemented, Kept("BlockUser"))
  BY DEF notImplemented
<1> HIDE DEF HandlerSound, Solid, Kept, NotPassedOn, Handler, Page, Writing,
             Announced, Demanded, OptionalIn, FreeText
<1> QED
  BY <1>1, <1>2, <1>3, <1>4, <1>5, <1>6, <1>7, <1>8, <1>9, <1>10, <1>11, <1>12,
     <1>13, <1>14, <1>15, <1>16, <1>17, <1>18, <1>19, <1>20, <1>21, <1>22, <1>23,
     <1>24, <1>25, <1>26, <1>27, <1>28, <1>29, <1>30, <1>31, <1>32, <1>33, <1>34
     DEF RouteNames, Routes

-----------------------------------------------------------------------------
(* From the request to the row. *)
(* A field that the service insists on arrives as the client's parameter. *)
LEMMA ArgsFilled ==
  ASSUME NEW h, NEW in \in Inputs(h), NEW r, r.in = in,
         NEW f \in DOMAIN h.args,
           f \in Solid(h.rpc),
         ~Unservable(h.rpc, RpcRequest(h, r))
  PROVE  RpcRequest(h, r)[f] = h.args[f]
<1>1. h.args[f] \in Params(h)
  BY DEF Params, Range
<1>2. in[h.args[f]] \in {h.args[f], "", " "}
  BY <1>1 DEF Inputs
<1>3. f \in DOMAIN RpcRequest(h, r) /\ RpcRequest(h, r)[f] = in[h.args[f]]
  BY DEF RpcRequest
<1>4. RpcRequest(h, r)[f] \notin {"", " "}
  BY <1>3 DEF Solid, Unservable, Lacking, Blank
<1> QED
  BY <1>2, <1>3, <1>4

(* The fields that name a row are among those. *)
LEMMA AnnouncedAreDemanded ==
  ASSUME NEW rpc, NEW f \in DOMAIN Announced
  PROVE  f \in Solid(rpc)
BY DEF Solid, Announced, Demanded, OptionalIn, FreeText

(* Hence a served call of a sound handler touches the row the client named. *)
LEMMA RowIsNamed ==
  ASSUME NEW h, NEW kept, HandlerSound(h, kept), h.rpc \in Writing,
         NEW r, r.in \in Inputs(h), ~Unservable(h.rpc, RpcRequest(h, r))
  PROVE  LET args == RpcRequest(h, r)
         IN /\ \A f \in DOMAIN args \cap DOMAIN Announced :
                 args[f] \in Announced[f]
            /\ h.ids \cup h.required \subseteq Range(args) \cup kept \cup {"file"}
<1>. DEFINE args == RpcRequest(h, r)
<1>1. DOMAIN args = DOMAIN h.args \cup DOMAIN h.query
  BY DEF RpcRequest
<1>2. ASSUME NEW f \in DOMAIN args \cap DOMAIN Announced
      PROVE  args[f] \in Announced[f]
  <2>1. f \in DOMAIN h.args /\ h.args[f] \in Announced[f]
    BY <1>1, <1>2 DEF HandlerSound
  <2> QED
    BY <2>1, AnnouncedAreDemanded, ArgsFilled
<1>3. ASSUME NEW p \in h.ids \cup h.required, p \notin kept \cup {"file"}
      PROVE  p \in Range(args)
  <2>1. PICK f \in DOMAIN h.args :
          h.args[f] = p /\ f \in Solid(h.rpc)
    BY <1>3 DEF HandlerSound
  <2>2. args[f] = p
    BY <2>1, ArgsFilled
  <2> QED
    BY <1>1, <2>2 DEF Range
<1> HIDE DEF args
<1>4. h.ids \cup h.required \subseteq Range(args) \cup kept \cup {"file"}
  BY <1>3
<1> QED
  BY <1>2, <1>4 DEF args

(* What the ledger holds is the outcome of such calls. *)
LEMMA EntriesNamed ==
  ASSUME ApiTypeInv, FlowInv, EntriesInv
  PROVE  NamedRowIsWritten
<1> SUFFICES ASSUME NEW e \in ledger
             PROVE  /\ \A f \in DOMAIN e.args \cap DOMAIN Announced :
                         e.args[f] \in Announced[f]
                    /\ H(e.call).ids \cup H(e.call).required
                         \subseteq Range(e.args)
                                     \cup Kept(call[e.call].route) \cup {"file"}
  BY DEF NamedRowIsWritten, Kept
<1>. DEFINE c == e.call
<1>1. Written(e)
  BY DEF EntriesInv
<1>2. c \in Calls /\ gw[c] # "new" /\ e = Entry(c)
  BY <1>1 DEF Written
<1>3. e.args = RpcRequest(H(c), call[c]) /\ e.rpc = H(c).rpc
  BY <1>2 DEF Entry, Args
<1>4. Sent(c)
  BY <1>2 DEF FlowInv, Flow
<1>5. HandlerSound(H(c), Kept(call[c].route))
  BY <1>4, RouteDomain, RoutesSound DEF Sent, H
<1> QED
  BY <1>1, <1>3, <1>4, <1>5, RowIsNamed DEF Written, Sent, Kept

-----------------------------------------------------------------------------
(* Every step keeps the types. *)
LEMMA ApiTypeStep ==
  ASSUME ApiTypeInv, [ApiNext]_apiVars
  PROVE  ApiTypeInv'
<1> USE DEF ApiTypeInv, Stages
<1>1. ASSUME NEW c \in Calls, NEW r \in DOMAIN Routes, NEW u, Send(c, r, u)
      PROVE  ApiTypeInv'
  BY <1>1 DEF Send
<1>2. ASSUME NEW c \in Calls, jwtAuthMiddleware(c)
      PROVE  ApiTypeInv'
  BY <1>2 DEF jwtAuthMiddleware, Answer
<1>3. ASSUME NEW c \in Calls, Handle(c)
      PROVE  ApiTypeInv'
  BY <1>3 DEF Handle, Answer
<1>4. ASSUME NEW c \in Calls,
             AuthInterceptor(c) \/ Refuse(c) \/ Serve(c) \/ FailLate(c)
      PROVE  ApiTypeInv'
  BY <1>4 DEF AuthInterceptor, Refuse, Serve, FailLate, Return
<1>5. ASSUME NEW c \in Calls,
  Finish(c) \/ Unreachable(c) \/ Deadline(c) \/ HangUp(c)
      PROVE  ApiTypeInv'
  BY <1>5 DEF Finish, Unreachable, Deadline, HangUp, Answer
<1>6. ASSUME NEW u \in Subjects, TokenExpires(u)
      PROVE  ApiTypeInv'
  BY <1>6 DEF TokenExpires
<1>7. ASSUME UNCHANGED apiVars
      PROVE  ApiTypeInv'
  BY <1>7 DEF apiVars
<1> QED
  BY <1>1, <1>2, <1>3, <1>4, <1>5, <1>6, <1>7 DEF ApiNext, Gateway

(* A request does not change once it is sent. *)
LEMMA CallKept ==
  ASSUME ApiTypeInv, [ApiNext]_apiVars, NEW d \in Calls, gw[d] # "new"
  PROVE  call'[d] = call[d] /\ gw'[d] # "new"
<1> USE DEF ApiTypeInv, Stages
<1>1. ASSUME NEW c \in Calls, NEW r, NEW u, Send(c, r, u)
      PROVE  call'[d] = call[d] /\ gw'[d] # "new"
  BY <1>1 DEF Send
<1>2. ASSUME NEW c \in Calls,
             jwtAuthMiddleware(c) \/ Handle(c) \/ AuthInterceptor(c)
               \/ Refuse(c)
      PROVE  call'[d] = call[d] /\ gw'[d] # "new"
  BY <1>2 DEF jwtAuthMiddleware, Handle, Answer, AuthInterceptor, Refuse
<1>3. ASSUME NEW c \in Calls,
             Serve(c) \/ FailLate(c) \/ Finish(c) \/ Unreachable(c)
               \/ Deadline(c) \/ HangUp(c)
      PROVE  call'[d] = call[d] /\ gw'[d] # "new"
  BY <1>3 DEF Serve, FailLate, Finish, Unreachable, Deadline, HangUp, Answer
<1>4. ASSUME NEW u, TokenExpires(u)
      PROVE  call'[d] = call[d] /\ gw'[d] # "new"
  BY <1>4 DEF TokenExpires
<1>5. ASSUME UNCHANGED apiVars
      PROVE  call'[d] = call[d] /\ gw'[d] # "new"
  BY <1>5 DEF apiVars
<1> QED
  BY <1>1, <1>2, <1>3, <1>4, <1>5 DEF ApiNext, Gateway

(* The ledger grows only by the entry of a call being served, filled in    *)
(* from a request that the handler did not refuse.                         *)
Adds(c) ==
  /\ svc[c] = "serving" /\ H(c).rpc \in Writing
  /\ ~Unservable(H(c).rpc, Args(c))
  /\ ledger' = ledger \cup {Entry(c)}

LEMMA LedgerStep ==
  ASSUME [ApiNext]_apiVars
  PROVE  ledger' = ledger \/ \E c \in Calls : Adds(c)
<1>1. ASSUME NEW c \in Calls, NEW r, NEW u, Send(c, r, u)
      PROVE  ledger' = ledger
  BY <1>1 DEF Send
<1>2. ASSUME NEW c \in Calls,
  Gateway(c) \/ AuthInterceptor(c) \/ Refuse(c)
                                \/ Unreachable(c) \/ HangUp(c)
      PROVE  ledger' = ledger
  BY <1>2
     DEF Gateway, jwtAuthMiddleware, Handle, Finish, Deadline, AuthInterceptor,
         Refuse, Unreachable, HangUp
<1>3. ASSUME NEW c \in Calls, Serve(c)
      PROVE  ledger' = ledger \/ Adds(c)
  BY <1>3 DEF Serve, Adds
<1>4. ASSUME NEW c \in Calls, FailLate(c)
      PROVE  Adds(c)
  BY <1>4 DEF FailLate, Adds, FailsLate, Writing
<1>5. ASSUME NEW u, TokenExpires(u)
      PROVE  ledger' = ledger
  BY <1>5 DEF TokenExpires
<1> QED
  BY <1>1, <1>2, <1>3, <1>4, <1>5 DEF ApiNext, apiVars

(* So an entry stays what its call asked for. *)
LEMMA WrittenKept ==
  ASSUME ApiTypeInv, [ApiNext]_apiVars, NEW e, Written(e)
  PROVE  Written(e)'
<1>1. call'[e.call] = call[e.call] /\ gw'[e.call] # "new"
  BY CallKept DEF Written
<1> QED
  BY <1>1 DEF Written, Entry, Args, H

(* And a new one is: only calls past the handler's checks are served. *)
LEMMA EntriesStep ==
  ASSUME ApiTypeInv, FlowInv, EntriesInv, [ApiNext]_apiVars
  PROVE  EntriesInv'
<1> SUFFICES ASSUME NEW e \in ledger'
             PROVE  Written(e)'
  BY DEF EntriesInv
<1>1. CASE e \in ledger
  BY <1>1, WrittenKept DEF EntriesInv
<1>2. ASSUME NEW c \in Calls, Adds(c), e = Entry(c)
      PROVE  Written(e)
  <2>1. Flow(c) /\ svc[c] = "serving"
    BY <1>2 DEF FlowInv, Adds
  <2>2. gw[c] # "new" /\ ~Refuses(H(c), call[c])
    BY <2>1 DEF Flow
  <2>3. e.call = c /\ e.rpc = H(c).rpc /\ e.args = Args(c)
    BY <1>2 DEF Entry
  <2> QED
    BY <1>2, <2>2, <2>3 DEF Written, Adds
<1> QED
  BY <1>1, <1>2, LedgerStep, WrittenKept DEF Adds

(* One action at a time: a step of the gateway or of the service moves one *)
(* call along, and the status that ends the call says what its write is.   *)
LEMMA FlowStep ==
  ASSUME ApiTypeInv, ApiTypeInv', FlowInv, [ApiNext]_apiVars
  PROVE  FlowInv'
<1> SUFFICES ASSUME NEW d \in Calls
             PROVE  Flow(d)'
  BY DEF FlowInv
<1>0. Flow(d)
  BY DEF FlowInv
<1> USE <1>0 DEF ApiTypeInv, Stages
<1>1. ASSUME NEW c \in Calls, NEW r \in DOMAIN Routes, NEW u, Send(c, r, u)
      PROVE  Flow(d)'
  <2>1. CASE d # c
    BY <1>1, <2>1, DidKept, FlowKept DEF Send
  <2>2. CASE d = c
    <3>1. call'[c].route = r /\ call'[c].in \in Inputs(Routes[r])
      BY <1>1 DEF Send
    <3>2. Sent(c)'
      BY <3>1 DEF Sent, H
    <3>3. /\ gw[c] = "new" /\ gw'[c] \in {"handler", "middleware"}
          /\ svc'[c] = svc[c] /\ ledger' = ledger
      BY <1>1 DEF Send
    <3> QED
      BY <2>2, <3>2, <3>3, DidKept DEF Flow
  <2> QED
    BY <2>1, <2>2
<1>2. ASSUME NEW c \in Calls, jwtAuthMiddleware(c)
      PROVE  Flow(d)'
  <2>1. CASE d # c
    BY <1>2, <2>1, DidKept, FlowKept DEF jwtAuthMiddleware, Answer
  <2>2. CASE d = c
    <3>1. /\ gw[c] = "middleware" /\ svc'[c] = svc[c] /\ call'[c] = call[c]
          /\ ledger' = ledger
          /\ gw'[c] = "handler" \/ (gw'[c] = "done" /\ status'[c] = 401)
      BY <1>2 DEF jwtAuthMiddleware, Answer
    <3>2. svc[c] = "none" /\ ~Did(c)
      BY <2>2, <3>1 DEF Flow
    <3> QED
      BY <2>2, <3>1, <3>2, DidKept DEF Flow, Sent, H, StatusTells
  <2> QED
    BY <2>1, <2>2
<1>3. ASSUME NEW c \in Calls, Handle(c)
      PROVE  Flow(d)'
  <2>1. CASE d # c
    BY <1>3, <2>1, DidKept, FlowKept DEF Handle, Answer
  <2>2. CASE d = c
    <3>1. gw[c] = "handler" /\ call'[c] = call[c] /\ ledger' = ledger
      BY <1>3 DEF Handle
    <3>2. svc[c] = "none" /\ ~Did(c) /\ Sent(c)
      BY <2>2, <3>1 DEF Flow
    <3>3. H(c).ok \in {200, 201, 501}
      BY <3>2, RoutesSound, RouteDomain DEF Sent, H, HandlerSound
    <3>4. \/ gw'[c] = "done" /\ svc'[c] = "none" /\ status'[c] = 400
          \/ /\ gw'[c] = "done" /\ svc'[c] = "none" /\ status'[c] = H(c).ok
             /\ H(c).rpc = "none"
          \/ /\ gw'[c] = "waiting" /\ svc'[c] = "arriving"
             /\ ~Refuses(H(c), call[c])
      BY <1>3, <3>2 DEF Handle, Answer
    <3>5. "none" \notin Writing
      BY DEF Writing
    <3>6. H(c)' = H(c)
      BY <3>1 DEF H
    <3> QED
      BY <2>2, <3>1, <3>2, <3>3, <3>4, <3>5, <3>6, DidKept
         DEF Flow, Sent, StatusTells
  <2> QED
    BY <2>1, <2>2
<1>4. ASSUME NEW c \in Calls, AuthInterceptor(c)
      PROVE  Flow(d)'
  <2>1. CASE d # c
    BY <1>4, <2>1, DidKept, FlowKept DEF AuthInterceptor, Return
  <2>2. CASE d = c
    <3>1. /\ svc[c] = "arriving" /\ gw'[c] = gw[c] /\ call'[c] = call[c]
          /\ status'[c] = status[c] /\ ledger' = ledger
          /\ \/ svc'[c] = "serving"
             \/ svc'[c] = "ended" /\ reply'[c] = "unauthenticated"
      BY <1>4 DEF AuthInterceptor, Return
    <3>2. H(c)' = H(c)
      BY <3>1 DEF H
    <3>3. "unauthenticated" \in Refusals
      BY DEF Refusals
    <3> QED
      BY <2>2, <3>1, <3>2, <3>3, DidKept DEF Flow, Sent, StatusTells, ReplyTells
  <2> QED
    BY <2>1, <2>2
<1>5. ASSUME NEW c \in Calls, Refuse(c)
      PROVE  Flow(d)'
  <2>1. CASE d # c
    BY <1>5, <2>1, DidKept, FlowKept DEF Refuse, Return
  <2>2. CASE d = c
    <3>1. /\ svc[c] = "serving" /\ gw'[c] = gw[c] /\ call'[c] = call[c]
          /\ status'[c] = status[c] /\ ledger' = ledger
          /\ svc'[c] = "ended" /\ reply'[c] \in Refusals
      BY <1>5 DEF Refuse, Return
    <3>2. H(c)' = H(c)
      BY <3>1 DEF H
    <3>3. "ok" \notin Refusals
      BY DEF Refusals
    <3> QED
      BY <2>2, <3>1, <3>2, <3>3, DidKept DEF Flow, Sent, StatusTells, ReplyTells
  <2> QED
    BY <2>1, <2>2
<1>6. ASSUME NEW c \in Calls, Serve(c) \/ FailLate(c)
      PROVE  Flow(d)'
  <2>1. ledger' = ledger \/ ledger' = ledger \cup {Entry(c)}
    BY <1>6 DEF Serve, FailLate
  <2>2. CASE d # c
    <3>1. Did(d)' <=> Did(d)
      BY <2>1, <2>2, DidKept, DidAdded
    <3> QED
      BY <1>6, <2>2, <3>1, FlowKept DEF Serve, FailLate, Return
  <2>3. CASE d = c
    <3>1. /\ svc[c] = "serving" /\ gw'[c] = gw[c] /\ call'[c] = call[c]
          /\ status'[c] = status[c] /\ svc'[c] = "ended"
          /\ \/ reply'[c] = "internal"
             \/ /\ reply'[c] = "ok"
                /\ H(c).rpc \in Writing => ledger' = ledger \cup {Entry(c)}
      BY <1>6 DEF Serve, FailLate, Return
    <3>2. H(c)' = H(c)
      BY <3>1 DEF H
    <3>3. "internal" \in Refusals
      BY DEF Refusals
    <3>4. H(c).rpc \in Writing /\ reply'[c] = "ok" => Did(c)'
      BY <3>1, DidAdded
    <3>5. gw[c] # "new"
      BY <2>3, <3>1 DEF Flow
    <3>6. gw[c] = "done" => StatusTells(c)'
      BY <2>3, <3>1, <3>2, <3>4 DEF Flow, StatusTells
    <3> QED
      BY <2>3, <3>1, <3>2, <3>3, <3>4, <3>5, <3>6 DEF Flow, Sent, ReplyTells
  <2> QED
    BY <2>2, <2>3
<1>7. ASSUME NEW c \in Calls, Finish(c)
      PROVE  Flow(d)'
  <2>1. CASE d # c
    BY <1>7, <2>1, DidKept, FlowKept DEF Finish, Answer
  <2>2. CASE d = c
    <3>1. /\ gw[c] = "waiting" /\ gw'[c] = "done"
          /\ svc[c] = "ended" /\ svc'[c] = svc[c]
          /\ call'[c] = call[c] /\ ledger' = ledger
          /\ status'[c] = IF reply[c] = "ok" THEN H(c).ok
                                            ELSE mapConnectCode(reply[c])
      BY <1>7 DEF Finish, Answer
    <3>2. H(c)' = H(c)
      BY <3>1 DEF H
    <3>3. ReplyTells(c) /\ Sent(c)
      BY <2>2, <3>1 DEF Flow
    <3>4. H(c).ok \in {200, 201, 501}
      BY <3>3, RoutesSound, RouteDomain DEF Sent, H, HandlerSound
    <3>5. StatusTells(c)'
      BY <3>1, <3>2, <3>3, <3>4, DidKept, Mapped DEF StatusTells, ReplyTells
    <3> QED
      BY <2>2, <3>1, <3>2, <3>3, <3>5, DidKept DEF Flow, Sent
  <2> QED
    BY <2>1, <2>2
<1>8. ASSUME NEW c \in Calls, Unreachable(c) \/ Deadline(c) \/ HangUp(c)
      PROVE  Flow(d)'
  <2>1. CASE d # c
    BY <1>8, <2>1, DidKept, FlowKept DEF Unreachable, Deadline, HangUp, Answer
  <2>2. CASE d = c
    <3>1. /\ gw[c] = "waiting" /\ svc'[c] \in {svc[c], "ended"} /\ gw'[c] = "done"
          /\ call'[c] = call[c] /\ ledger' = ledger
          /\ status'[c] \in {503, 504, 408}
      BY <1>8, Mapped DEF Unreachable, Deadline, HangUp, Answer
    <3>2. H(c)' = H(c)
      BY <3>1 DEF H
    <3> QED
      BY <2>2, <3>1, <3>2, DidKept DEF Flow, Sent, StatusTells
  <2> QED
    BY <2>1, <2>2
<1>9. ASSUME NEW u, TokenExpires(u)
      PROVE  Flow(d)'
  BY <1>9, DidKept, FlowKept DEF TokenExpires
<1>10. ASSUME UNCHANGED apiVars
       PROVE  Flow(d)'
  BY <1>10, DidKept, FlowKept DEF apiVars
<1> QED
  BY <1>1, <1>2, <1>3, <1>4, <1>5, <1>6, <1>7, <1>8, <1>9, <1>10
     DEF ApiNext, Gateway

(* The invariant of the api-gateway is inductive. *)
THEOREM ApiInductive == ApiSpec => []ApiIInv
<1>1. ApiIInv /\ [ApiNext]_apiVars => ApiIInv'
  BY ApiTypeStep, FlowStep, EntriesStep DEF ApiIInv
<1> QED
  BY ApiInitial, <1>1, PTL DEF ApiSpec

(* For every number of concurrent calls: a status of success means that the *)
(* write was done, and a client error that it was not and will not be,     *)
(* through the handler, the interceptor's second look at the token, a late *)
(* failure of the service, a deadline and a lost reply.                    *)
THEOREM AnswersTell == ApiSpec => []AnswerTellsEffect
<1>1. ApiIInv => AnswerTellsEffect
  BY DEF ApiIInv, FlowInv, Flow, StatusTells, AnswerTellsEffect
<1> QED
  BY ApiInductive, <1>1, PTL

(* On every route, a write that a service carries out touches the row that *)
(* the client named: handlers, parameter copies and the services' own      *)
(* checks together.                                                        *)
THEOREM RowsNamed == ApiSpec => []NamedRowIsWritten
<1>1. ApiIInv => NamedRowIsWritten
  BY EntriesNamed DEF ApiIInv
<1> QED
  BY ApiInductive, <1>1, PTL
=============================================================================
