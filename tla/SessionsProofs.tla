---------------------------- MODULE SessionsProofs ----------------------------
(***************************************************************************)
(* Tokens, calls, users and promises for every number of tabs, browsers,   *)
(* users, requests and faults, and every choice of the delays that keeps   *)
(* their order.                                                            *)
(***************************************************************************)
EXTENDS Sessions, TLAPS

CallStates == [state : {"idle", "await", "sent"}, pair : Pairs \cup {None}, due : Nat]

TypeInv ==
  /\ now \in 0..MaxTime /\ home \in [Tabs -> Browsers]
  /\ store \in [Browsers -> Pairs \cup {None}]
  /\ promise \in [Tabs -> Reqs \cup {None}]
  /\ caller \in [Calls -> Tabs] /\ call \in [Calls -> CallStates]
  /\ req \in [Reqs -> Requests \cup {None}]
  /\ keys \subseteq Pairs
  /\ presented \in [Pairs -> 0..2]
  /\ last \in [Browsers -> Users \cup {None}]

-----------------------------------------------------------------------------
(* The clock: a request is answered, and a call ends, when it is due. *)

Timely(r) ==
  /\ req[r].due <= now + RequestTime
  /\ req[r].waiting => now <= req[r].due
  /\ req[r].answer = 200 => /\ req[r].pair \in Pairs
                            /\ req[r].due <= req[r].pair.iat + RequestTime

\* A call carries a token that outlasts it.
Outlasts(c) ==
  /\ call[c].pair \in Pairs
  /\ now <= call[c].due /\ call[c].due < call[c].pair.iat + AccessTTL

TimeInv ==
  /\ \A r \in Reqs : Live(r) => Timely(r)
  /\ \A c \in Calls : Sent(c) => Outlasts(c)

-----------------------------------------------------------------------------
(* The promise of a tab is the refresh it waits for. *)

PromiseInv ==
  /\ \A t \in Tabs : promise[t] # None =>
       /\ Waiting(promise[t]) /\ req[promise[t]].kind = "refresh"
       /\ req[promise[t]].tab = t
  /\ \A r \in Reqs : Waiting(r) /\ req[r].kind = "refresh" => promise[req[r].tab] = r
  /\ \A c \in Calls : call[c] = Await => promise[caller[c]] # None

-----------------------------------------------------------------------------
(* Only what was presented leaves Redis. *)

Good(p) == p \in keys \/ RefreshExpired(p) \/ presented[p] > 0

\* A refresh that has not yet got past the look-up and the deletion.
Presents(r) == Live(r) /\ req[r].kind = "refresh" /\ req[r].stage \in {"sent", "found"}

TokenInv ==
  /\ \A b \in Browsers : store[b] # None => Good(store[b])
  /\ \A r \in Reqs : Live(r) /\ req[r].answer = 200 => Good(req[r].pair)
  /\ \A r \in Reqs : Presents(r) => req[r].pair \in Pairs /\ presented[req[r].pair] > 0
  /\ \A q, r \in Reqs : q # r /\ Presents(q) /\ Presents(r) /\ req[q].pair = req[r].pair =>
       presented[req[r].pair] > 1
  /\ \A r \in Reqs : At(r, "refresh", "sent") =>
       req[r].pair \in keys \/ RefreshExpired(req[r].pair) \/ presented[req[r].pair] > 1

-----------------------------------------------------------------------------
(* A refresh acts for the user who logged in last. *)

UserInv ==
  /\ \A b \in Browsers : store[b] # None /\ b \notin crossed => store[b].sub = last[b]
  /\ \A r \in Reqs : Live(r) /\ req[r].answer = 200 => req[r].pair.sub = req[r].user
  /\ \A r \in Reqs : Waiting(r) /\ req[r].kind = "refresh" =>
       home[req[r].tab] \in crossed \/ req[r].user = last[home[req[r].tab]]

IInv == TypeInv /\ TimeInv /\ PromiseInv /\ TokenInv /\ UserInv

-----------------------------------------------------------------------------
LEMMA InitIInv == Init => IInv
<1> SUFFICES ASSUME Init PROVE IInv
  OBVIOUS
<1>1. Idle \in CallStates /\ Idle.state = "idle" /\ Idle # Await
  BY DEF Idle, CallStates, Await
<1>2. 0 \in 0..MaxTime
  BY DelayAssumption
<1>3. TypeInv
  BY <1>1, <1>2 DEF Init, TypeInv
<1>4. \A r \in Reqs : ~Live(r)
  BY DEF Init, Live
<1>5. TimeInv /\ PromiseInv
  BY <1>1, <1>4 DEF Init, TimeInv, PromiseInv, Sent, Waiting
<1>6. TokenInv /\ UserInv
  BY <1>4 DEF Init, TokenInv, UserInv, Presents, At, Waiting
<1>. QED
  BY <1>3, <1>5, <1>6 DEF IInv

-----------------------------------------------------------------------------
(* What the steps do to a request and to a call. *)

Others(r) == /\ req' \in [Reqs -> Requests \cup {None}]
             /\ \A q \in Reqs \ {r} : req'[q] = req[q]
Same(r) == /\ req'[r] # None /\ req'[r].tab = req[r].tab /\ req'[r].kind = req[r].kind
           /\ req'[r].user = req[r].user /\ req'[r].due = req[r].due

Posted(r, t, kind, user, pair) ==
  /\ Others(r) /\ req[r] = None /\ req'[r] # None
  /\ req'[r].tab = t /\ req'[r].kind = kind /\ req'[r].user = user /\ req'[r].pair = pair
  /\ req'[r].stage = "sent" /\ req'[r].answer = None /\ req'[r].waiting
  /\ req'[r].due = now + RequestTime

Stepped(r, s) ==
  /\ Others(r) /\ Same(r) /\ req'[r].stage = s
  /\ req'[r].pair = req[r].pair /\ req'[r].answer = req[r].answer
  /\ req'[r].waiting = req[r].waiting

Replied(r, a, p) ==
  /\ Others(r)
  /\ ~req[r].waiting => req'[r] = None
  /\ req[r].waiting => /\ Same(r) /\ req'[r].stage = "ended" /\ req'[r].answer = a
                       /\ req'[r].pair = p /\ req'[r].waiting

Released(r) ==
  /\ Others(r)
  /\ \/ req'[r] = None
     \/ /\ Same(r) /\ req'[r].stage = req[r].stage /\ req'[r].pair = req[r].pair
        /\ req'[r].answer = req[r].answer /\ ~req'[r].waiting

LEMMA PostEffect ==
  ASSUME TypeInv, NEW r \in Reqs, NEW t \in Tabs, NEW u \in Users, NEW kind \in Kinds,
         NEW p \in Pairs \cup {None}, Post(r, t, kind, u, p)
  PROVE  Posted(r, t, kind, u, p)
<1>. DEFINE x == [tab |-> t, kind |-> kind, user |-> u, pair |-> p, stage |-> "sent",
                  answer |-> None, waiting |-> TRUE, due |-> now + RequestTime]
<1>1. now + RequestTime \in Nat /\ "sent" \in Stages /\ None \in Answers
  BY DelayAssumption DEF TypeInv, Stages, Answers
<1>2. x \in Requests
  BY <1>1 DEF Requests
<1>3. x # None
  BY <1>2, NoneAssumption
<1>4. req[r] = None /\ req' = [req EXCEPT ![r] = x]
  BY DEF Post
<1>5. Others(r) /\ req'[r] = x
  BY <1>2, <1>4 DEF Others, TypeInv
<1>. QED
  BY <1>3, <1>4, <1>5 DEF Posted

LEMMA StepEffect ==
  ASSUME TypeInv, NEW r \in Reqs, Live(r), NEW s \in {"found", "mint"}, Step(r, s)
  PROVE  Stepped(r, s)
<1>. DEFINE x == [req[r] EXCEPT !.stage = s]
<1>1. req[r] \in Requests /\ s \in Stages
  BY DEF TypeInv, Live, Stages
<1>2. x \in Requests
  BY <1>1 DEF Requests
<1>3. x # None
  BY <1>2, NoneAssumption
<1>4. Others(r) /\ req'[r] = x
  BY <1>2 DEF Step, Others, TypeInv
<1>. QED
  BY <1>1, <1>3, <1>4 DEF Stepped, Same, Requests

LEMMA ReplyEffect ==
  ASSUME TypeInv, NEW r \in Reqs, Live(r), NEW a \in Answers,
         NEW p \in Pairs \cup {None}, Reply(r, a, p)
  PROVE  Replied(r, a, p)
<1>. DEFINE x == [req[r] EXCEPT !.stage = "ended", !.answer = a, !.pair = p]
<1>1. req[r] \in Requests /\ "ended" \in Stages
  BY DEF TypeInv, Live, Stages
<1>2. x \in Requests
  BY <1>1 DEF Requests
<1>3. x # None
  BY <1>2, NoneAssumption
<1>4. Others(r) /\ req'[r] = IF req[r].waiting THEN x ELSE None
  BY <1>2 DEF Reply, Others, TypeInv
<1>. QED
  BY <1>1, <1>3, <1>4 DEF Replied, Same, Requests

LEMMA ReleaseEffect ==
  ASSUME TypeInv, NEW r \in Reqs, Live(r), Release(r)
  PROVE  Released(r)
<1>. DEFINE x == [req[r] EXCEPT !.waiting = FALSE]
<1>1. req[r] \in Requests
  BY DEF TypeInv, Live
<1>2. x \in Requests
  BY <1>1 DEF Requests
<1>3. x # None
  BY <1>2, NoneAssumption
<1>4. Others(r) /\ req'[r] = IF req[r].stage = "ended" THEN None ELSE x
  BY <1>2 DEF Release, Others, TypeInv
<1>. QED
  BY <1>1, <1>3, <1>4 DEF Released, Same, Requests

\* A call goes out with p, waits, or is over.
Sends(c, p) ==
  /\ call' \in [Calls -> CallStates] /\ \A d \in Calls \ {c} : call'[d] = call[d]
  /\ call'[c] = Carrying(p)
Turns(c, s) ==
  /\ call' \in [Calls -> CallStates] /\ \A d \in Calls \ {c} : call'[d] = call[d]
  /\ call'[c] = s

LEMMA CarryingType ==
  ASSUME TypeInv, NEW p \in Pairs
  PROVE  Carrying(p) \in CallStates
<1>1. now + RequestTime \in Nat
  BY DelayAssumption DEF TypeInv
<1>. QED
  BY <1>1 DEF Carrying, CallStates

LEMMA SendEffect ==
  ASSUME TypeInv, NEW c \in Calls, NEW p \in Pairs, call' = [call EXCEPT ![c] = Carrying(p)]
  PROVE  Sends(c, p)
BY CarryingType DEF Sends, TypeInv

LEMMA TurnEffect ==
  ASSUME TypeInv, NEW c \in Calls, NEW s \in {Idle, Await}, call' = [call EXCEPT ![c] = s]
  PROVE  Turns(c, s)
<1>1. s \in CallStates
  BY DEF Idle, Await, CallStates
<1>. QED
  BY <1>1 DEF Turns, TypeInv

\* What becomes of the calls of t when its refresh ends with p, or with None.
Woken(t, p) ==
  /\ call' \in [Calls -> CallStates]
  /\ \A c \in Calls : /\ ~Joined(c, t) => call'[c] = call[c]
                      /\ Joined(c, t) => \/ call'[c] = Idle
                                         \/ p # None /\ call'[c] = Carrying(p)

LEMMA WakeEffect ==
  ASSUME TypeInv, NEW t \in Tabs, NEW p \in Pairs \cup {None}, Wake(t, p)
  PROVE  Woken(t, p)
<1>1. Idle \in CallStates /\ (p # None => Carrying(p) \in CallStates)
  BY CarryingType DEF Idle, CallStates
<1>2. \A c \in Calls : call[c] \in CallStates
  BY DEF TypeInv
<1>. QED
  BY <1>1, <1>2 DEF Wake, Woken

-----------------------------------------------------------------------------
(* The steps by what they do. *)

clients == <<now, home, caller, store, promise, call>>

Still == UNCHANGED <<clients, req, keys, history>>

Ticked ==
  /\ now < MaxTime /\ now' = now + 1
  /\ \A r \in Reqs : Waiting(r) => now < req[r].due
  /\ \A c \in Calls : Sent(c) => now < call[c].due
  /\ UNCHANGED <<home, caller, store, promise, call, req, keys, history>>

LoggedIn(r, t, kind, u) ==
  /\ Posted(r, t, kind, u, None) /\ kind # "refresh"
  /\ UNCHANGED <<clients, keys, history>>

LoggedOut(t) ==
  /\ store' = [store EXCEPT ![home[t]] = None]
  /\ last' = [last EXCEPT ![home[t]] = None]
  /\ crossed \subseteq crossed' /\ (Refreshing(home[t]) => home[t] \in crossed')
  /\ UNCHANGED <<now, home, caller, promise, call, req, keys, presented>>

Went(c) ==
  LET p == store[home[caller[c]]] IN
  /\ p \in Pairs /\ StillFresh(p) /\ Sends(c, p)
  /\ UNCHANGED <<now, home, caller, store, promise, req, keys, history>>

Waits(c) ==
  /\ promise[caller[c]] # None /\ Turns(c, Await)
  /\ UNCHANGED <<now, home, caller, store, promise, req, keys, history>>

Refreshed(r, t) ==
  LET p == store[home[t]] IN
  /\ p \in Pairs /\ p # None /\ promise[t] = None
  /\ Posted(r, t, "refresh", p.sub, p) /\ promise' = [promise EXCEPT ![t] = r]
  /\ presented' = [presented EXCEPT ![p] = IF @ = 0 THEN 1 ELSE 2]
  /\ \E c \in Calls : caller[c] = t /\ Turns(c, Await)
  /\ UNCHANGED <<now, home, caller, store, keys, last, crossed>>

Ended(c) ==
  /\ Turns(c, Idle)
  /\ Sent(c)
  /\ UNCHANGED <<now, home, caller, store, promise, req, keys, history>>

\* A refresh ends for its tab, with a pair or without.
Renewed(r) ==
  LET t == req[r].tab IN
  /\ Waiting(r) /\ req[r].kind = "refresh" /\ Released(r)
  /\ promise' = [promise EXCEPT ![t] = None]
  /\ \/ req[r].answer = 200 /\ store' = [store EXCEPT ![home[t]] = req[r].pair]
        /\ Woken(t, req[r].pair)
     \/ store' \in {store, [store EXCEPT ![home[t]] = None]} /\ Woken(t, None)
  /\ UNCHANGED <<now, home, caller, keys, history>>

\* A login or a registration ends for its tab.
Entered(r) ==
  LET b == home[req[r].tab] IN
  /\ Waiting(r) /\ req[r].kind # "refresh" /\ Released(r)
  /\ \/ /\ req[r].answer = 200 /\ store' = [store EXCEPT ![b] = req[r].pair]
        /\ last' = [last EXCEPT ![b] = req[r].user]
        /\ crossed \subseteq crossed' \cup {b} /\ (Refreshing(b) => b \in crossed')
     \/ UNCHANGED <<store, last, crossed>>
  /\ UNCHANGED <<now, home, caller, promise, call, keys, presented>>

\* auth-service goes on, deletes the token, refuses, or answers with a pair.
Advanced(r) ==
  /\ \E s \in {"found", "mint"} :
       Stepped(r, s) /\ (req[r].kind = "refresh" => req[r].stage = "sent" /\ s = "found")
  /\ keys' = keys
Deleted(r) ==
  /\ req[r].kind = "refresh" /\ req[r].stage = "found" /\ Stepped(r, "mint")
  /\ keys' \in {keys, keys \ {req[r].pair}}
Refused(r) ==
  /\ keys' \in {keys, keys \cup {[sub |-> req[r].user, iat |-> now]}}
  /\ \E a \in Answers \ {200} : Replied(r, a, None)
Minted(r) ==
  LET p == [sub |-> req[r].user, iat |-> now] IN
  keys' = keys \cup {p} /\ Replied(r, 200, p)
Served(r) ==
  /\ Live(r) /\ (Advanced(r) \/ Deleted(r) \/ Refused(r) \/ Minted(r))
  /\ UNCHANGED <<clients, history>>

Effect ==
  \/ Still \/ Ticked
  \/ \E t \in Tabs : LoggedOut(t)
  \/ \E c \in Calls : Went(c) \/ Waits(c) \/ Ended(c)
  \/ \E t \in Tabs, r \in Reqs : Refreshed(r, t)
  \/ \E r \in Reqs, t \in Tabs, u \in Users, kind \in Kinds : LoggedIn(r, t, kind, u)
  \/ \E r \in Reqs : Renewed(r) \/ Entered(r) \/ Served(r)

LEMMA ServerEffect ==
  ASSUME TypeInv, NEW r \in Reqs, AuthService(r)
  PROVE  Served(r)
<1>1. Live(r) /\ UNCHANGED <<clients, history>>
  BY DEF AuthService, LookUp, Rotate, CheckPassword, CheckEmail, CreateUser, Mint, At,
         OnlyServer, clients, history
<1>2. ASSUME NEW a \in {401, 409, 500}, Reply(r, a, None),
             keys' \in {keys, keys \cup {[sub |-> req[r].user, iat |-> now]}}
      PROVE  Refused(r)
  <2>1. a \in Answers \ {200}
    BY NoneAssumption DEF Answers
  <2>. QED
    BY <1>1, <1>2, <2>1, ReplyEffect DEF Refused
<1>3. ASSUME NEW s \in {"found", "mint"}, Step(r, s) PROVE Stepped(r, s)
  BY <1>1, <1>3, StepEffect
<1>4. CASE LookUp(r)
  <2>1. keys' = keys /\ req[r].kind = "refresh" /\ req[r].stage = "sent"
    BY <1>4 DEF LookUp, At, server
  <2>2. \/ Step(r, "found") \/ Reply(r, 401, None) \/ Reply(r, 500, None)
    BY <1>4 DEF LookUp
  <2>. QED
    BY <1>1, <1>2, <1>3, <2>1, <2>2 DEF Advanced, Served
<1>5. CASE Rotate(r)
  <2>1. /\ req[r].kind = "refresh" /\ req[r].stage = "found" /\ Step(r, "mint")
        /\ keys' \in {keys, keys \ {req[r].pair}}
    BY <1>5 DEF Rotate, At
  <2>. QED
    BY <1>1, <1>3, <2>1 DEF Deleted, Served
<1>6. CASE CheckPassword(r) \/ CheckEmail(r) \/ CreateUser(r)
  <2>1. keys' = keys /\ req[r].kind # "refresh"
    BY <1>6 DEF CheckPassword, CheckEmail, CreateUser, At, server
  <2>2. \/ Step(r, "found") \/ Step(r, "mint")
        \/ Reply(r, 401, None) \/ Reply(r, 409, None) \/ Reply(r, 500, None)
    BY <1>6 DEF CheckPassword, CheckEmail, CreateUser
  <2>. QED
    BY <1>1, <1>2, <1>3, <2>1, <2>2 DEF Advanced, Served
<1>7. CASE Mint(r)
  <2>. DEFINE p == [sub |-> req[r].user, iat |-> now]
  <2>1. p \in Pairs /\ 200 \in Answers
    BY <1>1 DEF TypeInv, Live, Pairs, Requests, Answers
  <2>2. CASE keys' = keys \cup {p} /\ Reply(r, 200, p)
    BY <1>1, <2>1, <2>2, ReplyEffect DEF Minted, Served
  <2>3. CASE keys' \in {keys, keys \cup {p}} /\ Reply(r, 500, None)
    BY <1>1, <1>2, <2>3 DEF Served
  <2>. QED
    BY <1>7, <2>2, <2>3 DEF Mint
<1>. QED
  BY <1>4, <1>5, <1>6, <1>7 DEF AuthService

LEMMA NextEffect ==
  ASSUME TypeInv, [Next]_vars
  PROVE  Effect
<1>1. CASE UNCHANGED vars
  BY <1>1 DEF vars, Effect, Still, clients, history
<1>2. CASE Tick
  BY <1>2 DEF Tick, server, Effect, Ticked
<1>3. ASSUME NEW t \in Tabs, LogOut(t) PROVE Effect
  <2>1. LoggedOut(t)
    BY <1>3 DEF LogOut, server, LoggedOut
  <2>. QED
    BY <2>1 DEF Effect
<1>4. ASSUME NEW c \in Calls, GetValidToken(c) PROVE Effect
  <2>. DEFINE t == caller[c]
              p == store[home[t]]
  <2>1. p \in Pairs /\ p # None /\ t \in Tabs
    BY <1>4 DEF GetValidToken, TypeInv
  <2>2. UNCHANGED <<now, home, caller, store, keys, last, crossed>>
    BY <1>4 DEF GetValidToken, server
  <2>3. CASE /\ StillFresh(p) /\ call' = [call EXCEPT ![c] = Carrying(p)]
             /\ UNCHANGED <<promise, req, presented>>
    <3>1. Went(c)
      BY <2>1, <2>2, <2>3, SendEffect DEF Went, history
    <3>. QED
      BY <3>1 DEF Effect
  <2>4. CASE /\ promise[t] # None /\ call' = [call EXCEPT ![c] = Await]
             /\ UNCHANGED <<promise, req, presented>>
    <3>1. Waits(c)
      BY <2>2, <2>4, TurnEffect DEF Waits, history
    <3>. QED
      BY <3>1 DEF Effect
  <2>5. ASSUME NEW r \in Reqs, promise[t] = None, Post(r, t, "refresh", p.sub, p),
               promise' = [promise EXCEPT ![t] = r],
               presented' = [presented EXCEPT ![p] = IF @ = 0 THEN 1 ELSE 2],
               call' = [call EXCEPT ![c] = Await]
        PROVE  Effect
    <3>1. p.sub \in Users /\ "refresh" \in Kinds
      BY <2>1 DEF Pairs, Kinds
    <3>2. Posted(r, t, "refresh", p.sub, p)
      BY <2>1, <2>5, <3>1, PostEffect
    <3>3. Turns(c, Await)
      BY <2>5, TurnEffect
    <3>4. Refreshed(r, t)
      BY <2>1, <2>2, <2>5, <3>2, <3>3 DEF Refreshed
    <3>. QED
      BY <2>1, <3>4 DEF Effect
  <2>. QED
    BY <1>4, <2>3, <2>4, <2>5 DEF GetValidToken
<1>5. ASSUME NEW c \in Calls, CallEnds(c) PROVE Effect
  <2>1. Ended(c)
    BY <1>5, TurnEffect DEF CallEnds, server, Ended
  <2>. QED
    BY <2>1 DEF Effect
<1>6. ASSUME NEW r \in Reqs, NEW t \in Tabs, NEW u \in Users, NEW kind \in {"login", "register"},
             LogIn(r, t, kind, u)
      PROVE  Effect
  <2>1. kind \in Kinds /\ kind # "refresh"
    BY DEF Kinds
  <2>2. LoggedIn(r, t, kind, u)
    BY <1>6, <2>1, PostEffect DEF LogIn, server, LoggedIn, clients
  <2>. QED
    BY <2>1, <2>2 DEF Effect
<1>7. ASSUME NEW r \in Reqs, AuthService(r) PROVE Effect
  BY <1>7, ServerEffect DEF Effect
<1>8. ASSUME NEW r \in Reqs, Waiting(r), Release(r)
      PROVE  /\ Released(r) /\ req[r].tab \in Tabs /\ req[r].pair \in Pairs \cup {None}
             /\ req[r].kind \in Kinds
  BY <1>8, ReleaseEffect DEF Waiting, Live, TypeInv, Requests
<1>9. ASSUME NEW r \in Reqs, SettleRefresh(r) PROVE Effect
  <2>. DEFINE t == req[r].tab
  <2>1. /\ Waiting(r) /\ req[r].kind = "refresh" /\ Release(r)
        /\ promise' = [promise EXCEPT ![t] = None]
        /\ UNCHANGED <<now, home, caller, keys, history>>
        /\ store' = [store EXCEPT ![home[t]] = IF req[r].answer = 200
                                               THEN req[r].pair ELSE None]
        /\ Wake(t, IF req[r].answer = 200 THEN req[r].pair ELSE None)
    BY <1>9 DEF SettleRefresh, StoreTokens, server
  <2>2. Released(r) /\ t \in Tabs /\ req[r].pair \in Pairs \cup {None}
    BY <1>8, <2>1
  <2>3. ASSUME req[r].answer = 200 PROVE Renewed(r)
    <3>1. store' = [store EXCEPT ![home[t]] = req[r].pair] /\ Wake(t, req[r].pair)
      BY <2>1, <2>3
    <3>2. Woken(t, req[r].pair)
      BY <2>2, <3>1, WakeEffect
    <3>. QED
      BY <2>1, <2>2, <2>3, <3>1, <3>2 DEF Renewed
  <2>4. ASSUME req[r].answer # 200 PROVE Renewed(r)
    <3>1. store' = [store EXCEPT ![home[t]] = None] /\ Wake(t, None)
      BY <2>1, <2>4
    <3>2. Woken(t, None)
      BY <2>2, <3>1, WakeEffect
    <3>. QED
      BY <2>1, <2>2, <3>1, <3>2 DEF Renewed
  <2>5. Renewed(r)
    BY <2>3, <2>4
  <2>. QED
    BY <2>5 DEF Effect
<1>10. ASSUME NEW r \in Reqs, SettleLogin(r) PROVE Effect
  <2>. DEFINE b == home[req[r].tab]
  <2>1. /\ Waiting(r) /\ req[r].kind # "refresh" /\ Release(r)
        /\ UNCHANGED <<now, home, caller, promise, call, keys, presented>>
    BY <1>10 DEF SettleLogin, server
  <2>2. CASE req[r].answer = 200
    <3>1. /\ store' = [store EXCEPT ![b] = req[r].pair]
          /\ last' = [last EXCEPT ![b] = req[r].user]
          /\ crossed' = IF Refreshing(b) THEN crossed \cup {b} ELSE crossed \ {b}
      BY <1>10, <2>2 DEF SettleLogin, StoreTokens
    <3>2. Entered(r)
      BY <1>8, <2>1, <2>2, <3>1 DEF Entered
    <3>. QED
      BY <3>2 DEF Effect
  <2>3. CASE req[r].answer # 200
    <3>1. Entered(r)
      BY <1>8, <1>10, <2>1, <2>3 DEF SettleLogin, Entered
    <3>. QED
      BY <3>1 DEF Effect
  <2>. QED
    BY <2>2, <2>3
<1>11. ASSUME NEW r \in Reqs, NEW x \in BOOLEAN, CutOff(r, x) PROVE Effect
  <2>. DEFINE t == req[r].tab
  <2>1. Waiting(r) /\ Release(r) /\ UNCHANGED <<now, home, caller, keys, history>>
    BY <1>11 DEF CutOff, server
  <2>2. CASE req[r].kind = "refresh"
    <3>1. /\ promise' = [promise EXCEPT ![t] = None] /\ Wake(t, None)
          /\ store' = [store EXCEPT ![home[t]] = IF x THEN None ELSE @]
      BY <1>11, <2>2 DEF CutOff
    <3>2. home[t] \in Browsers
      BY <1>8, <2>1 DEF TypeInv
    <3>3. store' \in {store, [store EXCEPT ![home[t]] = None]}
      BY <3>1, <3>2 DEF TypeInv
    <3>4. Renewed(r)
      BY <1>8, <2>1, <2>2, <3>1, <3>3, WakeEffect DEF Renewed
    <3>. QED
      BY <3>4 DEF Effect
  <2>3. CASE req[r].kind # "refresh"
    <3>1. Entered(r)
      BY <1>8, <1>11, <2>1, <2>3 DEF CutOff, Entered, history
    <3>. QED
      BY <3>1 DEF Effect
  <2>. QED
    BY <2>2, <2>3
<1>. QED
  BY <1>1, <1>2, <1>3, <1>4, <1>5, <1>6, <1>7, <1>9, <1>10, <1>11 DEF Next, Settle

-----------------------------------------------------------------------------
(* Each part of the invariant is kept by every effect. *)

LEMMA Known ==
  ASSUME TypeInv, NEW r \in Reqs, Live(r)
  PROVE  /\ req[r] \in Requests /\ req[r].tab \in Tabs /\ req[r].user \in Users
         /\ req[r].due \in Nat /\ home[req[r].tab] \in Browsers
         /\ req[r].pair \in Pairs \cup {None} /\ req[r].waiting \in BOOLEAN
BY DEF TypeInv, Live, Requests

LEMMA TypeStep == IInv /\ Effect => TypeInv'
<1> SUFFICES ASSUME IInv, Effect PROVE TypeInv'
  OBVIOUS
<1>0. TypeInv
  BY DEF IInv
<1>1. CASE Still
  BY <1>0, <1>1 DEF TypeInv, Still, clients, history
<1>2. CASE Ticked
  BY <1>0, <1>2, DelayAssumption DEF TypeInv, Ticked, history
<1>3. ASSUME NEW t \in Tabs, LoggedOut(t) PROVE TypeInv'
  BY <1>0, <1>3 DEF TypeInv, LoggedOut
<1>4. ASSUME NEW c \in Calls, Went(c) \/ Waits(c) \/ Ended(c) PROVE TypeInv'
  BY <1>0, <1>4 DEF TypeInv, Went, Waits, Ended, Sends, Turns, history
<1>5. ASSUME NEW t \in Tabs, NEW r \in Reqs, Refreshed(r, t) PROVE TypeInv'
  BY <1>0, <1>5 DEF TypeInv, Refreshed, Posted, Others, Turns
<1>6. ASSUME NEW r \in Reqs, NEW t \in Tabs, NEW u \in Users, NEW kind \in Kinds,
             LoggedIn(r, t, kind, u)
      PROVE  TypeInv'
  BY <1>0, <1>6 DEF TypeInv, LoggedIn, Posted, Others, clients, history
<1>7. ASSUME NEW r \in Reqs, Renewed(r) PROVE TypeInv'
  <2>1. req[r].tab \in Tabs /\ req[r].pair \in Pairs \cup {None}
    BY <1>0, <1>7, Known DEF Renewed, Waiting
  <2>2. call' \in [Calls -> CallStates]
    BY <1>7 DEF Renewed, Woken
  <2>. QED
    BY <1>0, <1>7, <2>1, <2>2 DEF TypeInv, Renewed, Released, Others, history
<1>8. ASSUME NEW r \in Reqs, Entered(r) PROVE TypeInv'
  <2>1. /\ req[r].tab \in Tabs /\ req[r].pair \in Pairs \cup {None}
        /\ req[r].user \in Users
    BY <1>0, <1>8, Known DEF Entered, Waiting
  <2>. QED
    BY <1>0, <1>8, <2>1 DEF TypeInv, Entered, Released, Others
<1>9. ASSUME NEW r \in Reqs, Served(r) PROVE TypeInv'
  <2>1. req' \in [Reqs -> Requests \cup {None}]
    BY <1>9 DEF Served, Advanced, Deleted, Refused, Minted, Stepped, Replied, Others
  <2>2. [sub |-> req[r].user, iat |-> now] \in Pairs
    BY <1>0, <1>9, Known DEF Served, Pairs, TypeInv
  <2>3. keys' \subseteq Pairs
    BY <1>0, <1>9, <2>2 DEF Served, Advanced, Deleted, Refused, Minted, TypeInv
  <2>. QED
    BY <1>0, <1>9, <2>1, <2>3 DEF TypeInv, Served, clients, history
<1>. QED
  BY <1>1, <1>2, <1>3, <1>4, <1>5, <1>6, <1>7, <1>8, <1>9 DEF Effect

LEMMA TimelyStep == IInv /\ Effect => \A q \in Reqs : Live(q)' => Timely(q)'
<1> SUFFICES ASSUME IInv, Effect, NEW q \in Reqs, Live(q)' PROVE Timely(q)'
  OBVIOUS
<1>0. TypeInv /\ now \in Nat /\ RequestTime \in Nat /\ (Live(q) => Timely(q))
  BY DelayAssumption DEF IInv, TypeInv, TimeInv
<1>1. ASSUME now' = now, req'[q] = req[q] PROVE Timely(q)'
  BY <1>0, <1>1 DEF Live, Timely
<1>2. CASE Still
  BY <1>1, <1>2 DEF Still, clients
<1>3. CASE Ticked
  <2>1. Live(q) /\ req' = req /\ now' = now + 1 /\ (req[q].waiting => now < req[q].due)
    BY <1>3 DEF Ticked, Live, Waiting
  <2>2. req[q].due \in Nat
    BY <1>0, <2>1, Known
  <2>. QED
    BY <1>0, <2>1, <2>2 DEF Timely
<1>4. ASSUME \/ \E t \in Tabs : LoggedOut(t)
             \/ \E c \in Calls : Went(c) \/ Waits(c) \/ Ended(c)
      PROVE  Timely(q)'
  BY <1>1, <1>4 DEF LoggedOut, Went, Waits, Ended
<1>5. ASSUME NEW r \in Reqs, NEW t, NEW u, NEW kind, NEW p, Posted(r, t, kind, u, p), now' = now
      PROVE  Timely(q)'
  <2>1. CASE q = r
    <3>1. /\ req'[q].due = now + RequestTime /\ req'[q].answer # 200
      BY <1>5, <2>1, NoneAssumption DEF Posted
    <3>. QED
      BY <1>0, <1>5, <3>1 DEF Timely
  <2>2. CASE q # r
    BY <1>1, <1>5, <2>2 DEF Posted, Others
  <2>. QED
    BY <2>1, <2>2
<1>6. ASSUME NEW t \in Tabs, NEW r \in Reqs, Refreshed(r, t) PROVE Timely(q)'
  BY <1>5, <1>6 DEF Refreshed
<1>7. ASSUME NEW r \in Reqs, NEW t \in Tabs, NEW u \in Users, NEW kind \in Kinds,
             LoggedIn(r, t, kind, u)
      PROVE  Timely(q)'
  BY <1>5, <1>7 DEF LoggedIn, clients
<1>8. ASSUME NEW r \in Reqs, Live(r), Released(r), now' = now PROVE Timely(q)'
  <2>1. CASE q = r
    BY <1>0, <1>8, <2>1 DEF Released, Same, Timely, Live
  <2>2. CASE q # r
    BY <1>1, <1>8, <2>2 DEF Released, Others
  <2>. QED
    BY <2>1, <2>2
<1>9. ASSUME NEW r \in Reqs, Renewed(r) \/ Entered(r) PROVE Timely(q)'
  BY <1>8, <1>9 DEF Renewed, Entered, Waiting
<1>10. ASSUME NEW r \in Reqs, Served(r) PROVE Timely(q)'
  <2>1. Live(r) /\ now' = now
    BY <1>10 DEF Served, clients
  <2>2. CASE q # r
    BY <1>1, <1>10, <2>1, <2>2
       DEF Served, Advanced, Deleted, Refused, Minted, Stepped, Replied, Others
  <2>3. CASE q = r
    <3>1. CASE Advanced(r) \/ Deleted(r)
      BY <1>0, <2>1, <2>3, <3>1 DEF Advanced, Deleted, Stepped, Same, Timely
    <3>2. CASE Refused(r)
      BY <1>0, <2>1, <2>3, <3>2 DEF Refused, Replied, Same, Timely, Live
    <3>3. CASE Minted(r)
      <4>. DEFINE p == [sub |-> req[r].user, iat |-> now]
      <4>1. p \in Pairs /\ p.iat = now
        BY <1>0, <2>1, Known DEF Pairs, TypeInv
      <4>2. /\ req[r].waiting /\ req'[r].waiting /\ req'[r].pair = p
            /\ req'[r].due = req[r].due
        BY <2>3, <3>3 DEF Minted, Replied, Same, Live
      <4>. QED
        BY <1>0, <2>1, <2>3, <4>1, <4>2 DEF Timely
    <3>. QED
      BY <1>10, <3>1, <3>2, <3>3 DEF Served
  <2>. QED
    BY <2>2, <2>3
<1>. QED
  BY <1>2, <1>3, <1>4, <1>6, <1>7, <1>9, <1>10 DEF Effect

LEMMA OutlastsStep == IInv /\ Effect => \A c \in Calls : Sent(c)' => Outlasts(c)'
<1> SUFFICES ASSUME IInv, Effect, NEW u \in Calls, Sent(u)' PROVE Outlasts(u)'
  OBVIOUS
<1>0. TypeInv /\ now \in Nat /\ (Sent(u) => Outlasts(u))
  BY DEF IInv, TypeInv, TimeInv
<1>1. ASSUME now' = now, call'[u] = call[u] PROVE Outlasts(u)'
  BY <1>0, <1>1 DEF Sent, Outlasts
<1>2. call'[u] \notin {Idle, Await}
  BY DEF Sent, Idle, Await
<1>3. ASSUME NEW p \in Pairs, now + RequestTime < p.iat + AccessTTL,
             call'[u] = Carrying(p), now' = now
      PROVE  Outlasts(u)'
  <2>1. call'[u].pair = p /\ call'[u].due = now + RequestTime
    BY <1>3 DEF Carrying
  <2>. QED
    BY <1>0, <1>3, <2>1, DelayAssumption DEF Outlasts
<1>4. CASE Still
  BY <1>1, <1>4 DEF Still, clients
<1>5. CASE Ticked
  <2>1. call' = call /\ now' = now + 1 /\ Sent(u) /\ now < call[u].due
    BY <1>5 DEF Ticked, Sent
  <2>2. call[u].due \in Nat
    BY <1>0 DEF TypeInv, CallStates
  <2>. QED
    BY <1>0, <2>1, <2>2 DEF Outlasts
<1>6. ASSUME \/ \E t \in Tabs : LoggedOut(t)
             \/ \E c \in Calls : Waits(c) \/ Ended(c)
      PROVE  Outlasts(u)'
  BY <1>1, <1>2, <1>6 DEF LoggedOut, Waits, Ended, Turns
<1>7. ASSUME NEW c \in Calls, Went(c) PROVE Outlasts(u)'
  <2>. DEFINE p == store[home[caller[c]]]
  <2>1. p \in Pairs /\ p.iat \in Nat /\ now + Buffer < p.iat + AccessTTL
    BY <1>7 DEF Went, StillFresh, Pairs
  <2>2. now + RequestTime < p.iat + AccessTTL
    BY <1>0, <2>1, DelayAssumption
  <2>3. now' = now /\ (call'[u] = call[u] \/ call'[u] = Carrying(p))
    BY <1>7 DEF Went, Sends
  <2>. QED
    BY <1>1, <1>3, <2>1, <2>2, <2>3
<1>8. ASSUME NEW t \in Tabs, NEW r \in Reqs, Refreshed(r, t) PROVE Outlasts(u)'
  BY <1>1, <1>2, <1>8 DEF Refreshed, Turns
<1>9. ASSUME NEW r \in Reqs, Renewed(r) PROVE Outlasts(u)'
  <2>. DEFINE t == req[r].tab
              p == req[r].pair
  <2>1. t \in Tabs /\ Live(r) /\ req[r].waiting /\ now' = now /\ req[r].due \in Nat
    BY <1>0, <1>9, Known DEF Renewed, Waiting
  <2>2. CASE Woken(t, None)
    BY <1>1, <1>2, <2>1, <2>2 DEF Woken
  <2>3. CASE req[r].answer = 200 /\ Woken(t, p)
    <3>1. p \in Pairs /\ req[r].due <= p.iat + RequestTime /\ now <= req[r].due
      BY <2>1, <2>3 DEF IInv, TimeInv, Timely
    <3>2. p.iat \in Nat
      BY <3>1 DEF Pairs
    <3>3. now + RequestTime < p.iat + AccessTTL
      BY <1>0, <2>1, <3>1, <3>2, DelayAssumption
    <3>4. call'[u] = call[u] \/ call'[u] = Carrying(p)
      BY <1>2, <2>3 DEF Woken
    <3>. QED
      BY <1>1, <1>3, <2>1, <3>1, <3>3, <3>4
  <2>. QED
    BY <1>9, <2>2, <2>3 DEF Renewed
<1>10. ASSUME NEW r \in Reqs, Entered(r) \/ Served(r) PROVE Outlasts(u)'
  BY <1>1, <1>10 DEF Entered, Served, clients
<1>11. ASSUME NEW r \in Reqs, NEW t \in Tabs, NEW x \in Users, NEW kind \in Kinds,
              LoggedIn(r, t, kind, x)
       PROVE  Outlasts(u)'
  BY <1>1, <1>11 DEF LoggedIn, clients
<1>. QED
  BY <1>4, <1>5, <1>6, <1>7, <1>8, <1>9, <1>10, <1>11 DEF Effect

\* A refresh that its tab still waits for.
Asks(r) == Waiting(r) /\ req[r].kind = "refresh"

\* The step leaves the refreshes that are waited for as they are.
Steady == \A q \in Reqs : /\ Asks(q)' <=> Asks(q)
                          /\ Asks(q) => req'[q].tab = req[q].tab /\ req'[q].user = req[q].user

LEMMA SteadySteps ==
  ASSUME IInv
  PROVE  /\ Still \/ Ticked => Steady
         /\ \A t \in Tabs : LoggedOut(t) => Steady
         /\ \A c \in Calls : Went(c) \/ Waits(c) \/ Ended(c) => Steady
         /\ \A r \in Reqs, t \in Tabs, u \in Users, kind \in Kinds :
              LoggedIn(r, t, kind, u) => Steady
         /\ \A r \in Reqs : Entered(r) \/ Served(r) => Steady
<1>0. TypeInv
  BY DEF IInv
<1>1. ASSUME req' = req PROVE Steady
  BY <1>1 DEF Steady, Asks, Waiting, Live
<1>2. ASSUME NEW r \in Reqs, Others(r), ~Asks(r), ~Asks(r)' PROVE Steady
  <2>1. \A q \in Reqs \ {r} : Asks(q)' <=> Asks(q)
    BY <1>2 DEF Others, Asks, Waiting, Live
  <2>. QED
    BY <1>2, <2>1 DEF Others, Steady
<1>3. ASSUME NEW r \in Reqs, NEW t \in Tabs, NEW u \in Users, NEW kind \in Kinds,
             LoggedIn(r, t, kind, u)
      PROVE  Steady
  BY <1>2, <1>3 DEF LoggedIn, Posted, Asks, Waiting, Live
<1>4. ASSUME NEW r \in Reqs, Entered(r) PROVE Steady
  <2>1. Others(r) /\ ~Asks(r) /\ ~Asks(r)'
    BY <1>4 DEF Entered, Released, Same, Asks, Waiting, Live
  <2>. QED
    BY <1>2, <2>1
<1>5. ASSUME NEW r \in Reqs, Served(r) PROVE Steady
  <2>1. /\ Others(r) /\ Live(r)
        /\ \/ Same(r) /\ req'[r].waiting = req[r].waiting
           \/ ~req[r].waiting /\ req'[r] = None
           \/ Same(r) /\ req[r].waiting /\ req'[r].waiting
    BY <1>5 DEF Served, Advanced, Deleted, Refused, Minted, Stepped, Replied
  <2>2. CASE ~Asks(r) /\ ~Asks(r)'
    BY <1>2, <2>1, <2>2
  <2>3. CASE ~(~Asks(r) /\ ~Asks(r)')
    <3>1. Same(r) /\ Asks(r) /\ Asks(r)'
      BY <2>1, <2>3 DEF Same, Asks, Waiting, Live
    <3>2. \A q \in Reqs \ {r} : Asks(q)' <=> Asks(q)
      BY <2>1 DEF Others, Asks, Waiting, Live
    <3>. QED
      BY <2>1, <3>1, <3>2 DEF Others, Same, Steady
  <2>. QED
    BY <2>2, <2>3
<1>. QED
  BY <1>1, <1>3, <1>4, <1>5 DEF Still, Ticked, LoggedOut, Went, Waits, Ended

LEMMA PromiseStep == IInv /\ Effect => PromiseInv'
<1> SUFFICES ASSUME IInv, Effect PROVE PromiseInv'
  OBVIOUS
<1>0. TypeInv
  BY DEF IInv
<1>1. /\ \A t \in Tabs : promise[t] # None => Asks(promise[t]) /\ req[promise[t]].tab = t
      /\ \A r \in Reqs : Asks(r) => promise[req[r].tab] = r
      /\ \A c \in Calls : call[c] = Await => promise[caller[c]] # None
  BY DEF IInv, PromiseInv, Asks
<1>2. \A t \in Tabs : promise[t] # None => promise[t] \in Reqs
  BY <1>0 DEF TypeInv
<1>3. Idle # Await /\ (\A p : Carrying(p) # Await) /\ \A c \in Calls : caller[c] \in Tabs
  BY <1>0 DEF Await, Idle, Carrying, TypeInv
<1>4. ASSUME /\ \A t \in Tabs : promise'[t] # None => Asks(promise[t])' /\ req'[promise'[t]].tab = t
             /\ \A r \in Reqs : Asks(r)' => promise'[req'[r].tab] = r
             /\ \A c \in Calls : call'[c] = Await => promise'[caller'[c]] # None
      PROVE  PromiseInv'
  BY <1>4 DEF PromiseInv, Asks
<1>5. ASSUME Steady, promise' = promise, caller' = caller,
             \A c \in Calls : call'[c] = Await => call[c] = Await \/ promise[caller[c]] # None
      PROVE  PromiseInv'
  <2>1. \A t \in Tabs : promise[t] # None => Asks(promise[t])' /\ req'[promise[t]].tab = t
    BY <1>1, <1>2, <1>5 DEF Steady, Asks, Waiting, Live
  <2>2. \A r \in Reqs : Asks(r)' => promise'[req'[r].tab] = r
    BY <1>1, <1>5 DEF Steady
  <2>. QED
    BY <1>1, <1>4, <1>5, <2>1, <2>2
<1>6. CASE Still \/ Ticked
  BY <1>5, <1>6, SteadySteps DEF Still, Ticked, clients
<1>7. ASSUME \/ \E t \in Tabs : LoggedOut(t)
             \/ \E c \in Calls : Went(c) \/ Waits(c) \/ Ended(c)
      PROVE  PromiseInv'
  <2>1. Steady /\ promise' = promise /\ caller' = caller
    BY <1>7, SteadySteps DEF LoggedOut, Went, Waits, Ended
  <2>2. \A c \in Calls : call'[c] = Await => call[c] = Await \/ promise[caller[c]] # None
    BY <1>3, <1>7 DEF LoggedOut, Went, Waits, Ended, Turns, Sends
  <2>. QED
    BY <1>5, <2>1, <2>2
<1>8. ASSUME NEW r \in Reqs, NEW t \in Tabs, NEW u \in Users, NEW kind \in Kinds,
             LoggedIn(r, t, kind, u)
      PROVE  PromiseInv'
  BY <1>5, <1>8, SteadySteps DEF LoggedIn, clients
<1>9. ASSUME NEW r \in Reqs, Entered(r) \/ Served(r) PROVE PromiseInv'
  BY <1>5, <1>9, SteadySteps DEF Entered, Served, clients
<1>10. ASSUME NEW t \in Tabs, NEW r \in Reqs, Refreshed(r, t) PROVE PromiseInv'
  <2>1. /\ Others(r) /\ ~Asks(r) /\ Asks(r)' /\ req'[r].tab = t /\ promise[t] = None
        /\ promise' = [promise EXCEPT ![t] = r] /\ r # None
    BY <1>10, NoneAssumption DEF Refreshed, Posted, Asks, Waiting, Live
  <2>2. promise'[t] = r /\ \A u \in Tabs \ {t} : promise'[u] = promise[u]
    BY <1>0, <2>1 DEF TypeInv
  <2>4. ASSUME NEW u \in Tabs, promise'[u] # None
        PROVE  Asks(promise[u])' /\ req'[promise'[u]].tab = u
    <3>1. CASE u = t
      BY <2>1, <2>2, <3>1 DEF Asks, Waiting, Live
    <3>2. CASE u # t
      <4>1. promise[u] \in Reqs \ {r} /\ promise'[u] = promise[u]
        BY <1>1, <1>2, <2>1, <2>2, <2>4, <3>2
      <4>. QED
        BY <1>1, <2>1, <2>4, <4>1 DEF Others, Asks, Waiting, Live
    <3>. QED
      BY <3>1, <3>2
  <2>5. ASSUME NEW q \in Reqs, Asks(q)' PROVE promise'[req'[q].tab] = q
    <3>1. CASE q = r
      BY <2>1, <2>2, <3>1
    <3>2. CASE q # r
      <4>1. Asks(q) /\ req'[q].tab = req[q].tab /\ req[q].tab \in Tabs /\ q # None
        BY <1>0, <2>1, <2>5, <3>2, Known, NoneAssumption DEF Others, Asks, Waiting, Live
      <4>2. promise[req[q].tab] = q
        BY <1>1, <4>1
      <4>. QED
        BY <2>1, <2>2, <4>1, <4>2
    <3>. QED
      BY <3>1, <3>2
  <2>6. \A c \in Calls : call'[c] = Await => promise'[caller'[c]] # None
    <3>1. caller' = caller
          /\ \A c \in Calls : call'[c] = Await => call[c] = Await \/ caller[c] = t
      BY <1>10 DEF Refreshed, Turns
    <3>. QED
      BY <1>1, <1>3, <2>1, <2>2, <3>1
  <2>. QED
    BY <1>4, <2>4, <2>5, <2>6
<1>11. ASSUME NEW r \in Reqs, Renewed(r) PROVE PromiseInv'
  <2>. DEFINE t == req[r].tab
  <2>1. /\ Others(r) /\ Asks(r) /\ ~Asks(r)' /\ promise' = [promise EXCEPT ![t] = None]
        /\ t \in Tabs
    BY <1>0, <1>11, Known DEF Renewed, Released, Asks, Waiting, Live
  <2>2. promise[t] = r /\ promise'[t] = None /\ \A u \in Tabs \ {t} : promise'[u] = promise[u]
    BY <1>0, <1>1, <2>1 DEF TypeInv
  <2>4. ASSUME NEW u \in Tabs, promise'[u] # None
        PROVE  Asks(promise[u])' /\ req'[promise'[u]].tab = u
    <3>1. promise[u] \in Reqs \ {r} /\ promise'[u] = promise[u]
      BY <1>1, <1>2, <2>2, <2>4
    <3>. QED
      BY <1>1, <2>1, <2>4, <3>1 DEF Others, Asks, Waiting, Live
  <2>5. ASSUME NEW q \in Reqs, Asks(q)' PROVE promise'[req'[q].tab] = q
    <3>1. q # r /\ Asks(q) /\ req'[q].tab = req[q].tab /\ req[q].tab \in Tabs
      BY <1>0, <2>1, <2>5, Known DEF Others, Asks, Waiting, Live
    <3>. QED
      BY <1>1, <2>2, <3>1
  <2>6. \A c \in Calls : call'[c] = Await => promise'[caller'[c]] # None
    <3>1. caller' = caller
          /\ \A c \in Calls : call'[c] = Await => call[c] = Await /\ caller[c] # t
      BY <1>3, <1>11 DEF Renewed, Woken, Joined
    <3>. QED
      BY <1>1, <1>3, <2>2, <3>1
  <2>. QED
    BY <1>4, <2>4, <2>5, <2>6
<1>. QED
  BY <1>6, <1>7, <1>8, <1>9, <1>10, <1>11 DEF Effect

\* The clock and the count of presentations only grow, and a key that leaves
\* Redis is one that a request at its look-up or deletion presents.
Grown ==
  /\ now \in Nat /\ now' \in Nat /\ now <= now'
  /\ \A p \in Pairs : presented[p] \in 0..2 /\ presented'[p] \in 0..2
                      /\ presented[p] <= presented'[p]
Lost(p) == \E r \in Reqs : Presents(r) /\ ~Presents(r)' /\ req[r].pair = p

LEMMA Growth ==
  ASSUME IInv, Effect
  PROVE  Grown /\ \A p \in keys : p \in keys' \/ Lost(p)
<1>0. TypeInv /\ TypeInv'
  BY TypeStep DEF IInv
<1>1. now \in Nat /\ now' \in Nat
      /\ \A p \in Pairs : presented[p] \in 0..2 /\ presented'[p] \in 0..2
  BY <1>0, DelayAssumption DEF TypeInv
<1>2. now' = now \/ now' = now + 1
  BY DEF Effect, Still, Ticked, LoggedOut, Went, Waits, Ended, Refreshed, LoggedIn, Renewed,
         Entered, Served, clients
<1>3. \A p \in Pairs : presented[p] <= presented'[p]
  <2>1. CASE presented' = presented
    BY <1>1, <2>1
  <2>2. ASSUME NEW t \in Tabs, NEW r \in Reqs, Refreshed(r, t)
        PROVE  \A p \in Pairs : presented[p] <= presented'[p]
    BY <1>0, <1>1, <2>2 DEF Refreshed, TypeInv
  <2>. QED
    BY <2>1, <2>2 DEF Effect, Still, Ticked, LoggedOut, Went, Waits, Ended, LoggedIn, Renewed,
         Entered, Served, history
<1>4. \A p \in keys : p \in keys' \/ Lost(p)
  <2>1. CASE keys \subseteq keys'
    BY <2>1
  <2>2. ASSUME NEW r \in Reqs, Live(r), Deleted(r)
        PROVE  \A p \in keys : p \in keys' \/ Lost(p)
    <3>1. Presents(r) /\ ~Presents(r)' /\ keys \subseteq keys' \cup {req[r].pair}
      BY <2>2 DEF Deleted, Stepped, Same, Presents, Live
    <3>. QED
      BY <3>1 DEF Lost
  <2>. QED
    BY <2>1, <2>2 DEF Effect, Still, Ticked, LoggedOut, Went, Waits, Ended, Refreshed, LoggedIn,
         Renewed, Entered, Served, Advanced, Refused, Minted
<1>. QED
  BY <1>1, <1>2, <1>3, <1>4 DEF Grown

LEMMA ExpiryGrows ==
  ASSUME Grown, NEW p \in Pairs, RefreshExpired(p)
  PROVE  RefreshExpired(p)'
<1>1. p.iat \in Nat /\ RefreshTTL \in Nat
  BY DelayAssumption DEF Pairs
<1>. QED
  BY <1>1 DEF Grown, RefreshExpired

LEMMA GoodStep ==
  ASSUME IInv, Effect, NEW p \in Pairs, Good(p)
  PROVE  Good(p)'
<1>0. Grown /\ (p \in keys => p \in keys' \/ Lost(p))
  BY Growth
<1>1. CASE RefreshExpired(p)
  BY <1>0, <1>1, ExpiryGrows DEF Good
<1>2. ASSUME presented[p] > 0 PROVE Good(p)'
  BY <1>0, <1>2 DEF Grown, Good
<1>3. ASSUME Lost(p) PROVE Good(p)'
  BY <1>2, <1>3 DEF Lost, IInv, TokenInv
<1>. QED
  BY <1>0, <1>1, <1>2, <1>3 DEF Good

\* Where an answer with a pair, and a request that presents a pair, come from.
LEMMA AnswerStep ==
  ASSUME IInv, Effect, NEW q \in Reqs, Live(q)', req'[q].answer = 200
  PROVE  \/ Live(q) /\ req[q].answer = 200 /\ req'[q].pair = req[q].pair
            /\ req'[q].user = req[q].user
         \/ /\ Live(q) /\ req'[q].pair = [sub |-> req[q].user, iat |-> now]
            /\ req'[q].user = req[q].user /\ req'[q].pair \in keys'
<1>. DEFINE G == \/ Live(q) /\ req[q].answer = 200 /\ req'[q].pair = req[q].pair
                    /\ req'[q].user = req[q].user
                 \/ /\ Live(q) /\ req'[q].pair = [sub |-> req[q].user, iat |-> now]
                    /\ req'[q].user = req[q].user /\ req'[q].pair \in keys'
<1> SUFFICES G
  OBVIOUS
<1>1. ASSUME req'[q] = req[q] PROVE G
  BY <1>1 DEF Live
<1>2. ASSUME NEW r \in Reqs, NEW t, NEW u, NEW kind, NEW p, Posted(r, t, kind, u, p) PROVE G
  BY <1>1, <1>2, NoneAssumption DEF Posted, Others
<1>3. ASSUME NEW r \in Reqs, Live(r), Released(r) PROVE G
  BY <1>1, <1>3 DEF Released, Others, Same, Live
<1>4. ASSUME NEW r \in Reqs, Served(r) PROVE G
  <2>1. CASE q # r
    BY <1>1, <1>4, <2>1
       DEF Served, Advanced, Deleted, Refused, Minted, Stepped, Replied, Others
  <2>2. CASE q = r /\ (Advanced(r) \/ Deleted(r))
    BY <1>4, <2>2 DEF Served, Advanced, Deleted, Stepped, Same
  <2>3. CASE q = r /\ Refused(r)
    BY <1>4, <2>3 DEF Served, Refused, Replied, Live
  <2>4. CASE q = r /\ Minted(r)
    BY <1>4, <2>4 DEF Served, Minted, Replied, Same, Live
  <2>. QED
    BY <1>4, <2>1, <2>2, <2>3, <2>4 DEF Served
<1>5. CASE req' = req
  BY <1>1, <1>5
<1>. QED
  BY <1>2, <1>3, <1>4, <1>5 DEF Effect, Still, Ticked, LoggedOut, Went, Waits, Ended, Refreshed,
     LoggedIn, Renewed, Entered, Waiting

LEMMA PresentsStep ==
  ASSUME IInv, Effect, NEW q \in Reqs, Presents(q)'
  PROVE  \/ /\ Presents(q) /\ req'[q].pair = req[q].pair
            /\ At(q, "refresh", "sent")' => At(q, "refresh", "sent")
         \/ \E t \in Tabs : Refreshed(q, t)
<1>. DEFINE G == /\ Presents(q) /\ req'[q].pair = req[q].pair
                 /\ At(q, "refresh", "sent")' => At(q, "refresh", "sent")
<1>1. ASSUME req'[q] = req[q] PROVE G
  BY <1>1 DEF Live, At, Presents
<1>2. ASSUME NEW t \in Tabs, NEW r \in Reqs, Refreshed(r, t), r # q PROVE G
  BY <1>1, <1>2 DEF Refreshed, Posted, Others
<1>3. ASSUME NEW r \in Reqs, NEW t \in Tabs, NEW u \in Users, NEW kind \in Kinds,
             LoggedIn(r, t, kind, u)
      PROVE  G
  BY <1>1, <1>3 DEF LoggedIn, Posted, Others, Presents
<1>4. ASSUME NEW r \in Reqs, Live(r), Released(r) PROVE G
  BY <1>1, <1>4 DEF Released, Others, Same, Live, Presents, At
<1>5. ASSUME NEW r \in Reqs, Served(r) PROVE G
  <2>1. CASE q # r
    BY <1>1, <1>5, <2>1
       DEF Served, Advanced, Deleted, Refused, Minted, Stepped, Replied, Others
  <2>2. CASE q = r /\ Advanced(r)
    BY <1>5, <2>2 DEF Served, Advanced, Stepped, Same, Presents, At, Live
  <2>3. CASE q = r /\ (Deleted(r) \/ Refused(r) \/ Minted(r))
    BY <2>3 DEF Deleted, Refused, Minted, Stepped, Replied, Presents, Live
  <2>. QED
    BY <1>5, <2>1, <2>2, <2>3 DEF Served
<1>6. CASE req' = req
  BY <1>1, <1>6
<1>. QED
  BY <1>2, <1>3, <1>4, <1>5, <1>6 DEF Effect, Still, Ticked, LoggedOut, Went, Waits, Ended,
     Renewed, Entered, Waiting

LEMMA StoreStep ==
  ASSUME IInv, Effect, NEW b \in Browsers, store'[b] # None
  PROVE  \/ store'[b] = store[b]
         \/ \E r \in Reqs : Live(r) /\ req[r].answer = 200 /\ store'[b] = req[r].pair
<1>0. TypeInv
  BY DEF IInv
<1>1. ASSUME NEW t \in Tabs, LoggedOut(t) PROVE store'[b] = store[b]
  BY <1>0, <1>1 DEF LoggedOut, TypeInv
<1>2. ASSUME NEW r \in Reqs, Renewed(r) \/ Entered(r), store'[b] # store[b]
      PROVE  Live(r) /\ req[r].answer = 200 /\ store'[b] = req[r].pair
  BY <1>0, <1>2 DEF Renewed, Entered, Waiting, TypeInv
<1>3. CASE store' = store
  BY <1>3
<1>. QED
  BY <1>1, <1>2, <1>3 DEF Effect, Still, Ticked, Went, Waits, Ended, Refreshed, LoggedIn, Served,
     clients

LEMMA TokenStep == IInv /\ Effect => TokenInv'
<1> SUFFICES ASSUME IInv, Effect PROVE TokenInv'
  OBVIOUS
<1>0. TypeInv /\ TokenInv /\ TypeInv' /\ Grown
  BY TypeStep, Growth DEF IInv
<1>1. \A r \in Reqs : Live(r) /\ req[r].answer = 200 => req[r].pair \in Pairs /\ Good(req[r].pair)
  BY <1>0 DEF IInv, TimeInv, Timely, TokenInv
<1>2. ASSUME NEW b \in Browsers, store'[b] # None PROVE Good(store[b])'
  <2>1. store'[b] \in Pairs /\ Good(store'[b])
    BY <1>0, <1>1, <1>2, StoreStep DEF TypeInv, TokenInv
  <2>2. PICK p \in Pairs : p = store'[b]
    BY <2>1
  <2>3. Good(p)'
    BY <2>1, <2>2, GoodStep
  <2>. QED
    BY <2>2, <2>3 DEF Good, RefreshExpired
<1>3. ASSUME NEW q \in Reqs, Live(q)', req'[q].answer = 200 PROVE Good(req[q].pair)'
  <2>1. CASE Live(q) /\ req[q].answer = 200 /\ req'[q].pair = req[q].pair
    <3>1. PICK p \in Pairs : p = req[q].pair /\ Good(p)
      BY <1>1, <2>1
    <3>2. Good(p)'
      BY <3>1, GoodStep
    <3>. QED
      BY <2>1, <3>1, <3>2 DEF Good, RefreshExpired
  <2>2. CASE req'[q].pair \in keys'
    BY <2>2 DEF Good
  <2>. QED
    BY <1>3, <2>1, <2>2, AnswerStep
<1>4. ASSUME NEW q \in Reqs, NEW t \in Tabs, Refreshed(q, t)
      PROVE  /\ req'[q].pair = store[home[t]] /\ req'[q].pair \in Pairs
             /\ presented'[req'[q].pair] = (IF presented[req'[q].pair] = 0 THEN 1 ELSE 2)
             /\ Good(store[home[t]]) /\ ~Presents(q) /\ keys' = keys
             /\ \A r \in Reqs \ {q} : req'[r] = req[r]
  <2>1. home[t] \in Browsers
    BY <1>0 DEF TypeInv
  <2>. QED
    BY <1>0, <1>4, <2>1 DEF Refreshed, Posted, Others, TypeInv, TokenInv, Presents, Live
<1>5. ASSUME NEW q \in Reqs, Presents(q)'
      PROVE  req'[q].pair \in Pairs /\ presented'[req'[q].pair] > 0
  <2>1. CASE Presents(q) /\ req'[q].pair = req[q].pair
    BY <1>0, <2>1 DEF TokenInv, Grown
  <2>2. ASSUME NEW t \in Tabs, Refreshed(q, t)
        PROVE  req'[q].pair \in Pairs /\ presented'[req'[q].pair] > 0
    BY <1>4, <2>2
  <2>. QED
    BY <1>5, <2>1, <2>2, PresentsStep
<1>6. ASSUME NEW q \in Reqs, NEW r \in Reqs, q # r, Presents(q)', Presents(r)',
             req'[q].pair = req'[r].pair
      PROVE  presented'[req'[r].pair] > 1
  <2>1. CASE Presents(q) /\ req'[q].pair = req[q].pair /\ Presents(r) /\ req'[r].pair = req[r].pair
    <3>1. req[r].pair \in Pairs /\ presented[req[r].pair] > 1
      BY <1>0, <1>6, <2>1 DEF TokenInv
    <3>. QED
      BY <1>0, <2>1, <3>1 DEF Grown
  <2>2. ASSUME NEW x \in Reqs, NEW y \in Reqs, x # y, NEW t \in Tabs, Refreshed(x, t),
               Presents(y)', req'[x].pair = req'[y].pair
        PROVE  presented'[req'[x].pair] > 1
    <3>1. Presents(y) /\ req'[y].pair = req[y].pair
      BY <1>4, <2>2 DEF Presents, Live
    <3>2. req[y].pair \in Pairs /\ presented[req[y].pair] > 0
      BY <1>0, <3>1 DEF TokenInv
    <3>. QED
      BY <1>0, <1>4, <2>2, <3>1, <3>2 DEF Grown
  <2>. QED
    BY <1>6, <2>1, <2>2, PresentsStep
<1>7. ASSUME NEW q \in Reqs, At(q, "refresh", "sent")'
      PROVE  \/ req'[q].pair \in keys' \/ RefreshExpired(req[q].pair)'
             \/ presented'[req'[q].pair] > 1
  <2>0. Presents(q)' /\ req'[q].pair \in Pairs
    BY <1>5, <1>7 DEF Presents, At, Live
  <2>1. ASSUME Presents(q), req'[q].pair = req[q].pair, At(q, "refresh", "sent")
        PROVE  \/ req'[q].pair \in keys' \/ RefreshExpired(req[q].pair)'
               \/ presented'[req'[q].pair] > 1
    <3>. DEFINE p == req[q].pair
    <3>1. p \in Pairs /\ (p \in keys \/ RefreshExpired(p) \/ presented[p] > 1)
      BY <1>0, <2>0, <2>1 DEF TokenInv
    <3>2. CASE presented[p] > 1
      BY <1>0, <2>1, <3>1, <3>2 DEF Grown
    <3>3. CASE RefreshExpired(p)
      BY <1>0, <2>1, <3>1, <3>3, DelayAssumption DEF Grown, RefreshExpired, Pairs
    <3>4. CASE Lost(p)
      <4>1. PICK r \in Reqs : Presents(r) /\ ~Presents(r)' /\ req[r].pair = p
        BY <3>4 DEF Lost
      <4>2. r # q
        BY <2>0, <4>1
      <4>3. presented[p] > 1
        BY <1>0, <2>1, <4>1, <4>2 DEF TokenInv
      <4>. QED
        BY <3>2, <4>3
    <3>. QED
      BY <2>1, <3>1, <3>2, <3>3, <3>4, Growth
  <2>2. ASSUME NEW t \in Tabs, Refreshed(q, t)
        PROVE  \/ req'[q].pair \in keys' \/ RefreshExpired(req[q].pair)'
               \/ presented'[req'[q].pair] > 1
    <3>. DEFINE p == store[home[t]]
    <3>1. /\ req'[q].pair = p /\ p \in Pairs /\ keys' = keys
          /\ presented'[p] = (IF presented[p] = 0 THEN 1 ELSE 2)
          /\ p \in keys \/ RefreshExpired(p) \/ presented[p] > 0
      BY <1>4, <2>2 DEF Good
    <3>2. CASE RefreshExpired(p)
      BY <1>0, <3>1, <3>2, DelayAssumption DEF Grown, RefreshExpired, Pairs
    <3>. QED
      BY <1>0, <3>1, <3>2 DEF Grown
  <2>. QED
    BY <1>7, <2>0, <2>1, <2>2, PresentsStep
<1>. QED
  BY <1>2, <1>3, <1>5, <1>6, <1>7 DEF TokenInv

\* A login or a logout in a browser where a refresh is waited for is noted.
LEMMA CrossingIsNoted ==
  ASSUME IInv, NEW q \in Reqs, Asks(q), NEW b, home[req[q].tab] = b
  PROVE  Refreshing(b)
<1>1. req[q].tab \in Tabs /\ promise[req[q].tab] = q /\ q # None
  BY Known, NoneAssumption DEF IInv, PromiseInv, Asks, Waiting
<1>. QED
  BY <1>1 DEF Refreshing

LEMMA UserStep == IInv /\ Effect => UserInv'
<1> SUFFICES ASSUME IInv, Effect PROVE UserInv'
  OBVIOUS
<1>0. TypeInv /\ UserInv
  BY DEF IInv
<1>1. \A r \in Reqs : Asks(r) =>
        /\ home[req[r].tab] \in crossed \/ req[r].user = last[home[req[r].tab]]
        /\ req[r].tab \in Tabs /\ home[req[r].tab] \in Browsers
  BY <1>0, Known DEF UserInv, Asks, Waiting
<1>2. ASSUME NEW q \in Reqs, Live(q)', req'[q].answer = 200
      PROVE  req'[q].pair.sub = req'[q].user
  <2>1. CASE /\ Live(q) /\ req[q].answer = 200 /\ req'[q].pair = req[q].pair
             /\ req'[q].user = req[q].user
    BY <1>0, <2>1 DEF UserInv
  <2>2. CASE req'[q].pair = [sub |-> req[q].user, iat |-> now] /\ req'[q].user = req[q].user
    BY <2>2
  <2>. QED
    BY <1>2, <2>1, <2>2, AnswerStep
<1>3. ASSUME \A b \in Browsers : store'[b] # None /\ b \notin crossed' => store'[b].sub = last'[b],
             \A r \in Reqs : Asks(r)' => \/ home'[req'[r].tab] \in crossed'
                                         \/ req'[r].user = last'[home'[req'[r].tab]]
      PROVE  UserInv'
  BY <1>2, <1>3 DEF UserInv, Asks
<1>4. ASSUME Steady, UNCHANGED <<home, store, last, crossed>> PROVE UserInv'
  <2>1. \A r \in Reqs : Asks(r)' => \/ home'[req'[r].tab] \in crossed'
                                    \/ req'[r].user = last'[home'[req'[r].tab]]
    BY <1>1, <1>4 DEF Steady
  <2>. QED
    BY <1>0, <1>3, <1>4, <2>1 DEF UserInv
<1>5. CASE Still \/ Ticked
  BY <1>4, <1>5, SteadySteps DEF Still, Ticked, clients, history
<1>6. ASSUME NEW c \in Calls, Went(c) \/ Waits(c) \/ Ended(c) PROVE UserInv'
  BY <1>4, <1>6, SteadySteps DEF Went, Waits, Ended, history
<1>7. ASSUME NEW r \in Reqs, NEW t \in Tabs, NEW u \in Users, NEW kind \in Kinds,
             LoggedIn(r, t, kind, u)
      PROVE  UserInv'
  BY <1>4, <1>7, SteadySteps DEF LoggedIn, clients, history
<1>8. ASSUME NEW r \in Reqs, Served(r) PROVE UserInv'
  BY <1>4, <1>8, SteadySteps DEF Served, clients, history
<1>9. ASSUME NEW t \in Tabs, LoggedOut(t) PROVE UserInv'
  <2>. DEFINE b == home[t]
  <2>1. /\ Steady /\ b \in Browsers /\ home' = home /\ crossed \subseteq crossed'
        /\ Refreshing(b) => b \in crossed'
    BY <1>0, <1>9, SteadySteps DEF LoggedOut, TypeInv
  <2>2. store'[b] = None /\ \A x \in Browsers \ {b} : store'[x] = store[x] /\ last'[x] = last[x]
    BY <1>0, <1>9, <2>1 DEF LoggedOut, TypeInv
  <2>3. ASSUME NEW q \in Reqs, Asks(q)'
        PROVE  \/ home'[req'[q].tab] \in crossed'
               \/ req'[q].user = last'[home'[req'[q].tab]]
    <3>1. Asks(q) /\ req'[q].tab = req[q].tab /\ req'[q].user = req[q].user
      BY <2>1, <2>3 DEF Steady
    <3>2. CASE home[req[q].tab] = b
      BY <2>1, <3>1, <3>2, CrossingIsNoted
    <3>3. CASE home[req[q].tab] # b
      BY <1>1, <2>1, <2>2, <3>1, <3>3
    <3>. QED
      BY <3>2, <3>3
  <2>. QED
    BY <1>0, <1>3, <2>1, <2>2, <2>3 DEF UserInv
<1>10. ASSUME NEW t \in Tabs, NEW r \in Reqs, Refreshed(r, t) PROVE UserInv'
  <2>. DEFINE b == home[t]
  <2>1. /\ b \in Browsers /\ store[b] # None /\ UNCHANGED <<home, store, last, crossed>>
        /\ req'[r].tab = t /\ req'[r].user = store[b].sub
    BY <1>0, <1>10 DEF Refreshed, Posted, TypeInv
  <2>2. ASSUME NEW q \in Reqs, Asks(q)', q # r
        PROVE  Asks(q) /\ req'[q] = req[q]
    BY <1>10, <2>2 DEF Refreshed, Posted, Others, Asks, Waiting, Live
  <2>3. \A q \in Reqs : Asks(q)' => \/ home'[req'[q].tab] \in crossed'
                                    \/ req'[q].user = last'[home'[req'[q].tab]]
    BY <1>0, <1>1, <2>1, <2>2 DEF UserInv
  <2>. QED
    BY <1>0, <1>3, <2>1, <2>3 DEF UserInv
<1>11. ASSUME NEW r \in Reqs, Renewed(r) PROVE UserInv'
  <2>. DEFINE b == home[req[r].tab]
  <2>1. /\ Asks(r) /\ Live(r) /\ UNCHANGED <<home, last, crossed>> /\ b \in Browsers
        /\ b \in crossed \/ req[r].user = last[b]
    BY <1>1, <1>11 DEF Renewed, Asks, Waiting, history
  <2>2. /\ \A x \in Browsers \ {b} : store'[x] = store[x]
        /\ \/ store'[b] \in {store[b], None}
           \/ req[r].answer = 200 /\ store'[b] = req[r].pair
    BY <1>0, <1>11, <2>1 DEF Renewed, TypeInv
  <2>3. ASSUME NEW q \in Reqs, Asks(q)' PROVE Asks(q) /\ req'[q] = req[q]
    BY <1>11, <2>3 DEF Renewed, Released, Others, Asks, Waiting, Live
  <2>4. \A x \in Browsers : store'[x] # None /\ x \notin crossed' => store'[x].sub = last'[x]
    BY <1>0, <2>1, <2>2 DEF UserInv
  <2>. QED
    BY <1>1, <1>3, <2>1, <2>3, <2>4
<1>12. ASSUME NEW r \in Reqs, Entered(r) PROVE UserInv'
  <2>. DEFINE b == home[req[r].tab]
  <2>1. Steady /\ home' = home /\ Live(r) /\ b \in Browsers
    BY <1>0, <1>12, SteadySteps, Known DEF Entered, Waiting
  <2>2. CASE UNCHANGED <<store, last, crossed>>
    BY <1>4, <2>1, <2>2
  <2>3. CASE /\ req[r].answer = 200 /\ store' = [store EXCEPT ![b] = req[r].pair]
             /\ last' = [last EXCEPT ![b] = req[r].user]
             /\ crossed \subseteq crossed' \cup {b} /\ (Refreshing(b) => b \in crossed')
    <3>1. store'[b].sub = last'[b]
      BY <1>0, <2>1, <2>3 DEF TypeInv, UserInv
    <3>2. \A x \in Browsers \ {b} : store'[x] = store[x] /\ last'[x] = last[x]
      BY <1>0, <2>1, <2>3 DEF TypeInv
    <3>3. ASSUME NEW q \in Reqs, Asks(q)'
          PROVE  \/ home'[req'[q].tab] \in crossed'
                 \/ req'[q].user = last'[home'[req'[q].tab]]
      <4>1. Asks(q) /\ req'[q].tab = req[q].tab /\ req'[q].user = req[q].user
        BY <2>1, <3>3 DEF Steady
      <4>2. CASE home[req[q].tab] = b
        BY <2>1, <2>3, <4>1, <4>2, CrossingIsNoted
      <4>3. CASE home[req[q].tab] # b
        BY <1>1, <2>1, <2>3, <3>2, <4>1, <4>3
      <4>. QED
        BY <4>2, <4>3
    <3>. QED
      BY <1>0, <1>3, <2>3, <3>1, <3>2, <3>3 DEF UserInv
  <2>. QED
    BY <1>12, <2>2, <2>3 DEF Entered
<1>. QED
  BY <1>5, <1>6, <1>7, <1>8, <1>9, <1>10, <1>11, <1>12 DEF Effect

-----------------------------------------------------------------------------
LEMMA NextIInv == IInv /\ [Next]_vars => IInv'
<1> SUFFICES ASSUME IInv, [Next]_vars PROVE IInv'
  OBVIOUS
<1>1. Effect
  BY NextEffect DEF IInv
<1>2. TimeInv'
  BY <1>1, TimelyStep, OutlastsStep DEF TimeInv
<1>. QED
  BY <1>1, <1>2, TypeStep, PromiseStep, TokenStep, UserStep DEF IInv

LEMMA Invariant == Spec => []IInv
BY InitIInv, NextIInv, PTL DEF Spec

\* A refresh token that a browser of any number holds, or has just sent, is one
\* that Redis redeems, but for the ways of losing it that TokenIsRedeemable
\* names: RefreshToken deletes only what was presented to it.
THEOREM TokenAlwaysRedeemable == Spec => []TokenIsRedeemable
<1>1. IInv => TokenIsRedeemable
  BY DEF IInv, TokenInv, Good, TokenIsRedeemable, At, Live
<1>. QED
  BY <1>1, Invariant, PTL

\* getValidToken never lets a call out with a token that expires before the
\* call's time is up, for all delays with RequestTime <= Buffer and
\* RequestTime + Buffer < AccessTTL.
THEOREM CallsNeverStale == Spec => []NoStaleCall
<1>1. IInv => NoStaleCall
  <2> SUFFICES ASSUME IInv, NEW c \in Calls, Sent(c) PROVE AccessValid(call[c].pair)
    BY DEF NoStaleCall
  <2>1. /\ call[c].pair \in Pairs /\ now <= call[c].due /\ now \in Nat
        /\ call[c].due < call[c].pair.iat + AccessTTL /\ call[c].due \in Nat
    BY DEF IInv, TimeInv, Outlasts, TypeInv, CallStates
  <2>2. call[c].pair.iat \in Nat
    BY <2>1 DEF Pairs
  <2>. QED
    BY <2>1, <2>2, DelayAssumption DEF AccessValid
<1>. QED
  BY <1>1, Invariant, PTL

\* Only a refresh in flight across a login or a logout can make a browser act
\* for someone else than the user who logged in last.
THEOREM StoredUserAlwaysLast == Spec => []StoredUserIsLast
<1>1. IInv => StoredUserIsLast
  BY DEF IInv, UserInv, StoredUserIsLast
<1>. QED
  BY <1>1, Invariant, PTL

\* Any number of callers of getValidToken in a tab share one refresh, and none
\* of them is left waiting for a promise that is gone.
THEOREM AwaitedAlwaysPending == Spec => []AwaitedIsPending
<1>1. IInv => AwaitedIsPending
  <2> SUFFICES ASSUME IInv PROVE AwaitedIsPending
    OBVIOUS
  <2>1. ASSUME NEW c \in Calls, call[c] = Await
        PROVE  /\ promise[caller[c]] # None /\ Waiting(promise[caller[c]])
               /\ req[promise[caller[c]]].kind = "refresh"
               /\ req[promise[caller[c]]].tab = caller[c]
    <3>1. caller[c] \in Tabs
      BY DEF IInv, TypeInv
    <3>. QED
      BY <2>1, <3>1 DEF IInv, PromiseInv
  <2>2. ASSUME NEW q \in Reqs, NEW r \in Reqs, Waiting(q), req[q].kind = "refresh",
               Waiting(r), req[r].kind = "refresh", req[q].tab = req[r].tab
        PROVE  q = r
    BY <2>2 DEF IInv, PromiseInv
  <2>. QED
    BY <2>1, <2>2 DEF AwaitedIsPending
<1>. QED
  BY <1>1, Invariant, PTL
=============================================================================
