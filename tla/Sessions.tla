------------------------------- MODULE Sessions -------------------------------
(***************************************************************************)
(* Sessions: the SDK's AuthManager in the tabs of some browsers, the three *)
(* auth endpoints of the gateway, auth-service and its Redis keys.         *)
(*                                                                         *)
(* An access and a refresh token are always minted together and are        *)
(* functions of the user and the second they were minted in, so a token    *)
(* pair is the record [sub, iat]: two pairs minted for one user in one     *)
(* second are the same pair.  Tabs of a browser share its localStorage.    *)
(* Time is counted in seconds scaled down; the order of the four delays of *)
(* the code is kept by the assumption below.                               *)
(***************************************************************************)
EXTENDS Naturals, FiniteSets

CONSTANTS Tabs, Browsers, Users, Reqs, None,
          Calls,        \* API calls, several of which a tab may make at a time
          Accounts,     \* users registered at the start
          RequestTime,  \* middleware.Timeout, 30 s
          Buffer,       \* REFRESH_BUFFER_SEC, 60 s
          AccessTTL,    \* accessTokenExpiry, 15 min
          RefreshTTL,   \* refreshTokenExpiry, 7 days
          MaxTime,      \* bound on the clock
          MaxVisits,    \* bound on logins, registrations and logouts
          MaxFaults     \* bound on lost answers and errors of Redis and the database

ASSUME DelayAssumption ==
  /\ {RequestTime, Buffer, AccessTTL, RefreshTTL, MaxTime, MaxVisits,
      MaxFaults} \subseteq Nat
  /\ RequestTime <= Buffer /\ RequestTime + Buffer < AccessTTL /\ AccessTTL < RefreshTTL

VARIABLES now,        \* the clock
          home,       \* home[t]: the browser tab t runs in
          store,      \* store[b]: the pair in b's localStorage
          promise,    \* promise[t]: refreshPromise of tab t's AuthManager
          caller,     \* caller[c]: the tab that makes call c
          call,       \* call[c]: idle, awaiting a token, or sent
          req,        \* req[r]: a request to an auth endpoint
          keys,       \* the refresh tokens Redis knows
          accounts,   \* the users table
          visits,     \* logins, registrations and logouts so far
          faults,     \* faults so far
          presented,  \* presented[p]: requests that presented p (0, 1, 2 or more)
          last,       \* last[b]: the user who logged in last in b; None once logged out
          crossed     \* browsers where a logout or login met a refresh in flight

vars == <<now, home, store, promise, caller, call, req, keys, accounts, visits, faults,
          presented, last, crossed>>
server == <<keys, accounts>>
history == <<presented, last, crossed>>

Pairs == [sub : Users, iat : 0..MaxTime]

Kinds == {"login", "register", "refresh"}
Stages == {"sent", "found", "mint", "ended"}
Answers == {200, 401, 409, 500, None}
Requests == [tab : Tabs, kind : Kinds, user : Users, pair : Pairs \cup {None},
             stage : Stages, answer : Answers, waiting : BOOLEAN, due : Nat]

ASSUME NoneAssumption == None \notin Reqs \cup Nat \cup Requests

Idle == [state |-> "idle", pair |-> None, due |-> 0]
Await == [Idle EXCEPT !.state = "await"]
Sent(c) == call[c].state = "sent"

Init ==
  /\ now = 0
  /\ home \in [Tabs -> Browsers]
  /\ store = [b \in Browsers |-> None]
  /\ promise = [t \in Tabs |-> None]
  /\ caller \in [Calls -> Tabs]
  /\ call = [c \in Calls |-> Idle]
  /\ req = [r \in Reqs |-> None]
  /\ keys = {}
  /\ accounts = Accounts
  /\ visits = 0
  /\ faults = 0
  /\ presented = [p \in Pairs |-> 0]
  /\ last = [b \in Browsers |-> None]
  /\ crossed = {}

AccessValid(p) == now < p.iat + AccessTTL
RefreshExpired(p) == now >= p.iat + RefreshTTL
Live(r) == req[r] # None
Waiting(r) == Live(r) /\ req[r].waiting

\* A refresh of some tab of b is in flight.
Refreshing(b) == \E t \in Tabs : home[t] = b /\ promise[t] # None

-----------------------------------------------------------------------------
(* The SDK.  doFetch sends a request; the free slot stands for the object  *)
(* the runtime allocates.                                                  *)
Post(r, t, kind, user, pair) ==
  /\ req[r] = None
  /\ req' = [req EXCEPT ![r] = [tab |-> t, kind |-> kind, user |-> user, pair |-> pair,
                                stage |-> "sent", answer |-> None, waiting |-> TRUE,
                                due |-> now + RequestTime]]

\* The login and register pages show when the browser has no session.
LogIn(r, t, kind, u) ==
  /\ store[home[t]] = None /\ visits < MaxVisits
  /\ visits' = visits + 1
  /\ \A q \in Reqs : Waiting(q) /\ req[q].kind # "refresh" => req[q].tab # t
  /\ Post(r, t, kind, u, None)
  /\ UNCHANGED <<now, home, store, promise, caller, call, server, faults, history>>

LogOut(t) ==
  /\ store[home[t]] # None /\ visits < MaxVisits
  /\ visits' = visits + 1
  /\ store' = [store EXCEPT ![home[t]] = None]
  /\ last' = [last EXCEPT ![home[t]] = None]
  /\ crossed' = IF Refreshing(home[t]) THEN crossed \cup {home[t]} ELSE crossed
  /\ UNCHANGED <<now, home, promise, caller, call, req, server, faults, presented>>

\* A test of expiry that forgets how long the request will be under way.
NoBuffer(p) == now < p.iat + AccessTTL

StillFresh(p) == now + Buffer < p.iat + AccessTTL

\* A call goes out with the access token of p.
Carrying(p) == [state |-> "sent", pair |-> p, due |-> now + RequestTime]

\* getValidToken: the stored token if it outlasts the buffer; otherwise the
\* refresh under way in this tab, which the call joins, or a new one.
GetValidToken(c) ==
  /\ call[c] = Idle /\ store[home[caller[c]]] # None
  /\ LET t == caller[c]
         p == store[home[t]]
     IN
     \/ /\ StillFresh(p)
        /\ call' = [call EXCEPT ![c] = Carrying(p)]
        /\ UNCHANGED <<promise, req, presented>>
     \/ /\ ~StillFresh(p) /\ promise[t] # None
        /\ call' = [call EXCEPT ![c] = Await]
        /\ UNCHANGED <<promise, req, presented>>
     \/ /\ ~StillFresh(p) /\ promise[t] = None
        /\ \E r \in Reqs : /\ Post(r, t, "refresh", p.sub, p)
                           /\ promise' = [promise EXCEPT ![t] = r]
        /\ presented' = [presented EXCEPT ![p] = IF @ = 0 THEN 1 ELSE 2]
        /\ call' = [call EXCEPT ![c] = Await]
  /\ UNCHANGED <<now, visits, home, caller, store, server, faults, last, crossed>>

\* The call reaches the services, is checked there and answered.
CallEnds(c) ==
  /\ Sent(c)
  /\ call' = [call EXCEPT ![c] = Idle]
  /\ UNCHANGED <<now, visits, home, caller, store, promise, req, server, faults, history>>

Joined(c, t) == caller[c] = t /\ call[c] = Await

\* A refresh that goes on with one of its callers and forgets the others.
WakeOne(t, outcome) ==
  LET Woken == IF outcome = None THEN Idle ELSE Carrying(outcome) IN
  IF \E c \in Calls : Joined(c, t)
  THEN \E c \in Calls : Joined(c, t) /\ call' = [call EXCEPT ![c] = Woken]
  ELSE UNCHANGED call

\* All the callers that share the promise continue with the new token or throw.
Wake(t, outcome) ==
  call' = [c \in Calls |-> IF ~Joined(c, t) THEN call[c]
                           ELSE IF outcome = None THEN Idle ELSE Carrying(outcome)]

\* The request's slot is free once neither side holds it.
Release(r) == req' = [req EXCEPT ![r] = IF @.stage = "ended" THEN None
                                        ELSE [@ EXCEPT !.waiting = FALSE]]

\* A login that keeps the tokens it finds.
KeepStored(b, p) == IF store[b] = None THEN p ELSE store[b]

StoreTokens(b, p) == p

\* The answer of a refresh: the pair is stored whatever happened meanwhile; any
\* answer that is not a success is an AuthError and clears the store.
SettleRefresh(r) ==
  /\ Waiting(r) /\ req[r].kind = "refresh" /\ req[r].answer # None
  /\ LET t == req[r].tab
         b == home[t]
     IN /\ store' = [store EXCEPT ![b] = IF req[r].answer = 200
                                         THEN StoreTokens(b, req[r].pair) ELSE None]
        /\ promise' = [promise EXCEPT ![t] = None]
        /\ Wake(t, IF req[r].answer = 200 THEN req[r].pair ELSE None)
  /\ Release(r)
  /\ UNCHANGED <<now, visits, home, caller, server, faults, history>>

SettleLogin(r) ==
  /\ Waiting(r) /\ req[r].kind # "refresh" /\ req[r].answer # None
  /\ LET b == home[req[r].tab]
     IN IF req[r].answer = 200
        THEN /\ store' = [store EXCEPT ![b] = StoreTokens(b, req[r].pair)]
             /\ last' = [last EXCEPT ![b] = req[r].user]
             /\ crossed' = IF Refreshing(b) THEN crossed \cup {b} ELSE crossed \ {b}
        ELSE UNCHANGED <<store, last, crossed>>
  /\ Release(r)
  /\ UNCHANGED <<now, visits, home, promise, caller, call, server, faults, presented>>

\* The client's side of a request that is cut off: a NetworkError keeps the
\* tokens; the gateway's 504 is an answer that is not a success and clears them.
CutOff(r, answered) ==
  /\ Waiting(r) /\ faults < MaxFaults
  /\ faults' = faults + 1
  /\ LET t == req[r].tab IN
     IF req[r].kind = "refresh"
     THEN /\ promise' = [promise EXCEPT ![t] = None]
          /\ Wake(t, None)
          /\ store' = [store EXCEPT ![home[t]] = IF answered THEN None ELSE @]
     ELSE UNCHANGED <<promise, call, store>>
  /\ Release(r)
  /\ UNCHANGED <<now, visits, home, caller, server, history>>

-----------------------------------------------------------------------------
(* auth-service.  A request that nobody waits for any more runs on.        *)
At(r, kind, stage) == Live(r) /\ req[r].kind = kind /\ req[r].stage = stage

Step(r, stage) == req' = [req EXCEPT ![r].stage = stage]

Reply(r, answer, pair) ==
  req' = [req EXCEPT ![r] = IF @.waiting
                            THEN [@ EXCEPT !.stage = "ended", !.answer = answer, !.pair = pair]
                            ELSE None]

Fault == faults < MaxFaults /\ faults' = faults + 1

OnlyServer == UNCHANGED <<now, visits, home, store, promise, caller, call, history>>

\* RefreshToken: GET.
LookUp(r) ==
  /\ At(r, "refresh", "sent")
  /\ \/ /\ req[r].pair \in keys /\ ~RefreshExpired(req[r].pair)
        /\ Step(r, "found") /\ UNCHANGED faults
     \/ /\ req[r].pair \notin keys \/ RefreshExpired(req[r].pair)
        /\ Reply(r, 401, None) /\ UNCHANGED faults
     \/ Fault /\ Reply(r, 500, None)
  /\ UNCHANGED server /\ OnlyServer

\* RefreshToken: DEL, whose result is not looked at.
Rotate(r) ==
  /\ At(r, "refresh", "found")
  /\ \/ keys' = keys \ {req[r].pair} /\ UNCHANGED faults
     \/ Fault /\ UNCHANGED keys
  /\ Step(r, "mint")
  /\ UNCHANGED accounts /\ OnlyServer

\* Login: a wrong password is answered as an unknown email is, and so is an
\* error of the database.
CheckPassword(r) ==
  /\ At(r, "login", "sent")
  /\ \/ /\ IF req[r].user \in accounts THEN Step(r, "mint") ELSE Reply(r, 401, None)
        /\ UNCHANGED faults
     \/ Fault /\ Reply(r, 401, None)
  /\ UNCHANGED server /\ OnlyServer

\* Register: SELECT, then INSERT; the unique index decides a race.  An error of
\* the SELECT is taken for an email that is free.
CheckEmail(r) ==
  /\ At(r, "register", "sent")
  /\ \/ /\ IF req[r].user \in accounts THEN Reply(r, 409, None) ELSE Step(r, "found")
        /\ UNCHANGED faults
     \/ Fault /\ Step(r, "found")
  /\ UNCHANGED server /\ OnlyServer

\* An INSERT that fails may have been committed.
CreateUser(r) ==
  /\ At(r, "register", "found")
  /\ \/ /\ IF req[r].user \in accounts THEN Reply(r, 500, None) ELSE Step(r, "mint")
        /\ accounts' = accounts \cup {req[r].user} /\ UNCHANGED faults
     \/ /\ Fault /\ Reply(r, 500, None)
        /\ accounts' \in {accounts, accounts \cup {req[r].user}}
  /\ UNCHANGED keys /\ OnlyServer

\* A mint that answers without looking at the result of SET.
MintUnchecked(r) ==
  /\ Live(r) /\ req[r].stage = "mint"
  /\ LET p == [sub |-> req[r].user, iat |-> now] IN
     /\ Reply(r, 200, p)
     /\ \/ keys' = keys \cup {p} /\ UNCHANGED faults
        \/ Fault /\ UNCHANGED keys
  /\ UNCHANGED accounts /\ OnlyServer

\* generateTokenPair: SET, under a context of its own.  A SET that fails may
\* have reached Redis.
Mint(r) ==
  /\ Live(r) /\ req[r].stage = "mint"
  /\ LET p == [sub |-> req[r].user, iat |-> now] IN
     \/ /\ keys' = keys \cup {p}
        /\ Reply(r, 200, p) /\ UNCHANGED faults
     \/ Fault /\ Reply(r, 500, None) /\ keys' \in {keys, keys \cup {p}}
  /\ UNCHANGED accounts /\ OnlyServer

AuthService(r) ==
  \/ LookUp(r) \/ Rotate(r) \/ CheckPassword(r)
  \/ CheckEmail(r) \/ CreateUser(r) \/ Mint(r)

-----------------------------------------------------------------------------
\* Time passes; no request and no call is under way longer than RequestTime.
\* The gateway's Timeout sees to that once a request has reached it; the SDK's
\* fetch has no timeout of its own.
Tick ==
  /\ now < MaxTime
  /\ \A r \in Reqs : Waiting(r) => now < req[r].due
  /\ \A c \in Calls : Sent(c) => now < call[c].due
  /\ now' = now + 1
  /\ UNCHANGED <<visits, home, store, promise, caller, call, req, server, faults, history>>

Settle(r) == SettleRefresh(r) \/ SettleLogin(r)

Next ==
  \/ Tick
  \/ \E t \in Tabs : LogOut(t)
  \/ \E c \in Calls : GetValidToken(c) \/ CallEnds(c)
  \/ \E r \in Reqs, t \in Tabs, u \in Users, kind \in {"login", "register"} :
       LogIn(r, t, kind, u)
  \/ \E r \in Reqs : AuthService(r) \/ Settle(r) \/ CutOff(r, TRUE) \/ CutOff(r, FALSE)

Spec == Init /\ [][Next]_vars

-----------------------------------------------------------------------------
(* Properties *)

\* A refresh token that a browser holds, or has just sent, is one Redis will
\* redeem, unless it has expired or the same token was presented by a request
\* before: by another tab, after a lost answer, or by another login of the same
\* user in the same second.  So no token goes bad in the store by itself; the
\* browser may still lose a good one, for refresh() clears the store at every
\* answer that is not a success, the 500 of a Redis error included.
TokenIsRedeemable ==
  /\ \A b \in Browsers : store[b] # None =>
       store[b] \in keys \/ RefreshExpired(store[b]) \/ presented[store[b]] > 0
  /\ \A r \in Reqs : Live(r) /\ At(r, "refresh", "sent") =>
       req[r].pair \in keys \/ RefreshExpired(req[r].pair) \/ presented[req[r].pair] > 1

\* A call that the SDK lets out never carries a token that expires under way:
\* the buffer of getValidToken covers the time a request may take, and a shared
\* refresh hands its callers a token that is still good.
NoStaleCall ==
  \A c \in Calls : Sent(c) => AccessValid(call[c].pair)

\* A browser acts for the user who logged in last, and for nobody after a
\* logout, unless a refresh was in flight across the login or the logout:
\* refresh() stores what it gets without looking at what happened during its
\* await.
StoredUserIsLast ==
  \A b \in Browsers : store[b] # None /\ b \notin crossed => store[b].sub = last[b]

\* The calls of a tab share one refresh, and no wake-up is lost: a tab waits for
\* one refresh at a time, whatever logins, logouts and lost answers come between,
\* and each call that waits for a token waits for that one, so it goes out or
\* throws when the answer comes or the request is cut off.
AwaitedIsPending ==
  /\ \A c \in Calls : call[c] = Await =>
       LET r == promise[caller[c]]
       IN r # None /\ Waiting(r) /\ req[r].kind = "refresh" /\ req[r].tab = caller[c]
  /\ \A q, r \in Reqs :
       /\ Waiting(q) /\ req[q].kind = "refresh"
       /\ Waiting(r) /\ req[r].kind = "refresh"
       /\ req[q].tab = req[r].tab
       => q = r
=============================================================================
