---------------------------- MODULE ProcessProofs ----------------------------
(***************************************************************************)
(* The eight mains for every number of requests and of faults: what a      *)
(* process that ends leaves unannounced, and what /readyz says of the      *)
(* requests that fail.                                                     *)
(***************************************************************************)
EXTENDS Process, TLAPS

Phases == {"starting", "wired", "listening", "closing", "exited", "dead"}
Stages == {"none", "run", "hold", "torn", "ok", "failed", "cut"}
Requests == [stage : Stages, at : Nat \ {0}]

TypeInv ==
  /\ main \in DOMAIN Mains /\ phase \in Phases /\ step \in 0..Len(M.plan)
  /\ req \in [Reqs -> Requests] /\ rows \subseteq Reqs
  /\ defers \in Seq(Deps) /\ faults \in Nat

\* Main serves only after its last step, and closes only when it was told to.
AtWork(r) == req[r].stage \in {"run", "hold", "torn"}
PhaseInv ==
  /\ phase = "closing" => signalled
  /\ \A r \in Reqs : AtWork(r) => phase \in {"listening", "closing"}

\* Where a request stands in the dependencies of its handler, and what its
\* pool connection is worth.
PlaceInv ==
  \A r \in Reqs :
    /\ req[r].stage = "hold" => /\ req[r].at \in 1..Len(M.uses)
                                /\ M.uses[req[r].at] = "postgres"
    /\ req[r].stage = "ok" => req[r].at > Len(M.uses)
PoolInv ==
  \A r \in Reqs : /\ req[r].stage = "hold" => Reaches("postgres")
                  /\ req[r].stage = "torn" => worn

\* What is buffered has a connection, which main will close, and is at risk
\* from the moment that connection breaks.
NatsInv ==
  /\ ~Linked => outbox = {}
  /\ natsConn # "connected" => outbox \subseteq risked
  /\ Linked /\ Alive => \E i \in 1..Len(defers) : defers[i] = "nats"
  /\ phase = "exited" => outbox = {}
  /\ faults = 0 /\ ~signalled => natsConn \in {"none", "connected"} /\ risked = {}

\* A request that is past NATS has left its event there, or it is at risk.
Announces(r) == \E i \in 1..Len(M.uses) : i < req[r].at /\ M.uses[i] = "nats"
EventInv == \A r \in Reqs : Announces(r) => r \in outbox \cup events \cup risked

IInv == TypeInv /\ PhaseInv /\ PlaceInv /\ PoolInv /\ NatsInv /\ EventInv

-----------------------------------------------------------------------------
(* The mains: every dependency that a handler uses is one that the         *)
(* readiness probe checks, but for the object store.                       *)

Sound(m) ==
  /\ Len(Mains[m].plan) \in Nat
  /\ Len(Mains[m].uses) \in Nat
  /\ Range(Mains[m].uses) = {Mains[m].uses[i] : i \in 1..Len(Mains[m].uses)}
  /\ \A i \in 1..Len(Mains[m].plan) : Mains[m].plan[i].dep \in Deps
  /\ \A i \in 1..Len(Mains[m].uses) :
       \/ Mains[m].uses[i] \in Mains[m].checks
       \/ m = "file" /\ Mains[m].uses[i] = "minio"

LEMMA MainsSound == \A m \in DOMAIN Mains : Sound(m)
<1>0. DOMAIN Mains = {"auth", "user", "community", "notify", "file", "search", "ws", "api"}
  BY DEF Mains
<1>1. Sound("auth")
  <2>1. Mains["auth"] = AuthService
    BY DEF Mains
  <2>. QED
    BY <2>1 DEF Sound, Deps, AuthService, otelInit, postgresNew,
       Need, NeedClosed, Try, Step, Range
<1>2. Sound("user")
  <2>1. Mains["user"] = UserService
    BY DEF Mains
  <2>. QED
    BY <2>1 DEF Sound, Deps, UserService, otelInit, postgresNew, natsNew, NewStaticRegistry,
       Need, NeedClosed, Try, Step, Range
<1>3. Sound("community")
  <2>1. Mains["community"] = CommunityService
    BY DEF Mains
  <2>. QED
    BY <2>1 DEF Sound, Deps, CommunityService, otelInit, postgresNew, natsNew, NewStaticRegistry,
       Need, NeedClosed, Try, Step, Range
<1>4. Sound("notify")
  <2>1. Mains["notify"] = NotifyService
    BY DEF Mains
  <2>. QED
    BY <2>1 DEF Sound, Deps, NotifyService, otelInit, postgresNew, natsNew,
       Need, NeedClosed, Try, Step, Range
<1>5. Sound("file")
  <2>1. Mains["file"] = FileService
    BY DEF Mains
  <2>. QED
    BY <2>1 DEF Sound, Deps, FileService, otelInit, postgresNew, minioNew,
       Need, NeedClosed, Try, Step, Range
<1>6. Sound("search")
  <2>1. Mains["search"] = SearchService
    BY DEF Mains
  <2>. QED
    BY <2>1 DEF Sound, Deps, SearchService, otelInit, postgresNew,
       Need, NeedClosed, Try, Step, Range
<1>7. Sound("ws")
  <2>1. Mains["ws"] = WsGateway
    BY DEF Mains
  <2>. QED
    BY <2>1 DEF Sound, Deps, WsGateway, otelInit, NewStaticRegistry, redisNew, natsNew,
       Need, NeedClosed, Try, Step, Range
<1>8. Sound("api")
  <2>1. Mains["api"] = ApiGateway
    BY DEF Mains
  <2>. QED
    BY <2>1 DEF Sound, Deps, ApiGateway, otelInit, NewStaticRegistry, redisNew,
       Need, NeedClosed, Try, Step, Range
<1>. QED
  BY <1>0, <1>1, <1>2, <1>3, <1>4, <1>5, <1>6, <1>7, <1>8

LEMMA MSound ==
  ASSUME TypeInv
  PROVE  /\ Len(M.plan) \in Nat /\ Len(M.uses) \in Nat
         /\ Range(M.uses) = {M.uses[i] : i \in 1..Len(M.uses)}
         /\ \A i \in 1..Len(M.plan) : M.plan[i].dep \in Deps
         /\ \A i \in 1..Len(M.uses) :
              M.uses[i] \in M.checks \/ (main = "file" /\ M.uses[i] = "minio")
<1>1. Sound(main)
  BY MainsSound DEF TypeInv
<1>. QED
  BY <1>1 DEF Sound, M

-----------------------------------------------------------------------------
(* The steps by what they do to the requests. *)

\* One request goes on.
Goes(r, s, k) ==
  /\ req' \in [Reqs -> Requests]
  /\ req'[r].stage = s /\ req'[r].at = k
  /\ \A q \in Reqs \ {r} : req'[q] = req[q]

LEMMA GoesTo ==
  ASSUME TypeInv, NEW r \in Reqs
  PROVE  /\ \A s \in Stages : req' = [req EXCEPT ![r].stage = s] => Goes(r, s, req[r].at)
         /\ req' = Past(r) => Goes(r, "run", req[r].at + 1)
         /\ req' = Failed(r) => Goes(r, "failed", req[r].at)
<1>1. req[r] \in Requests /\ req \in [Reqs -> Requests]
  BY DEF TypeInv
<1>2. ASSUME NEW s \in Stages, req' = [req EXCEPT ![r].stage = s]
      PROVE  Goes(r, s, req[r].at)
  <2>1. [req[r] EXCEPT !.stage = s] \in Requests
    BY <1>1 DEF Requests
  <2>. QED
    BY <1>1, <1>2, <2>1 DEF Goes, Requests
<1>3. ASSUME req' = Past(r) PROVE Goes(r, "run", req[r].at + 1)
  <2>1. [stage |-> "run", at |-> req[r].at + 1] \in Requests
    BY <1>1 DEF Requests, Stages
  <2>. QED
    BY <1>1, <1>3, <2>1 DEF Goes, Past
<1>4. "failed" \in Stages
  BY DEF Stages
<1>. QED
  BY <1>2, <1>3, <1>4 DEF Failed

\* The process is over, and what was at work is cut.
Over ==
  /\ phase' \in {"dead", "exited"} /\ req' \in [Reqs -> Requests]
  /\ \A r \in Reqs : /\ req'[r].at = req[r].at /\ req'[r].stage \notin {"run", "hold", "torn"}
                     /\ req'[r].stage \in {"cut", req[r].stage}
  /\ UNCHANGED <<main, step, rows>>

LEMMA FinishEnds ==
  ASSUME TypeInv, NEW p \in {"dead", "exited"}, Finish(p), UNCHANGED <<main, step, rows>>
  PROVE  Over
<1>1. \A r \in Reqs : /\ req[r] \in Requests
                     /\ [req[r] EXCEPT !.stage = "cut"] \in Requests
  BY DEF TypeInv, Requests, Stages
<1>. QED
  BY <1>1 DEF Finish, Cut, Over, Requests

\* The start goes one step on, or from phase to phase, or nothing happens that
\* the requests can tell.
Began ==
  /\ phase = "starting" /\ step < Len(M.plan) /\ step' = step + 1
  /\ up' = up /\ open \subseteq open'
  /\ UNCHANGED <<main, phase, signalled, worn, req, rows>>
Passed ==
  /\ \/ phase = "starting" /\ phase' = "wired"
     \/ phase = "wired" /\ phase' = "listening"
     \/ phase \in {"wired", "listening"} /\ signalled /\ phase' = "closing"
  /\ UNCHANGED <<main, step, signalled, open, up, worn, req, rows>>
Rests ==
  /\ signalled => signalled'
  /\ UNCHANGED <<main, phase, step, open, up, worn, req, rows>>

\* Handles are closed, the pool's only when none of its connections is lent.
Closes ==
  /\ "postgres" \in open \ open' => Idle("postgres")
  /\ UNCHANGED <<main, phase, step, signalled, up, worn, req, rows>>

\* A dependency changes: PostgreSQL takes the connections that are lent.
Flips ==
  /\ req' \in [Reqs -> Requests]
  /\ \A r \in Reqs : req'[r].at = req[r].at
  /\ worn => worn'
  /\ \/ /\ \A r \in Reqs : req'[r].stage = IF req[r].stage = "hold" THEN "torn" ELSE req[r].stage
        /\ Reaches("postgres") => worn'
     \/ /\ \A r \in Reqs : req'[r].stage = req[r].stage
        /\ "postgres" \in up => "postgres" \in up'
  /\ UNCHANGED <<main, phase, step, signalled, open, rows>>

\* A request is accepted, or goes on by its handler's next step.
Accepted(r) ==
  /\ phase = "listening" /\ req[r].stage = "none" /\ Goes(r, "run", req[r].at)
  /\ rows' = rows
Acquired(r) ==
  /\ req[r].stage = "run" /\ req[r].at \in 1..Len(M.uses) /\ M.uses[req[r].at] = "postgres"
  /\ \/ Goes(r, "hold", req[r].at) /\ Reaches("postgres")
     \/ Goes(r, "torn", req[r].at) /\ worn
     \/ Goes(r, "failed", req[r].at) /\ ~Reaches("postgres")
  /\ rows' = rows
Queried(r) ==
  \/ req[r].stage = "hold" /\ Goes(r, "run", req[r].at + 1) /\ rows' = rows \cup {r}
  \/ req[r].stage = "torn" /\ Goes(r, "failed", req[r].at) /\ rows' \subseteq rows \cup {r}
Used(r) ==
  /\ req[r].stage = "run" /\ req[r].at \in 1..Len(M.uses)
  /\ M.uses[req[r].at] \in {"redis", "minio"}
  /\ \/ Goes(r, "run", req[r].at + 1)
     \/ Goes(r, "failed", req[r].at) /\ ~Reaches(M.uses[req[r].at])
  /\ rows' = rows
Published(r) ==
  /\ req[r].stage = "run" /\ req[r].at \in 1..Len(M.uses)
  /\ Goes(r, "run", req[r].at + 1)
  /\ rows' = rows /\ r \in outbox' \cup risked'
Answered(r) ==
  /\ req[r].stage = "run" /\ req[r].at > Len(M.uses) /\ Goes(r, "ok", req[r].at)
  /\ rows' = rows
Served(r) ==
  /\ Accepted(r) \/ Acquired(r) \/ Queried(r) \/ Used(r) \/ Published(r) \/ Answered(r)
  /\ UNCHANGED <<main, phase, step, signalled, open, up, worn>>

Effect ==
  \/ Over \/ Began \/ Passed \/ Rests \/ Closes \/ Flips
  \/ \E r \in Reqs : Served(r)

LEMMA ServeEffect ==
  ASSUME TypeInv, NEW r \in Reqs, Accept(r) \/ Serve(r)
  PROVE  Served(r)
<1>1. UNCHANGED <<main, phase, step, signalled, open, up, worn>>
  BY DEF Accept, Serve, Acquire, Query, Use, Publish, Respond, proc, links
<1>2. req[r].at \in Nat \ {0} /\ Len(M.uses) \in Nat
  BY MSound DEF TypeInv, Requests
<1>3. CASE Accept(r)
  <2>1. Accepted(r)
    BY <1>3, GoesTo DEF Accept, Accepted, Stages
  <2>. QED
    BY <1>1, <2>1 DEF Served
<1>4. CASE Acquire(r)
  <2>1. /\ req[r].stage = "run" /\ req[r].at \in 1..Len(M.uses)
        /\ M.uses[req[r].at] = "postgres" /\ rows' = rows
    BY <1>2, <1>4 DEF Acquire, Meets
  <2>2. "hold" \in Stages /\ "torn" \in Stages
    BY DEF Stages
  <2>3. Acquired(r)
    BY <1>4, <2>1, <2>2, GoesTo DEF Acquire, Acquired
  <2>. QED
    BY <1>1, <2>3 DEF Served
<1>5. CASE Query(r)
  <2>1. Queried(r)
    BY <1>5, GoesTo DEF Query, Queried
  <2>. QED
    BY <1>1, <2>1 DEF Served
<1>6. CASE Use(r)
  <2>1. PICK d \in {"redis", "minio"} :
          /\ Meets(r, d)
          /\ req' = IF Reaches(d) \/ Logged(d) THEN Past(r) ELSE Failed(r)
    BY <1>6 DEF Use
  <2>2. Used(r)
    BY <1>2, <1>6, <2>1, GoesTo DEF Use, Meets, Used
  <2>. QED
    BY <1>1, <2>2 DEF Served
<1>7. CASE Publish(r)
  <2>1. r \in outbox' \cup risked'
    BY <1>7 DEF Publish
  <2>2. Published(r)
    BY <1>2, <1>7, <2>1, GoesTo DEF Publish, Meets, Published
  <2>. QED
    BY <1>1, <2>2 DEF Served
<1>8. CASE Respond(r)
  <2>1. Answered(r)
    BY <1>8, GoesTo DEF Respond, Answered, Stages
  <2>. QED
    BY <1>1, <2>1 DEF Served
<1>. QED
  BY <1>3, <1>4, <1>5, <1>6, <1>7, <1>8 DEF Serve

LEMMA FlipEffect ==
  ASSUME TypeInv, NEW d, Flip(d)
  PROVE  Flips
<1>1. \A r \in Reqs : req[r] \in Requests /\ [req[r] EXCEPT !.stage = "torn"] \in Requests
  BY DEF TypeInv, Requests, Stages
<1>2. UNCHANGED <<main, phase, step, signalled, open, rows>> /\ (worn => worn')
  BY DEF Flip, proc
<1>3. /\ req' \in [Reqs -> Requests]
      /\ \A r \in Reqs : req'[r].at = req[r].at
  BY <1>1 DEF Flip, Requests
<1>4. CASE d = "postgres"
  <2>1. \A r \in Reqs : req'[r].stage = IF req[r].stage = "hold" THEN "torn" ELSE req[r].stage
    BY <1>1, <1>4 DEF Flip, Requests
  <2>2. Reaches("postgres") => worn'
    BY <1>4 DEF Flip
  <2>. QED
    BY <1>2, <1>3, <2>1, <2>2 DEF Flips
<1>5. CASE d # "postgres"
  <2>1. \A r \in Reqs : req'[r].stage = req[r].stage
    BY <1>1, <1>5 DEF Flip
  <2>2. "postgres" \in up => "postgres" \in up'
    BY <1>5 DEF Flip
  <2>. QED
    BY <1>2, <1>3, <2>1, <2>2 DEF Flips
<1>. QED
  BY <1>4, <1>5

LEMMA NextEffect ==
  ASSUME IInv, [Next]_vars
  PROVE  Effect
<1>0. TypeInv
  BY DEF IInv
<1>1. CASE UNCHANGED vars
  BY <1>1 DEF vars, Effect, Rests
<1>2. CASE Connect
  <2>1. CASE step' = step + 1 /\ UNCHANGED <<phase, req>>
    <3>1. Began
      BY <1>2, <2>1 DEF Connect, Began, sent
    <3>. QED
      BY <3>1 DEF Effect
  <2>2. CASE Die /\ step' = step
    BY <1>0, <1>2, <2>2, FinishEnds DEF Connect, Die, Effect
  <2>. QED
    BY <1>2, <2>1, <2>2 DEF Connect
<1>3. CASE Wire \/ Shutdown
  BY <1>3 DEF Wire, Shutdown, work, links, Effect, Passed
<1>4. CASE Notify \/ Client
  BY <1>4 DEF Notify, Client, Flush, Lose, Reconnect, GiveUp, work, proc, links, Effect, Rests
<1>5. CASE Listen
  BY <1>0, <1>5, FinishEnds DEF Listen, Die, Effect, Passed
<1>6. CASE watchPeers
  BY <1>0, <1>6, FinishEnds DEF watchPeers, Die, Effect
<1>7. CASE Return
  BY <1>0, <1>7, FinishEnds DEF Return, Effect
<1>8. CASE Signal
  BY <1>0, <1>8, FinishEnds DEF Signal, Die, Effect, Rests
<1>9. CASE CloseBoth \/ Close
  <2>1. Closes
    BY <1>9 DEF CloseBoth, Close, proc, Closes
  <2>. QED
    BY <2>1 DEF Effect
<1>10. ASSUME NEW r \in Reqs, Accept(r) \/ Serve(r) PROVE Effect
  BY <1>0, <1>10, ServeEffect DEF Effect
<1>11. ASSUME NEW d \in Needed, Flip(d) PROVE Effect
  BY <1>0, <1>11, FlipEffect DEF Effect
<1>. QED
  BY <1>1, <1>2, <1>3, <1>4, <1>5, <1>6, <1>7, <1>8, <1>9, <1>10, <1>11 DEF Next, Begin, Stop

-----------------------------------------------------------------------------
(* Each part of the invariant is kept. *)

LEMMA MainStays ==
  ASSUME Effect
  PROVE  main' = main /\ M' = M
BY DEF Effect, Over, Began, Passed, Rests, Closes, Flips, Served, M

LEMMA InitIInv == Init => IInv
<1> SUFFICES ASSUME Init PROVE IInv
  OBVIOUS
<1>1. main \in DOMAIN Mains /\ phase \in Phases /\ phase = "starting" /\ step = 0
      /\ rows = {} /\ req \in [Reqs -> Requests]
      /\ \A r \in Reqs : req[r].stage = "none" /\ req[r].at = 1
  BY DEF Init, Phases, Requests, Stages
<1>2. Sound(main)
  BY <1>1, MainsSound
<1>3. TypeInv
  BY <1>1, <1>2 DEF Sound, M, TypeInv, Init
<1>4. PhaseInv /\ PlaceInv /\ PoolInv
  BY <1>1 DEF PhaseInv, PlaceInv, PoolInv, AtWork
<1>5. NatsInv
  BY DEF Init, NatsInv, Linked
<1>6. EventInv
  BY <1>1 DEF EventInv, Announces
<1>. QED
  BY <1>3, <1>4, <1>5, <1>6 DEF IInv

\* The deferred closes: one more, or the last one gone.
LEMMA DefersStep ==
  ASSUME IInv, [Next]_vars
  PROVE  \/ defers' = defers
         \/ Connect /\ \E d \in Deps : defers' = Append(defers, d)
         \/ Close /\ defers # <<>> /\ defers' = Front(defers)
<1>1. CASE Connect
  <2>1. step + 1 \in 1..Len(M.plan)
    BY <1>1, MSound DEF IInv, TypeInv, Connect
  <2>2. M.plan[step + 1].dep \in Deps
    BY <2>1, MSound DEF IInv
  <2>. QED
    BY <1>1, <2>2 DEF Connect
<1>2. CASE Close
  BY <1>2 DEF Close
<1>3. ASSUME NEW r \in Reqs, Accept(r) \/ Serve(r) PROVE defers' = defers
  BY <1>3 DEF Accept, Serve, Acquire, Query, Use, Publish, Respond, proc
<1>4. ASSUME NEW d \in Needed, Flip(d) PROVE defers' = defers
  BY <1>4 DEF Flip, proc
<1>5. CASE UNCHANGED vars \/ watchPeers \/ Client \/ Signal
  BY <1>5 DEF vars, watchPeers, Client, Flush, Lose, Reconnect, GiveUp, Signal, proc
<1>6. CASE Wire \/ Listen \/ Notify \/ Shutdown \/ CloseBoth \/ Return
  BY <1>6 DEF Wire, Listen, Notify, Shutdown, CloseBoth, Return, proc
<1>. QED
  BY <1>1, <1>2, <1>3, <1>4, <1>5, <1>6 DEF Next, Begin, Stop

LEMMA FaultsStep ==
  ASSUME IInv, [Next]_vars
  PROVE  faults' \in Nat /\ (faults' # faults => faults' # 0) /\ (signalled => signalled')
<1>0. faults \in Nat
  BY DEF IInv, TypeInv
<1>1. CASE Connect
  BY <1>0, <1>1 DEF Connect
<1>2. CASE Close
  BY <1>0, <1>2 DEF Close
<1>3. ASSUME NEW r \in Reqs, Accept(r) \/ Serve(r)
      PROVE  faults' = faults /\ signalled' = signalled
  BY <1>3 DEF Accept, Serve, Acquire, Query, Use, Publish, Respond, proc
<1>4. ASSUME NEW d \in Needed, Flip(d) PROVE faults' = faults + 1 /\ signalled' = signalled
  BY <1>4 DEF Flip, proc
<1>5. CASE UNCHANGED vars \/ watchPeers \/ Client \/ Signal
  BY <1>0, <1>5 DEF vars, watchPeers, Client, Flush, Lose, Reconnect, GiveUp, Signal, proc
<1>6. CASE Wire \/ Listen \/ Notify \/ Shutdown \/ CloseBoth \/ Return
  BY <1>0, <1>6 DEF Wire, Listen, Notify, Shutdown, CloseBoth, Return, proc
<1>. QED
  BY <1>0, <1>1, <1>2, <1>3, <1>4, <1>5, <1>6 DEF Next, Begin, Stop

LEMMA TypeStep == IInv /\ [Next]_vars => TypeInv'
<1> SUFFICES ASSUME IInv, [Next]_vars PROVE TypeInv'
  OBVIOUS
<1>0. Effect /\ TypeInv /\ Len(M.plan) \in Nat /\ main' = main /\ M' = M
  BY NextEffect, MSound, MainStays DEF IInv
<1>1. req' \in [Reqs -> Requests] /\ rows' \subseteq Reqs
  BY <1>0 DEF Effect, Over, Began, Passed, Rests, Closes, Flips, Served, Accepted, Acquired,
     Queried, Used, Published, Answered, Goes, TypeInv
<1>2. phase' \in Phases
  BY <1>0 DEF Effect, Over, Began, Passed, Rests, Closes, Flips, Served, TypeInv, Phases
<1>3. step' \in 0..Len(M.plan)
  BY <1>0 DEF Effect, Over, Began, Passed, Rests, Closes, Flips, Served, TypeInv
<1>4. defers' \in Seq(Deps)
  <2>1. defers \in Seq(Deps)
    BY <1>0 DEF TypeInv
  <2>2. ASSUME NEW d \in Deps PROVE Append(defers, d) \in Seq(Deps)
    BY <2>1
  <2>3. ASSUME defers # <<>> PROVE Front(defers) \in Seq(Deps)
    BY <2>1, <2>3 DEF Front
  <2>. QED
    BY <2>1, <2>2, <2>3, DefersStep
<1>5. faults' \in Nat
  BY FaultsStep
<1>. QED
  BY <1>0, <1>1, <1>2, <1>3, <1>4, <1>5 DEF TypeInv

LEMMA PhaseStep == IInv /\ Effect => PhaseInv'
<1> SUFFICES ASSUME IInv, Effect PROVE PhaseInv'
  OBVIOUS
<1>0. PhaseInv
  BY DEF IInv
<1>1. CASE Over
  BY <1>1 DEF Over, PhaseInv, AtWork
<1>2. CASE Began \/ Passed
  BY <1>0, <1>2 DEF Began, Passed, PhaseInv, AtWork
<1>3. CASE Rests \/ Closes
  BY <1>0, <1>3 DEF Rests, Closes, PhaseInv, AtWork
<1>4. CASE Flips
  BY <1>0, <1>4 DEF Flips, PhaseInv, AtWork
<1>5. ASSUME NEW r \in Reqs, Served(r) PROVE PhaseInv'
  <2>1. /\ phase' = phase /\ signalled' = signalled
        /\ AtWork(r) \/ phase = "listening"
        /\ \A q \in Reqs \ {r} : req'[q] = req[q]
    BY <1>5 DEF Served, Accepted, Acquired, Queried, Used, Published, Answered, Goes, AtWork
  <2>. QED
    BY <1>0, <2>1 DEF PhaseInv, AtWork
<1>. QED
  BY <1>1, <1>2, <1>3, <1>4, <1>5 DEF Effect

LEMMA PlaceStep == IInv /\ Effect => PlaceInv'
<1> SUFFICES ASSUME IInv, Effect, NEW q \in Reqs
             PROVE  /\ req'[q].stage = "hold" =>
                         req'[q].at \in 1..Len(M.uses) /\ M.uses[req'[q].at] = "postgres"
                    /\ req'[q].stage = "ok" => req'[q].at > Len(M.uses)
  BY MainStays DEF PlaceInv
<1>0. PlaceInv
  BY DEF IInv
<1>1. CASE Over \/ Flips
  BY <1>0, <1>1 DEF Over, Flips, PlaceInv
<1>2. CASE req'[q] = req[q]
  BY <1>0, <1>2 DEF PlaceInv
<1>3. ASSUME NEW r \in Reqs, Served(r), req'[q] # req[q]
      PROVE  /\ req'[q].stage = "hold" =>
                  req'[q].at \in 1..Len(M.uses) /\ M.uses[req'[q].at] = "postgres"
             /\ req'[q].stage = "ok" => req'[q].at > Len(M.uses)
  BY <1>3 DEF Served, Accepted, Acquired, Queried, Used, Published, Answered, Goes
<1>. QED
  BY <1>1, <1>2, <1>3 DEF Effect, Began, Passed, Rests, Closes

\* The pool is not closed, and PostgreSQL has not failed, under a connection
\* that is lent and whole.
LEMMA PoolStep == IInv /\ Effect => PoolInv'
<1> SUFFICES ASSUME IInv, Effect, NEW q \in Reqs
             PROVE  /\ req'[q].stage = "hold" => "postgres" \in open' /\ "postgres" \in up'
                    /\ req'[q].stage = "torn" => worn'
  BY DEF PoolInv, Reaches
<1>0. PoolInv
  BY DEF IInv
<1>1. CASE Over
  BY <1>1 DEF Over
<1>2. CASE Began \/ Passed \/ Rests
  BY <1>0, <1>2 DEF Began, Passed, Rests, PoolInv, Reaches
<1>3. CASE Closes
  BY <1>0, <1>3 DEF Closes, Idle, PoolInv, Reaches
<1>4. CASE Flips
  BY <1>0, <1>4 DEF Flips, PoolInv, Reaches
<1>5. ASSUME NEW r \in Reqs, Served(r)
      PROVE  /\ req'[q].stage = "hold" => "postgres" \in open' /\ "postgres" \in up'
             /\ req'[q].stage = "torn" => worn'
  <2>1. UNCHANGED <<open, up, worn>>
    BY <1>5 DEF Served
  <2>2. CASE q # r
    <3>1. req'[q] = req[q]
      BY <1>5, <2>2 DEF Served, Accepted, Acquired, Queried, Used, Published, Answered, Goes
    <3>. QED
      BY <1>0, <2>1, <3>1 DEF PoolInv, Reaches
  <2>3. CASE q = r
    BY <1>5, <2>1, <2>3 DEF Served, Accepted, Acquired, Queried, Used, Published, Answered,
       Goes, Reaches
  <2>. QED
    BY <2>2, <2>3
<1>. QED
  BY <1>1, <1>2, <1>3, <1>4, <1>5 DEF Effect

\* A step that leaves the NATS client and the deferred closes alone.
LEMMA QuietStep ==
  ASSUME IInv, [Next]_vars, UNCHANGED <<natsConn, outbox, risked, defers>>,
         Alive' => Alive, phase' = "exited" => phase = "exited"
  PROVE  NatsInv'
BY FaultsStep DEF IInv, NatsInv, Linked

\* A step of the client that keeps main's defer, its phase and its faults.
LEMMA ClientStep ==
  ASSUME IInv, UNCHANGED <<phase, defers, faults, signalled>>, Linked' => Linked,
         Alive,
         ~Linked' => outbox' = {},
         natsConn' # "connected" => outbox' \subseteq risked',
         faults = 0 /\ ~signalled => natsConn' \in {"none", "connected"} /\ risked' = {}
  PROVE  NatsInv'
BY DEF IInv, NatsInv, Linked, Alive

LEMMA NatsStep == IInv /\ [Next]_vars => NatsInv'
<1> SUFFICES ASSUME IInv, [Next]_vars PROVE NatsInv'
  OBVIOUS
<1>0. NatsInv /\ PhaseInv /\ defers \in Seq(Deps) /\ faults \in Nat
  BY DEF IInv, TypeInv
<1>1. CASE Connect
  <2>1. CASE M.plan[step + 1] = natsNew /\ step' = step + 1 /\ natsConn' = "connected"
    <3>1. natsNew.dep = "nats" /\ natsNew.closed /\ natsNew.fatal
      BY DEF natsNew, NeedClosed, Step
    <3>0. step + 1 # step
      BY MSound DEF IInv, TypeInv
    <3>2. defers' = Append(defers, "nats")
      BY <1>1, <2>1, <3>0, <3>1 DEF Connect
    <3>3. defers'[Len(defers) + 1] = "nats" /\ Len(defers') = Len(defers) + 1
          /\ Len(defers) \in Nat
      BY <1>0, <3>2 DEF Deps
    <3>4. \E i \in 1..Len(defers') : defers'[i] = "nats"
      BY <3>3
    <3>5. UNCHANGED <<phase, outbox, risked, faults, signalled>> /\ phase = "starting"
      BY <1>1, <2>1 DEF Connect, Die, Finish, sent
    <3>. QED
      BY <1>0, <2>1, <3>4, <3>5 DEF NatsInv, Linked
  <2>2. CASE step' = step + 1 /\ natsConn' = natsConn
    <3>1. UNCHANGED <<phase, outbox, risked, faults, signalled>>
      BY <1>1, <2>2 DEF Connect, Die, Finish, sent, IInv, TypeInv
    <3>2. ASSUME NEW i \in 1..Len(defers), defers[i] = "nats"
          PROVE  \E j \in 1..Len(defers') : defers'[j] = "nats"
      <4>1. CASE defers' = defers
        BY <3>2, <4>1
      <4>2. ASSUME NEW d \in Deps, defers' = Append(defers, d)
            PROVE  \E j \in 1..Len(defers') : defers'[j] = "nats"
        <5>1. Len(defers') = Len(defers) + 1 /\ Len(defers) \in Nat /\ defers'[i] = defers[i]
          BY <1>0, <3>2, <4>2
        <5>. QED
          BY <3>2, <5>1
      <4>. QED
        BY <1>1, <4>1, <4>2, DefersStep DEF Connect, Close
    <3>. QED
      BY <1>0, <2>2, <3>1, <3>2 DEF NatsInv, Linked, Alive
  <2>3. CASE Die /\ UNCHANGED <<defers, natsConn>>
    BY <1>0, <1>1, <2>3, QuietStep DEF Connect, Die, Finish, sent, Alive
  <2>. QED
    BY <1>1, <2>1, <2>2, <2>3 DEF Connect
<1>2. CASE Close
  <2>. DEFINE d == Last(defers)
  <2>1. /\ phase = "closing" /\ defers # <<>> /\ defers' = Front(defers) /\ signalled
        /\ UNCHANGED <<phase, risked, signalled, faults>>
    BY <1>0, <1>2 DEF Close, PhaseInv
  <2>2. CASE d = "nats"
    BY <1>2, <2>1, <2>2 DEF Close, CloseNats, NatsInv, Linked
  <2>3. CASE d # "nats"
    <3>1. UNCHANGED <<outbox, natsConn>>
      BY <1>2, <2>3 DEF Close
    <3>2. ASSUME NEW i \in 1..Len(defers), defers[i] = "nats"
          PROVE  \E j \in 1..Len(defers') : defers'[j] = "nats"
      <4>1. i # Len(defers) /\ Len(defers) \in Nat
        BY <1>0, <2>3, <3>2 DEF Last
      <4>2. i \in 1..(Len(defers) - 1)
        BY <4>1
      <4>3. Len(defers') = Len(defers) - 1 /\ defers'[i] = defers[i]
        BY <1>0, <2>1, <4>1, <4>2 DEF Front
      <4>. QED
        BY <3>2, <4>2, <4>3
    <3>. QED
      BY <1>0, <2>1, <3>1, <3>2 DEF NatsInv, Linked, Alive
  <2>. QED
    BY <2>2, <2>3
<1>3. CASE CloseBoth
  BY <1>0, <1>3, ClientStep DEF CloseBoth, CloseNats, Linked, Alive, proc, PhaseInv
<1>4. CASE Return
  <2>1. phase = "closing" /\ defers = <<>> /\ UNCHANGED <<natsConn, outbox, risked, defers,
          faults, signalled>> /\ phase' = "exited"
    BY <1>4 DEF Return, Finish, sent
  <2>2. ~Linked
    BY <1>0, <2>1 DEF NatsInv, Alive
  <2>. QED
    BY <1>0, <2>1, <2>2 DEF NatsInv, Linked, Alive
<1>5. CASE Flush
  BY <1>0, <1>5, ClientStep DEF Flush, Linked, proc, links, NatsInv
<1>6. CASE Lose
  BY <1>0, <1>6, ClientStep DEF Lose, Linked, proc, NatsInv
<1>7. CASE Reconnect
  BY <1>0, <1>7, ClientStep DEF Reconnect, Linked, proc, work, sent, NatsInv
<1>8. CASE GiveUp
  BY <1>0, <1>8, ClientStep DEF GiveUp, Linked, proc, NatsInv
<1>9. ASSUME NEW r \in Reqs, Publish(r) PROVE NatsInv'
  BY <1>0, <1>9, ClientStep DEF Publish, Meets, Linked, proc, links, NatsInv
<1>10. ASSUME NEW r \in Reqs, Accept(r) \/ Acquire(r) \/ Query(r) \/ Use(r) \/ Respond(r)
       PROVE  NatsInv'
  <2>1. UNCHANGED <<natsConn, outbox, risked, defers, phase>>
    BY <1>10 DEF Accept, Acquire, Query, Use, Respond, proc, links, sent
  <2>. QED
    BY <2>1, QuietStep DEF Alive
<1>11. ASSUME NEW d \in Needed, Flip(d) PROVE NatsInv'
  <2>1. UNCHANGED <<phase, defers, signalled, outbox>> /\ faults' = faults + 1 /\ Alive
    BY <1>11 DEF Flip, proc
  <2>2. \/ natsConn = "connected" /\ natsConn' = "broken" /\ risked' = risked \cup outbox
        \/ UNCHANGED <<natsConn, risked>>
    BY <1>11 DEF Flip
  <2>. QED
    BY <1>0, <2>1, <2>2 DEF NatsInv, Linked, Alive
<1>12. CASE UNCHANGED vars \/ Wire \/ Listen \/ Notify \/ Shutdown \/ watchPeers \/ Signal
  <2>1. /\ UNCHANGED <<natsConn, outbox, risked, defers>>
        /\ Alive' => Alive
        /\ phase' = "exited" => phase = "exited"
    BY <1>12 DEF vars, Wire, Listen, Notify, Shutdown, watchPeers, Signal, Die, Finish, work,
       sent, links, proc, Alive
  <2>. QED
    BY <2>1, QuietStep
<1>. QED
  BY <1>1, <1>2, <1>3, <1>4, <1>5, <1>6, <1>7, <1>8, <1>9, <1>10, <1>11, <1>12
     DEF Next, Begin, Stop, Client, Serve

\* An event that leaves the buffer is in NATS or was at risk.
LEMMA EventsKept ==
  ASSUME IInv, [Next]_vars
  PROVE  outbox \cup events \cup risked \subseteq outbox' \cup events' \cup risked'
<1>0. NatsInv
  BY DEF IInv
<1>1. CASE Connect \/ UNCHANGED vars \/ Wire \/ Listen \/ Notify \/ Shutdown
  BY <1>1 DEF Connect, vars, Wire, Listen, Notify, Shutdown, work, sent
<1>2. CASE watchPeers \/ Signal \/ Return
  BY <1>2 DEF watchPeers, Signal, Return, sent
<1>3. CASE Client
  BY <1>0, <1>3 DEF Client, Flush, Lose, Reconnect, GiveUp, work, sent, NatsInv
<1>4. CASE CloseBoth \/ Close
  BY <1>0, <1>4 DEF CloseBoth, Close, CloseNats, NatsInv
<1>5. ASSUME NEW r \in Reqs, Accept(r) \/ Serve(r)
      PROVE  outbox \cup events \cup risked \subseteq outbox' \cup events' \cup risked'
  BY <1>5 DEF Accept, Serve, Acquire, Query, Use, Publish, Respond, sent
<1>6. ASSUME NEW d \in Needed, Flip(d)
      PROVE  outbox \cup events \cup risked \subseteq outbox' \cup events' \cup risked'
  BY <1>6 DEF Flip
<1>. QED
  BY <1>1, <1>2, <1>3, <1>4, <1>5, <1>6 DEF Next, Begin, Stop

LEMMA EventStep == IInv /\ [Next]_vars => EventInv'
<1> SUFFICES ASSUME IInv, [Next]_vars, NEW q \in Reqs,
                    NEW i \in 1..Len(M.uses), i < req'[q].at, M.uses[i] = "nats"
             PROVE  q \in outbox' \cup events' \cup risked'
  BY NextEffect, MainStays DEF EventInv, Announces
<1>0. TypeInv /\ EventInv /\ Len(M.uses) \in Nat /\ Effect /\ req[q].at \in Nat
  BY MSound, NextEffect DEF IInv, TypeInv, Requests
<1>1. CASE i < req[q].at
  <2>1. q \in outbox \cup events \cup risked
    BY <1>0, <1>1 DEF EventInv, Announces
  <2>. QED
    BY <2>1, EventsKept
<1>2. CASE ~(i < req[q].at)
  <2>1. PICK r \in Reqs : Served(r)
    BY <1>0, <1>2 DEF Effect, Over, Began, Passed, Rests, Closes, Flips
  <2>2. /\ q = r /\ i = req[q].at
        /\ (Queried(r) /\ req[r].stage = "hold") \/ Used(r) \/ Published(r)
    BY <1>0, <1>2, <2>1 DEF Served, Accepted, Acquired, Queried, Used, Published, Answered, Goes
  <2>3. ~(Queried(r) /\ req[r].stage = "hold") /\ ~Used(r)
    BY <2>2 DEF IInv, PlaceInv, Used
  <2>. QED
    BY <2>2, <2>3 DEF Published
<1>. QED
  BY <1>1, <1>2

LEMMA NextIInv == IInv /\ [Next]_vars => IInv'
BY NextEffect, TypeStep, PhaseStep, PlaceStep, PoolStep, NatsStep, EventStep DEF IInv

LEMMA Invariant == Spec => []IInv
BY InitIInv, NextIInv, PTL DEF Spec

-----------------------------------------------------------------------------
\* An answered write of user-service or community-service has its event in
\* NATS or in the client's buffer, which a process that ends by its deferred
\* closes leaves empty, unless the connection to NATS was lost or closed under
\* the event: for every number of requests and of faults, and whatever the
\* client loses with a socket and whenever it gives up.
THEOREM RowsAlwaysAnnounced == Spec => []RowIsAnnounced
<1>1. IInv => RowIsAnnounced
  <2>1. ASSUME IInv, NEW r \in rows, req[r].stage = "ok", "nats" \in Range(M.uses)
        PROVE  r \in outbox \cup events \cup risked
    <3>1. r \in Reqs /\ req[r].at > Len(M.uses) /\ req[r].at \in Nat /\ Len(M.uses) \in Nat
      BY <2>1, MSound DEF IInv, TypeInv, PlaceInv, Requests
    <3>2. PICK i \in 1..Len(M.uses) : M.uses[i] = "nats"
      BY <2>1, MSound DEF IInv
    <3>3. Announces(r)
      BY <3>1, <3>2 DEF Announces
    <3>. QED
      BY <2>1, <3>1, <3>3 DEF IInv, EventInv
  <2>2. ASSUME IInv, risked # {} PROVE faults > 0 \/ signalled
    BY <2>2 DEF IInv, NatsInv, TypeInv
  <2>3. ASSUME IInv, phase = "exited" PROVE outbox = {}
    BY <2>3 DEF IInv, NatsInv
  <2>. QED
    BY <2>1, <2>2, <2>3 DEF RowIsAnnounced
<1>. QED
  BY <1>1, Invariant, PTL

\* In every main and for every number of requests, a request fails only while
\* /readyz reports a dependency that is down, or because its pool connection
\* was lost since it was dialled, or for MinIO.
THEOREM FailuresAlwaysReported == Spec => FailuresAreReported
<1>1. IInv /\ [Next]_vars =>
        [\A r \in Reqs : req[r].stage # "failed" /\ req'[r].stage = "failed" =>
           \/ ~Ready
           \/ worn /\ req[r].stage = "torn"
           \/ main = "file" /\ ~Reaches("minio")]_vars
  <2> SUFFICES ASSUME IInv, [Next]_vars, NEW q \in Reqs, req[q].stage # "failed",
                      req'[q].stage = "failed", req[q].stage # "torn"
               PROVE  ~Ready \/ (main = "file" /\ ~Reaches("minio"))
    BY DEF IInv, PoolInv
  <2>1. PICK r \in Reqs : Served(r)
    BY NextEffect DEF Effect, Over, Began, Passed, Rests, Closes, Flips
  <2>2. PICK i \in 1..Len(M.uses) : ~Reaches(M.uses[i]) /\ M.uses[i] # "nats"
    BY <2>1 DEF Served, Accepted, Acquired, Queried, Used, Published, Answered, Goes
  <2>. QED
    BY <2>2, MSound DEF IInv, Ready
<1>. QED
  BY <1>1, Invariant, PTL DEF Spec, FailuresAreReported
=============================================================================
