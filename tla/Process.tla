------------------------------- MODULE Process -------------------------------
(***************************************************************************)
(* The life of one service process: main() connects to what it needs,      *)
(* wires its handlers, listens, serves requests, and ends by os.Exit, by a *)
(* panic or by a signal.  The eight mains have one shape, so each is a     *)
(* record: the steps of its start, what its handlers use in which order,   *)
(* what its readiness probe checks.                                        *)
(***************************************************************************)
EXTENDS Naturals, Sequences, SequencesExt

CONSTANTS Reqs,       \* requests
          MaxFaults   \* dependencies that fail or come back while the process runs

ASSUME MaxFaultsAssumption == MaxFaults \in Nat

VARIABLES main,       \* which of the mains runs
          phase,      \* starting, wired, listening, closing, exited or dead
          step,       \* steps of the plan already taken
          armed,      \* the signal goroutine has called signal.Notify
          signalled,  \* SIGTERM arrived
          defers,     \* deferred closes, in the order of the defer statements
          open,       \* dependencies the process holds an open handle to
          up,         \* dependencies that answer
          natsConn,   \* the NATS client's connection
          worn,       \* the pool has connections that PostgreSQL no longer has
          nilReg,     \* a cache watches the nil registry
          req,        \* req[r]: the request's stage and its next dependency
          rows,       \* requests whose row is committed
          outbox,     \* requests whose event is in the NATS client's buffer
          events,     \* requests whose event reached NATS
          risked,     \* requests whose event met a connection that was not up
          faults      \* changes of up so far

vars == <<main, phase, step, armed, signalled, defers, open, up, natsConn, worn,
          nilReg, req, rows, outbox, events, risked, faults>>
proc  == <<main, phase, step, armed, signalled, defers, nilReg>>
links == <<open, natsConn, worn>>
sent  == <<outbox, events, risked>>
work  == <<req, rows, sent>>

-----------------------------------------------------------------------------
(* The mains.  A step connects to a dependency; a fatal one exits when it  *)
(* fails; a closed one defers the close of its handle.                     *)
Step(d, fatal, closed) == [dep |-> d, fatal |-> fatal, closed |-> closed]
Need(d)       == Step(d, TRUE, FALSE)
NeedClosed(d) == Step(d, TRUE, TRUE)
Try(d)        == Step(d, FALSE, FALSE)

\* The constructors, each of which reports one error for whatever fails in it:
\* the exporters, the connection, the stream, the bucket, the file.  The mains
\* open the PostgreSQL pool themselves and ping it.
otelInit          == Step("otel", FALSE, TRUE)
postgresNew       == NeedClosed("postgres")
natsNew           == NeedClosed("nats")
minioNew          == Need("minio")
redisNew(fatal)   == Step("redis", fatal, fatal)
NewStaticRegistry == Try("registry")

AuthService ==
  [plan |-> <<otelInit, postgresNew, Need("redis")>>,
   uses |-> <<"postgres", "redis">>, checks |-> {"postgres", "redis"}, typedNil |-> FALSE]

\* The registry variable is an interface: a failed NewStaticRegistry leaves a
\* nil pointer in it, which the caches' "reg != nil" does not see.
UserService ==
  [plan |-> <<otelInit, postgresNew, Need("redis"),
              natsNew, NewStaticRegistry>>,
   uses |-> <<"postgres", "nats">>, checks |-> {"postgres", "redis", "nats"},
   typedNil |-> TRUE]

CommunityService ==
  [plan |-> <<otelInit, postgresNew, Need("redis"),
              natsNew, NewStaticRegistry>>,
   uses |-> <<"postgres", "nats">>, checks |-> {"postgres", "redis", "nats"},
   typedNil |-> TRUE]

\* The subscriptions need NATS after it has been connected; NATS is not probed.
\* The RPCs use PostgreSQL only.  Redis is read by the subscriber alone, to which
\* an error means a user who is offline: it fails no request.
NotifyService ==
  [plan |-> <<otelInit, postgresNew, Need("redis"),
              natsNew, Need("nats")>>,
   uses |-> <<"postgres">>, checks |-> {"postgres", "redis"}, typedNil |-> FALSE]

FileService ==
  [plan |-> <<otelInit, postgresNew, minioNew>>,
   uses |-> <<"postgres", "minio">>, checks |-> {"postgres"}, typedNil |-> FALSE]

SearchService ==
  [plan |-> <<otelInit, postgresNew>>,
   uses |-> <<"postgres">>, checks |-> {"postgres"}, typedNil |-> FALSE]

WsGateway ==
  [plan |-> <<otelInit, NewStaticRegistry, redisNew(TRUE),
              natsNew, Need("nats")>>,
   uses |-> <<"redis", "nats">>, checks |-> {"redis", "nats"}, typedNil |-> FALSE]

\* Redis is optional: the presence handler tests its client for nil.
ApiGateway ==
  [plan |-> <<otelInit, NewStaticRegistry, redisNew(FALSE)>>,
   uses |-> <<>>, checks |-> {}, typedNil |-> FALSE]

Mains ==
  [auth |-> AuthService, user |-> UserService, community |-> CommunityService,
   notify |-> NotifyService, file |-> FileService, search |-> SearchService,
   ws |-> WsGateway, api |-> ApiGateway]

M == Mains[main]

Deps == {"otel", "postgres", "redis", "nats", "registry", "minio", "port"}

\* What this main depends on: only that is ever seen to fail.
Needed == {M.plan[i].dep : i \in 1..Len(M.plan)} \cup {"port"}

\* What os.Exit or the end of main does to the requests still at work.  A torn
\* request is one whose pool connection was lost under it.
Cut == [r \in Reqs |-> IF req[r].stage \in {"run", "hold", "torn"}
                       THEN [req[r] EXCEPT !.stage = "cut"] ELSE req[r]]

Finish(p) == phase' = p /\ req' = Cut /\ open' = {}
Die == Finish("dead")

Alive == phase \notin {"dead", "exited"}
Reaches(d) == d \in open /\ d \in up

-----------------------------------------------------------------------------
Init ==
  /\ main \in DOMAIN Mains
  /\ phase = "starting" /\ step = 0 /\ armed = FALSE /\ signalled = FALSE
  /\ defers = <<>> /\ open = {} /\ nilReg = FALSE
  /\ up \in {U \in SUBSET Deps : Deps \ Needed \subseteq U}
  /\ natsConn = "none" /\ worn = FALSE
  /\ req = [r \in Reqs |-> [stage |-> "none", at |-> 1]]
  /\ rows = {} /\ outbox = {} /\ events = {} /\ risked = {}
  /\ faults = 0

\* The dependency answers; a subscription needs the connection made before it.
Answers(s) == s.dep \in up /\ (s.dep = "nats" /\ ~s.closed => natsConn = "connected")

\* One step of the start: postgres.New, nats.New, minio.New and their like
\* ping the dependency; a failed fatal step is os.Exit(1), which runs no defer.
Connect ==
  /\ phase = "starting" /\ step < Len(M.plan)
  /\ LET s == M.plan[step + 1] IN
     \/ /\ Answers(s) \/ ~s.fatal
        /\ step' = step + 1
        /\ open' = IF Answers(s) THEN open \cup {s.dep} ELSE open
        /\ defers' = IF Answers(s) /\ s.closed THEN Append(defers, s.dep) ELSE defers
        /\ natsConn' = IF s = natsNew THEN "connected" ELSE natsConn
        /\ nilReg' = (nilReg \/ (s.dep = "registry" /\ ~Answers(s) /\ M.typedNil))
        /\ UNCHANGED <<phase, req>>
     \/ /\ ~Answers(s) /\ s.fatal
        /\ Die
        /\ UNCHANGED <<step, defers, natsConn, nilReg>>
  /\ UNCHANGED <<main, armed, signalled, up, worn, rows, sent, faults>>

\* The handlers are wired and the signal goroutine is started.
Wire ==
  /\ phase = "starting" /\ step = Len(M.plan)
  /\ phase' = "wired"
  /\ UNCHANGED <<main, step, armed, signalled, defers, nilReg, links, up, work, faults>>

Notify ==
  /\ phase \in {"wired", "listening"} /\ ~armed
  /\ armed' = TRUE
  /\ UNCHANGED <<main, phase, step, signalled, defers, nilReg, links, up, work, faults>>

Listen ==
  /\ phase = "wired"
  /\ \/ "port" \in up /\ phase' = "listening" /\ UNCHANGED <<req, open>>
     \/ "port" \notin up /\ Die
  /\ UNCHANGED <<main, step, armed, signalled, defers, nilReg, natsConn, worn, up,
                 rows, sent, faults>>

\* watchPeers calls Watch on the nil registry, which panics.
watchPeers ==
  /\ nilReg /\ phase \in {"wired", "listening", "closing"}
  /\ Die
  /\ UNCHANGED <<main, step, armed, signalled, defers, nilReg, natsConn, worn, up,
                 rows, sent, faults>>

-----------------------------------------------------------------------------
(* Requests.  One passes through the dependencies its handler uses; it     *)
(* holds a pool connection while its query runs.                           *)
Accept(r) ==
  /\ phase = "listening" /\ req[r].stage = "none"
  /\ req' = [req EXCEPT ![r].stage = "run"]
  /\ UNCHANGED <<proc, links, up, rows, sent, faults>>

\* A failure of PostgreSQL, Redis or MinIO fails the request; the event of a
\* write, and the ws-gateway's registry entry, are only logged.
Logged(d) == d = "nats" \/ main = "ws"

Past(r) == [req EXCEPT ![r] = [stage |-> "run", at |-> req[r].at + 1]]
Failed(r) == [req EXCEPT ![r].stage = "failed"]

\* The next dependency of the request's handler is d.
Meets(r, d) ==
  /\ Alive /\ req[r].stage = "run" /\ req[r].at <= Len(M.uses)
  /\ M.uses[req[r].at] = d

\* The pool lends a connection until it is closed.  After PostgreSQL was down
\* it may be one that PostgreSQL no longer knows.
Acquire(r) ==
  /\ Meets(r, "postgres")
  /\ \/ Reaches("postgres") /\ req' = [req EXCEPT ![r].stage = "hold"]
     \/ Reaches("postgres") /\ worn /\ req' = [req EXCEPT ![r].stage = "torn"]
     \/ ~Reaches("postgres") /\ req' = Failed(r)
  /\ UNCHANGED <<proc, links, up, rows, sent, faults>>

\* A query whose connection is never given back.
QueryLeaks(r) ==
  /\ Alive /\ req[r].stage = "hold"
  /\ rows' = rows \cup {r}
  /\ UNCHANGED <<proc, links, up, req, sent, faults>>

\* The query ends and the connection goes back to the pool.  One whose
\* connection was lost fails, whether PostgreSQL is back or not, and whether
\* its statement was committed or not.
Query(r) ==
  /\ Alive
  /\ \/ /\ req[r].stage = "hold"
        /\ req' = Past(r) /\ rows' = rows \cup {r}
     \/ /\ req[r].stage = "torn"
        /\ req' = Failed(r) /\ rows' \in {rows, rows \cup {r}}
  /\ UNCHANGED <<proc, links, up, sent, faults>>

\* Redis or MinIO.
Use(r) ==
  /\ \E d \in {"redis", "minio"} :
       /\ Meets(r, d)
       /\ req' = IF Reaches(d) \/ Logged(d) THEN Past(r) ELSE Failed(r)
  /\ UNCHANGED <<proc, links, up, rows, sent, faults>>

\* The NATS client has been made and has not been closed.
Linked == natsConn \in {"connected", "broken", "reconnecting"}

\* The event of a write goes to the NATS client, which buffers it; while it
\* reconnects it refuses it when the buffer is full, and once it is closed it
\* refuses it always.  The handler logs the error and goes on.
Publish(r) ==
  /\ Meets(r, "nats")
  /\ req' = Past(r)
  /\ \/ Linked /\ outbox' = outbox \cup {r}
     \/ natsConn \in {"reconnecting", "closed"} /\ outbox' = outbox
  /\ risked' = IF natsConn = "connected" THEN risked ELSE risked \cup {r}
  /\ UNCHANGED <<proc, links, up, rows, events, faults>>

Respond(r) ==
  /\ Alive /\ req[r].stage = "run" /\ req[r].at > Len(M.uses)
  /\ req' = [req EXCEPT ![r].stage = "ok"]
  /\ UNCHANGED <<proc, links, up, rows, sent, faults>>

\* One check passing is taken for readiness.
SomeCheckPasses == \E d \in M.checks : Reaches(d)

\* ReadyHandler: every registered check passes.  Of NATS it asks the client,
\* which does not know of a broken socket until it meets it.
Ready == \A d \in M.checks :
           IF d = "nats" THEN natsConn \in {"connected", "broken"} ELSE Reaches(d)

-----------------------------------------------------------------------------
(* The NATS client.  Its flusher writes the buffer to the socket.  It finds *)
(* a broken socket when it reads or writes it: what it wrote meanwhile is  *)
(* gone, the rest it keeps for the next connection.  It reconnects by      *)
(* itself, and gives up after sixty attempts.                              *)
Flush ==
  /\ Alive /\ outbox # {} /\ natsConn = "connected"
  /\ events' = events \cup outbox /\ outbox' = {}
  /\ UNCHANGED <<proc, links, up, req, rows, risked, faults>>

Lose ==
  /\ Alive /\ natsConn = "broken"
  /\ natsConn' = "reconnecting" /\ outbox' \in SUBSET outbox
  /\ UNCHANGED <<proc, open, worn, up, req, rows, events, risked, faults>>

Reconnect ==
  /\ Alive /\ natsConn = "reconnecting" /\ "nats" \in up
  /\ natsConn' = "connected"
  /\ UNCHANGED <<proc, open, worn, up, work, faults>>

GiveUp ==
  /\ Alive /\ natsConn = "reconnecting" /\ "nats" \notin up
  /\ natsConn' = "closed" /\ outbox' = {}
  /\ UNCHANGED <<proc, open, worn, up, req, rows, events, risked, faults>>

Client == Flush \/ Lose \/ Reconnect \/ GiveUp

\* Conn.Close writes the buffer to the socket, where there is one.
CloseNats ==
  /\ events' = IF natsConn = "connected" THEN events \cup outbox ELSE events
  /\ outbox' = {} /\ natsConn' = "closed"

-----------------------------------------------------------------------------
(* The end.  Before signal.Notify a signal kills.  After it, Shutdown      *)
(* closes the listener, at which ListenAndServe returns in main at once:   *)
(* main does not wait for Shutdown, runs its deferred closes and ends.     *)
Signal ==
  /\ Alive /\ ~signalled
  /\ signalled' = TRUE
  /\ \/ ~armed /\ Die
     \/ armed /\ UNCHANGED <<phase, req, open>>
  /\ UNCHANGED <<main, step, armed, defers, nilReg, natsConn, worn, up, rows, sent, faults>>

Shutdown ==
  /\ signalled /\ phase \in {"wired", "listening"}
  /\ phase' = "closing"
  /\ UNCHANGED <<main, step, armed, signalled, defers, nilReg, links, up, work, faults>>

\* The ws-gateway's signal goroutine closes NATS and Redis itself as well.
CloseBoth ==
  /\ main = "ws" /\ phase = "closing" /\ {"redis", "nats"} \cap open # {}
  /\ open' = open \ {"redis", "nats"}
  /\ CloseNats
  /\ UNCHANGED <<proc, worn, up, req, rows, risked, faults>>

\* The handle that main opened last is closed first; the pool waits for the
\* connections that are lent.
Idle(d) == d = "postgres" => \A r \in Reqs : req[r].stage \notin {"hold", "torn"}

\* A NATS connection that is dropped with its buffer.
CloseUnflushed ==
  /\ phase = "closing" /\ defers # <<>>
  /\ LET d == Last(defers) IN
     /\ Idle(d)
     /\ open' = open \ {d}
     /\ IF d = "nats" THEN events' = events /\ outbox' = {} /\ natsConn' = "closed"
                      ELSE UNCHANGED <<events, outbox, natsConn>>
  /\ defers' = Front(defers)
  /\ UNCHANGED <<main, phase, step, armed, signalled, nilReg, worn, up, req, rows,
                 risked, faults>>

\* One deferred close of main.
Close ==
  /\ phase = "closing" /\ defers # <<>>
  /\ LET d == Last(defers) IN
     /\ Idle(d)
     /\ open' = open \ {d}
     /\ IF d = "nats" THEN CloseNats ELSE UNCHANGED <<events, outbox, natsConn>>
  /\ defers' = Front(defers)
  /\ UNCHANGED <<main, phase, step, armed, signalled, nilReg, worn, up, req, rows,
                 risked, faults>>

Return ==
  /\ phase = "closing" /\ defers = <<>>
  /\ Finish("exited")
  /\ UNCHANGED <<main, step, armed, signalled, defers, nilReg, natsConn, worn, up,
                 rows, sent, faults>>

\* A dependency fails or comes back while the process runs.  With it go the
\* connections to it: those of the pool, lent or not, and the one to NATS,
\* with what is buffered for it at risk.
Flip(d) ==
  /\ faults < MaxFaults /\ Alive
  /\ faults' = faults + 1
  /\ up' = IF d \in up THEN up \ {d} ELSE up \cup {d}
  /\ worn' = (worn \/ (d = "postgres" /\ Reaches(d)))
  /\ req' = [r \in Reqs |-> IF d = "postgres" /\ req[r].stage = "hold"
                            THEN [req[r] EXCEPT !.stage = "torn"] ELSE req[r]]
  /\ \/ /\ d = "nats" /\ natsConn = "connected"
        /\ natsConn' = "broken" /\ risked' = risked \cup outbox
     \/ ~(d = "nats" /\ natsConn = "connected") /\ UNCHANGED <<natsConn, risked>>
  /\ UNCHANGED <<proc, open, rows, outbox, events>>

Begin == Connect \/ Wire \/ Listen \/ Notify
Stop  == Shutdown \/ CloseBoth \/ Close \/ Return
Serve(r) == Acquire(r) \/ Query(r) \/ Use(r) \/ Publish(r) \/ Respond(r)

Next ==
  \/ Begin \/ watchPeers \/ Client \/ Signal \/ Stop
  \/ \E r \in Reqs : Accept(r) \/ Serve(r)
  \/ \E d \in Needed : Flip(d)

Spec == Init /\ [][Next]_vars

\* Goroutines run, and a query ends: with a row, or with an error.
FairSpec ==
  /\ Spec /\ WF_vars(Begin) /\ WF_vars(Stop) /\ WF_vars(watchPeers)
  /\ \A r \in Reqs : WF_vars(Serve(r))

-----------------------------------------------------------------------------
(* Properties *)

\* The event of a committed row whose request was answered is in NATS or in
\* the client's buffer, and a process that ends by its deferred closes leaves
\* nothing in the buffer: an event is only ever missing where the process died,
\* or where the connection to NATS was not up when the event was published or
\* broke while it was buffered.  That takes a fault of NATS or a signal: the
\* deferred closes shut NATS before the pool, so a write that the pool still
\* serves goes unannounced.
RowIsAnnounced ==
  /\ \A r \in rows : req[r].stage = "ok" /\ "nats" \in Range(M.uses) =>
       r \in outbox \cup events \cup risked \/ phase = "dead"
  /\ phase = "exited" => outbox = {}
  /\ risked # {} => faults > 0 \/ signalled

\* A request fails while /readyz says that a dependency is down, with two
\* exceptions: the object store, which no check covers, and a pool connection
\* that was lost since it was dialled, which fails its query although
\* PostgreSQL, and /readyz with it, may be back.
FailuresAreReported ==
  [][\A r \in Reqs : req[r].stage # "failed" /\ req'[r].stage = "failed" =>
       \/ ~Ready
       \/ worn /\ req[r].stage = "torn"
       \/ main = "file" /\ ~Reaches("minio")]_vars

\* A signalled process ends, whatever its requests were doing.
SignalledExits == signalled ~> ~Alive
=============================================================================
