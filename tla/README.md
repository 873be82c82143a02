# Verification of Constell

Constell is a Discord-like chat system: Go micro-services behind an HTTP API
gateway and a WebSocket gateway, PostgreSQL for data, Redis for the connection
registry and refresh tokens, NATS (core and JetStream) for events, a TypeScript
SDK and a React web client.  This directory holds TLA+ models of the parts that
carry its own logic, the TLC configurations that check them, and proofs that
TLAPS checks.  Paths below are relative to the repository root.

## Inventory

| component | state | operations | interacts with |
|---|---|---|---|
| ws-gateway (`backend/services/ws-gateway`) | `ConnManager.conns` (one entry per user and process), SubscribedChannels, sockets, read deadlines | HandleUpgrade, readPump, heartbeat, subscribe, cleanupDisconnect, DeliverToLocal, shutdown | Redis `ws:uid:<user>` (TTL 5 min), NATS `constell.user.*`, `gw.push.<gw>`, RPC to user and community services |
| notify-service | read cursors `last_read_seq` in PostgreSQL; four durable JetStream consumers | MarkRead, AdvanceRead, GetUnread, handle{DM,Message}Created, presence pushes | JetStream stream `constell` (MaxAge 1 h), Redis registry, `gw.push.<gw>` |
| community-service | communities, channels, members, roles, messages; three LRU caches per process | create, update, delete, join, leave, kick, send, edit, delete message, history | publishes `constell.message.created`, `member.*` |
| user-service | users, relations, DM conversations and messages; two caches | profile, SendDM, history, conversations | publishes `constell.dm.created` |
| auth-service | users; refresh tokens in Redis | Register, Login, RefreshToken | Redis |
| api-gateway | none | one REST handler per RPC | all services |
| file-service, search-service | file metadata and objects; search vectors | upload, multipart, thumbnails; full text search | MinIO, PostgreSQL |
| pkg/groupcache, registry, nats, jwt, middleware | LRU, singleflight, peers | Get, Set, Remove, watchPeers | community and user services |
| SDK (`sdk/sdk-js`) | WSManager (socket, timers, pending acks), AuthManager (tokens, refresh promise), REST client | connect, disconnect, reconnect, sendWithAck, refresh | gateways |
| web client (`clients/web`) | message, sync, unread, community stores | push handling, optimistic send and retry, backfill, history, badges | SDK |

What is hard in it:

* *Connections.* Goroutines of several connections of one user interleave, on one
  gateway or on several, over two shared maps (the connection table and the
  registry) that are keyed by user and not by connection.  Gateways stop without
  cleanup; Redis and NATS calls fail and are only logged.
* *Messages.* A seq is assigned at INSERT and visible at commit; the event is a
  fire-and-forget publish into an at-least-once consumer that issues
  at-most-once pushes; cursors only ever move forward.
* *Caches.* A fill that read the database before a write may store its value
  after the invalidation; invalidation is local to one process; nothing expires.
* *Client.* Two sources of messages (push, backfill), optimistic copies,
  retries after an ack timeout, reconnects during an await, token refreshes
  shared by concurrent requests.

Correctness, per component: tables and registry entries are always backed by a
connection and heal; read cursors are anchored, monotonic and moved
by nobody but their user; pushes follow every event; a removed member cannot send; pages
cover a list exactly once; a refresh token is used once; the client view
converges to the server's.

## Plan and status

| step | module | status |
|---|---|---|
| 1 | `WsGateway` with `GatewayProofs` | checked, proved |
| 2 | `MessagePipeline` with `MessagePipelineProofs` | checked, proved |
| 3 | `Community` with `CommunityProofs`: membership, roles, caches and their fills | checked, proved |
| 4 | `ApiGateway` with `GatewayProofs`: every route, from the request to the status | checked, proved |
| 5 | `Sessions` with `SessionsProofs`: the SDK's auth manager, auth-service and its tokens | checked, proved |
| 6 | `Process` with `ProcessProofs`: start, readiness and end of the eight services | checked, proved |
| 7 | `Listings` over `Paging`, with `ReadProofs`: keyset pages, parallel search | checked, proved |
| 8 | `GroupCache` with `ReadProofs`, and the abstract `ReadThrough` it implements | checked, with one finding; refinement proved |
| 9 | `Files` with `FilesProofs`: table and bucket of file-service | checked, proved |
| 10 | `DirectMessages` with `DirectMessagesProofs`: blocks, first messages, retries | checked, proved |
| 11 | `MessageSync` over `Paging`, with `ReadProofs`: what a tab shows of a conversation | checked, proved |

Every safety property of the passing runs is now a theorem but `LruOrder` of
`GroupCache`; what cannot be proved here is listed at the end of the section on
proofs.  Still open: the parts under "Not modelled", above all the SDK's connection
manager and the optimistic copies of messages being sent.

## Modules

### WsGateway

One process per connection `c`: `pc[c]` walks through `HandleUpgrade`
(`set`, `online`), `readPump` (`read`, `hbset`) and `cleanupDisconnect`
(`unreg`, `del`, `offline`).  Each Redis or NATS call is a step, since other
goroutines run between them; the critical sections of `ConnManager` are atomic.

| TLA+ | code |
|---|---|
| `conns`, `subs` | `ConnManager.conns`, `SubscribedChannels` |
| `registry`, `Expire` | Redis `ws:uid:<user>` and its TTL |
| `announced` | last of `constell.user.online` / `.offline` published |
| `Upgrade`, `UpgradeRegister`, `BroadcastOnline` | `HandleUpgrade` |
| `Heartbeat`, `HeartbeatRegister`, `RouteSubscribe`, `RouteUnsubscribe`, `PumpReturns` | `readPump`, `Router` |
| `PeerGone` | close, network loss, or the read deadline |
| `Unregister`, `UnregisterConnection`, `BroadcastOffline` | `cleanupDisconnect` |
| `Stop`, `Restart` | crash or SIGTERM; start |

`fresh[c]` says that the last SET of `c` succeeded; `orphaned` and `muted` are
history variables that name the failures a property excuses.  The TTL is modelled
by its effect: a key cannot expire while a goroutine whose last SET succeeded runs,
because such a goroutine set it at most two heartbeat intervals (60 s) ago and the
TTL is 300 s.

Run: `gateway` (one user, three connections, two gateways, one fault, a channel)
checks that table entries, registry keys and announcements are backed by a
goroutine that will still clean them up, and that the registry heals and forgets.
Three connections are what the races need: an old one, the one that replaced it,
and a stale cleanup that meets a third.  Every map is keyed by user, so users do
not meet; the proofs hold for any number of them.

Fairness: goroutines are scheduled and a client with an open socket heartbeats
(`Pump`), Redis expires keys (`Expire`).  Nothing is assumed about clients
connecting, closing, or gateways restarting.

### MessagePipeline

One scope, a channel or a DM conversation (two members, nothing deleted).

| TLA+ | code |
|---|---|
| `row`, `from` | `channel_messages` / `dm_messages`; `pending` between INSERT and commit |
| `Insert`, `Commit`, `Publish`, `Delete` | `SendMessage` / `SendDM`, `publish*Created`, `DeleteMessage` |
| `MarkRead`, `AdvanceRead`, `Unread` | `Store.Mark*Read`, `Store.Advance*Read`, `Store.GetUnread*` |
| `stream`, `Receive`, `Ack`, `Crash` | the durable consumer and its redelivery |
| `Advance`, `PushToUser` | `handleMessageCreated`, `handleDMCreated`, `pushToUser` |
| `pushes`, `Deliver`, `DropPush` | `gw.push.<gw>`, `DeliverToLocal` |
| `RegistryMove`, `TableMove` | what `WsGateway` does, arbitrary here |

Runs: `pipeline_safety` (two members, three messages, a crash or failed call, a
lost event) checks the cursors and the unread counts that follow from them; `pipeline_live` (three members, one gateway, a
crash, a loss, a move) that events are handled and that an acknowledged event was
pushed.  Three messages allow a late commit below two later ones; three members
put two recipients on one gateway.

`UnreadIsExact` says what a count leaves out: what its user marked (`marks[u]`, the rows
in the table when a mark of `u` executed), what it wrote over, and rows in `late`.  It says
nothing of what a client had on its screen, and neither does the server know: the web
client marks a channel as read when it opens it, before its messages are loaded
(`ChannelView.tsx:45`), and again at every push, and a mark takes all that is there.
`OwnMessageRead` excuses the messages in `unmarked`, whose event was lost or whose advance
failed: the handler logs that error and acknowledges, so the advance is not made up for.

Fairness: the subscriber runs, JetStream redelivers, the gateways drain their
subject.  Senders, readers and faults are not fair.

### Community

One community and its rows in PostgreSQL, several processes of community-service
with two caches each, and requests that a process handles.  `pc[r]` is the next
call of the handler of `r`, or its outcome.  Every statement and every cache
operation is a step: no handler opens a transaction.

| TLA+ | code |
|---|---|
| `community`, `members`, `role`, `assigned`, `channels` | `communities`, `community_members`, the `@everyone` role, `member_roles`, `channels` |
| `cache`, `waiters`, `fetched` | the LRU entry, the callers of the singleflight call, what its filler has read |
| `Hit`, `Miss`, `Fill`, `FillFails`, `Add`, `Resume` | `groupcache.Cache.Get` |
| `GetChannel`, `AfterMembers`, `AfterCommunity`, `CheckPermission`, `Access` | `SendMessage`, `GetMessages`, `checkPermission` |
| `JoinPublic` ... `JoinRole` | `JoinCommunity`, `AddMember`, `AssignRole` |
| `Remove`, `RemoveInvalidate` | `LeaveCommunity`, `KickMember` |
| `CreateRow` ... `CreateSet` | `CreateCommunity` |
| `Update*`, `CreateChannel`, `DeleteChannel`, `Delete*` | the owner's calls |
| `DatabaseError`, `Crash` | a failing statement; a process that dies |

`present`, `behind` and `roleless` are history variables.  `present[r]`: the user
of `r` was a member at some moment since it arrived.  `behind`: processes that
hold a list which no invalidation under way will reach.  `roleless`: members whose
assignment failed or was cut off.  Of the community row only `owner_id` matters
here, so the cached value is the owner.  A kick by someone who is not the owner
reads the row a second time in `checkPermission`; the two reads are one, as they
give the same owner.  Channels past the bound are not followed.  The member events
that join, leave and kick publish have no consumer and are left out.  A statement
that fails after it took effect is not modelled.  The cache is taken to be sound: that its
list may lose its lock is `GroupCache`'s finding, and `RequestsEnd` holds short of it.
`MembersHaveRole` excuses the members in `roleless`, whose assignment failed.

Run: `community` (two users, two processes, any two requests of all ten kinds, one
fault) checks who may post, which lists are stale, creation and deletion under way
while others join, and that all requests end.  `Warm` names the processes that
have served the member list before the two requests arrive: with a list cached on
one of them, a kick on the other and a later send are enough for the case in
which a removed member meets a stale list.

Fairness: goroutines are scheduled and database calls return (`Handle`, `Flight`).
Requests need not arrive and faults need not happen.

### ApiGateway

A handler of api-gateway is a record: the parameters it refuses to miss, the body
fields it requires, the defaults of its query parameters, the RPC it calls and the
parameter each field of the RPC comes from.  `Routes` is the table of
`registerRoutes`.  The value of a parameter is its own name, white space or
nothing, so the ledger of what a service wrote shows where a value came from.

| TLA+ | code |
|---|---|
| `ListCommunities` ... `GetPresence` | the methods of the handlers |
| `Refuses`, `RpcRequest`, `FromQuery` | their checks, the RPC request, `int32FromQuery` |
| `jwtAuthMiddleware`, `AuthInterceptor`, `ParseToken` | the token is checked by the gateway and again by the service |
| `Finish`, `mapConnectCode`, `Answer` | `writeConnectError`, `writeJSON` |
| `Deadline`, `HangUp`, `Unreachable` | `middleware.Timeout`, the client, the transport |
| `Refuse`, `Serve`, `FailLate` | what a service may do with a call; a service that writes more than once may fail after the first write |

Run `api` takes every route with every combination of parameters, a token that may
expire on the way and a service that may hang.  Calls share only the set of
expired tokens, so one call is enough.  `AnswerTellsEffect`: a 2xx was carried out, a 4xx
was not and will not be, except for 408.  `NamedRowIsWritten` lists the two handlers
that do not pass on what they ask for (as `NotPassedOn`): `AddMember` drops `user_id` (the caller
joins), `UpdateProfile` ignores the id in the path.  Nothing is assumed of the
services, which may hang, and no fairness is needed.

### Sessions

The SDK's `AuthManager` in tabs that share a browser's storage, and
`Register`, `Login` and `RefreshToken` of auth-service with the tokens in Redis.

| TLA+ | code |
|---|---|
| `store`, `promise` | localStorage, `refreshPromise` |
| `GetValidToken`, `StillFresh`, `Joined`, `Wake`, `SettleRefresh` | `getValidToken`, `refresh` |
| `caller`, `call` | the API calls of a tab, several of which may wait for one refresh |
| `LogIn`, `SettleLogin`, `LogOut`, `StoreTokens` | `login`, `register`, `logout`, `storeTokens` |
| `Post`, `CutOff` | `doFetch`; a network error keeps the tokens, any HTTP error clears them |
| `LookUp`, `Rotate`, `Mint` | `RefreshToken`: GET, DEL, then SET of a new pair |
| `CheckPassword`, `CheckEmail`, `CreateUser` | `Login`, `Register` |

A token has no random part: two pairs minted for one user in one second are the
same pair, and the model has them so.  The four delays are scaled down to 1, 1, 3
and 4; `DelayAssumption` keeps their order, which is all that the properties use.  Two
tabs in one browser share a token; two browsers log in as one user.
`TokenIsRedeemable` says that a stored token does not go bad by itself: it can be redeemed
until it expires or was presented before.  A browser may still lose a good one: an error of
Redis at the GET is a 500 (`auth-service/service.go:174`), and `refresh` clears the store at
every answer that is not a success (`auth.ts:264`).  `AwaitedIsPending` is about the shared
refresh: two calls of one tab may join it, and both are woken.  `NoStaleCall` rests on
`Tick`, which lets no call be under way longer than `RequestTime`; that is the gateway's
timeout, and the SDK's `fetch` has none.  The run bounds visits and faults together
(`FewEvents` in `MCSessions`) to keep two calls within reach; the theorems do not.  `StoredUserIsLast` excuses browsers in `crossed`, where a
refresh was in flight across a login or a logout; a logout sets `last` to nobody, so
the property also says that a session does not come back after one.

### Process

The `main` of the eight services is a record: its connections in order (fatal or
not, closed by a `defer` or not), what its handlers use, what `/readyz` checks.

| TLA+ | code |
|---|---|
| `otelInit`, `natsNew`, `minioNew`, `redisNew`, `NewStaticRegistry` | constructors of `backend/pkg` |
| `postgresNew` | the pool that each main opens and pings by itself |
| `Connect`, `Wire`, `Listen` | the start; `os.Exit(1)` on a fatal failure |
| `Notify`, `Signal`, `Shutdown`, `Close`, `CloseBoth`, `Return` | the signal goroutine, the deferred closes, last first |
| `watchPeers` | panics on a nil registry in a non-nil interface |
| `Acquire`, `Query`, `Use`, `Publish`, `Respond` | a request and its dependencies |
| `natsConn`, `Flush`, `Lose`, `Reconnect`, `GiveUp`, `CloseNats` | the NATS client (external) |
| `Ready` | `ReadyHandler` |

The NATS client is that of `nats.Connect(cfg.URL)` without options: it buffers what is
published and flushes it, does not know of a broken socket until it meets it and loses what
it had written to it, reconnects, refuses what does not fit its buffer meanwhile, and after
sixty attempts closes for good.  `risked` collects the events that met any of this.  When
PostgreSQL goes, so do the connections of the pool (`worn`): a request that holds one
(`torn`), or is lent one later, fails even if PostgreSQL is back, its statement committed or
not.

Run `process` starts each main with every set of reachable dependencies; two changes of what
is up may come at any time, so that one goes and comes back, and a signal may come at any
time.  `RowIsAnnounced`: the event of an answered write is missing only where the process
died or the NATS connection was not up, which takes a fault of NATS or a signal; the signal
is enough because main closes NATS before the pool, under requests that still write.
`FailuresAreReported`: a request fails while `/readyz` fails, but for MinIO, which nothing
probes, and for a lost pool connection.  `SignalledExits`: the pool's close waits for lent
connections only.  A failed `NewStaticRegistry` leaves a nil pointer in a non-nil interface
and `watchPeers` panics on it, maybe under requests: the model has the step, and no property
claims that it does not happen.  Fairness: goroutines run, queries end.

### Paging and Listings

Reads of many rows.  A row is its sort key and a page is a set of keys, in the order
of its query.  `Paging` has the queries and handlers of message history, which
`Listings` and `MessageSync` both read, and what all queries share: `FirstRows` is
`LIMIT`, `Behind` the condition on the cursor, `Page` the cut at the peek row, `Short`
a query that breaks off, which nobody notices since `rows.Err()` is not read.
`Listings` adds the queries of the other lists (`ListFriends`, ...), the default
limits of the handlers (`FriendsRpc`, ...), a client that scrolls with the cursor
(`Open`, `NextPage`) and the search (`Start`, `SearchPart`, `SearchReturns`), while
rows come and go and an INSERT takes its key before it commits.

Run `reads` (four keys, pages of two or of the default size) checks that a scroll
gets what was there all along, and no row twice (`twice` keeps the rows that came
again), and that the parts of a search agree.  The four queries of a search have a snapshot
each: `SearchPartsAgree` relates them to each other and to the membership and the rows
during the search (`switched`, `mayRead`, `base`), up to the limit, whose choice by relevance
is left open (`Relevant`).  The gateway passes no cursor to most of the lists, so the scroll
is that of a client of the RPCs.  `GetDMConversations` is modelled as it is and left
out of `ScrollIsComplete`: its cursor binds one side of an `OR` and is the first row of
the next page.

### MessageSync

The messages one tab shows of one DM or channel.  A message is its seq.  JavaScript
runs one callback at a time, but every REST call is awaited, so a call is three steps:
it is sent with the cursor of that moment, the service reads the table, the answer is
applied to a store that may have moved on.

| TLA+ | code |
|---|---|
| `view`, `loaded` | the scope's list in `messagesStore`, and whether it has one |
| `mark`, `Advance`, `Reload` | the cursor of `syncStore`, kept in localStorage |
| `BackfillAll`, `Polled`, `MergeBackfill` | `useMessageSync` |
| `LoadHistory`, `SetHistory` | `loadHistory` of `MessageList` |
| `LoadMore`, `PrependOlder` | `handleScroll`; `have` is the list its closure keeps |
| `AppendMessage` | `onChannelMessage`, `onDMReceived`, the ack of an own message |
| `RemoveMessage` | `handleDelete` |
| `TakeSeq`, `CommitSeq`, `DeleteMessage` | the table |

Three history variables say what the view claims.  From `lowest` to the cursor it has
every committed message, but for `missed`, which were in flight when the page around
them was read, and `overtaken`, which came while a history request was out, whose
answer overwrites the list.  A message leaves `overtaken` when it is in the view and no
history request is out.  `lowest` moves as follows: a load starts the claim at its
oldest message; a poll with cursor 0 gets the newest page and not the oldest, so the
claim starts no lower than that page; an empty load claims nothing.

Run `reads` checks it beside `Listings` (`MCReads`: a behaviour is that of a client of lists
or that of a tab, and they share nothing), with two seqs, one poll and one history request
out at a time, pages of one, a call that fails or breaks off and a reload.  Two seqs are
enough for a commit behind a page that was read and for an answer that overwrites a newer
message; batches that end below the newest message need three, and are left to the theorem.
`ViewHasNoHole` is the safety of the view, `BackfillConverges` says that polling brings all
the rest.  Fairness: the poll timer fires and its calls end (`Poll`); pushes, scrolling and
commits need not happen.

### GroupCache and ReadThrough

`groupcache.Cache` of one node: the map and the pointers of `container/list`, the
RWMutex, the singleflight group, the filler, and the handlers that write the table
and then drop (`UpdateProfile`) or set (`CreateCommunity`) the entry.  A hit moves
its element under the read lock, so a move is six pointer writes that interleave
with those of another hit.

`ReadThrough` is what a caller may rely on: an answer is a version that was
committed when it was loaded, and a version that was dropped is not served again.
It promises nothing about how long a superseded version is served, and neither does
the code.  `Servable` is the refinement mapping: the entry, and what a flight or a
`Set` has in its hands.

Run `cache` (two goroutines, three keys, capacity two, three versions) checks the LRU order as
long as hits do not overlap, that no waiter loses its leader, that a stale entry
has a cause, and the refinement.  After the first overlap of two moves the rest are taken whole, a
bound that keeps the pointer graphs few.  The loop of `Add` that makes room is an action of
its own (`Evict`, one round), with the write lock held.  A panic in it ends a `Get` with the
lock taken, since `Get` unlocks without a `defer`, and a `Set` with the lock free and one
entry too many, since `Set` defers; so `LruOrder` bounds the entries by the capacity only
while no hits have overlapped, and after that only says that map and list have the same
entries.  What `WaitersHaveLeader` says of a jammed cache is that the leader is still to end
the flight, not that it can.  Run `cache_eviction` is the project's one violation: two
overlapping hits corrupt the list, and the eviction of a later `Add` panics or loops with the
write lock taken, against the comment of `Add`.

### Files

`file_metadata`, the bucket's objects and multipart uploads, and the six RPCs as
their calls in order; any call may fail, with or without having taken effect, and the
process may die between two.  `excused` collects pairs of a file and a gap: each failure
excuses just the gap it can leave, such as `empty` (a ready row without its object) for an
upload cut off between the two or for the delete of a file that a message refers to (its
objects go first, then the foreign key refuses), and `orphan` (an object without a ready row)
for a completion whose answer or status was lost.  Only a delete that meets an upload excuses
all of them.  Run `files` (one file, two requests at a time, two uploads, one fault) checks
that nothing else parts table and bucket (`StorageAgrees`) and that answers are true when
given (`AnswersAreTrue`), on files with earlier faults too.

### DirectMessages

`SendDM` and `GetDMHistory` with the relation cache, which remembers "no relation"
and is never invalidated (`flight` is what a filler has read and not yet cached; who asks
meanwhile waits for it, as in singleflight), `GetOrCreateConversation` as a SELECT and an INSERT on a
unique pair, the message, its attachments and its event, and clients that send again
what was not accepted.  Run `dms` (both directions and a message to oneself, one
change of relation, one fault) checks `DuplicateIsExplained`, `BlockHolds` and
`RetriesSucceed`.  `unsure[m]` counts the attempts whose outcome the sender was not
told; `moved[n]` collects the relations that have changed since node `n` read them:
they are the only ones past whose block `n` lets a message.  One node suffices for the races of the tables; a second one
would only have a cache of its own, which `ChangeRelation` does not reach either.
Fairness: handlers run, and a client that was not answered tries again (strongly
fair, since both request slots may be busy at times).

## Where code and documents disagree

The finding in `PROJECT.json` is shown by a run.  The models also reach these, which
no property claims away:

* `docs/design/features/50-realtime.md` calls Redis the truth of presence; the cleanup
  of an older connection deletes the key of a newer one until its next heartbeat.
* The same document promises delivery within five seconds; closing the newer of two
  connections of one user leaves the older one open and without pushes.
* `notify-service/store.go:26` calls unread counts derivable and self-healing; a
  mark-read between the INSERT and the commit of a message hides it for good.
* UNREAD-1 counts messages; with two recipients on one gateway each gets every push
  twice, and the badge counts pushes.
* The architecture document says that writes are naturally consistent with the
  caches; a fill that overtakes an invalidation stays.
* A member behind the first 1000 of a community is told that it is not a member.
* `rows.Err()` is not read: a query that breaks off is a short last page, which the
  client cannot tell from the end.
* `auth.ts:261` keeps the session on anything but a 4xx; a 5xx clears it too.
* `user-service/repository.go:303` says that older conversations than the cursor are
  returned; those in which the caller is `user_a` are returned on every page.
* `useMessageSync.ts:10` says that it "guarantees the client view converges to server
  truth"; a message that commits behind the cursor, or that a history answer takes
  from the list, is asked for by no later poll (`BackfillConverges` has to except both).
* `MessageList.tsx:227` says "Prepend older messages"; the request has no cursor, so it
  gets the newest page again.

## Proofs

A proof module may cover several components; those it extends have distinct names
(`ApiSpec`, `ListSpec`, `SyncSpec`, ...) for that reason.

`GatewayProofs` proves, of `WsGateway`, `TypeOK`, `EntryIsServed`, `RegistryBacked` and
`OnlineBacked` for any users, gateways, connections and any bound on faults, from
`NoneAssumption` and `FaultsAssumption` only.  The inductive invariant adds `Placed`:
a connection past `idle` has an owner and a gateway.  Without it the steps of a
goroutine could not be tied to an index of the tables.

Of `ApiGateway` it proves `AnswerTellsEffect` and `NamedRowIsWritten` for any calls and
users.  `Flow` says for each stage of a call what the service may have done and which
reply or status it leads to; it is what ties a 4xx to a service that never began.  The
ledger keeps what was written (`EntriesInv`): each entry is the request a handler made of
a call that it did not refuse.  `RoutesSound` goes through the handlers once: a parameter
that names a row is required and passed on, but for `NotPassedOn`.

`MessagePipelineProofs` proves `TypeOK`, `CursorAnchored`, `OwnMessageRead` and
`UnreadIsExact` for any members, messages and faults.  The strengthening
has these parts: `Authored` (a row has an author exactly when it was inserted),
`Ordered` (an event exists only for a visible row, and the handler holds an event
of the stream), and `Advanced` (past the advance, the author's cursor covers the
message or the advance failed), which is what an `Ack` needs to take the event out
of the stream; `MarksHold` (a cursor covers what was there at a mark, deleted since or
not) and `ReadExplained` (what is under a cursor has a mark, a late commit or a published
message of the same user), from which `UnreadIsExact` follows; `CursorAnchored` is what makes
a row that commits under a cursor a late one.

`CommunityProofs` proves `TypeOK`, `RemovedCannotPost`, `MembersHaveRole`,
`StaleListExplained` and the action property `OwnerStays` for any users, processes,
requests, channels, page size and faults, from `CommunityAssumption`.  What the
invariant adds, and why:

* `Placed`: a request has a call, and waits in at most the singleflight call it is at;
* `CreatedOnce`: the row is inserted before anyone else arrives, so a community never
  comes back from `gone`;
* `OwnerKnown`: a cached row names the owner, so only the owner passes
  `checkPermission` without a role, and the target of a removal is never the owner;
* `RolesAndPresence`: a role belongs to a member and a running request of a member is
  `present`, so whoever `ListMemberRoles` lets through is `present`;
* `OwnerListed` and `Checked`: the owner needs no role, so for the owner it is the
  list that has to be right: one that names the owner was read while the owner
  was a member, which lasts until the deletion;
* `FetchExplained`: what `StaleListExplained` says of the list in flight, without
  which `Add` could cache one that nothing explains.

`Community`'s `Warm` changes nothing in the argument: a list cached at the start is the
list of the members at the start, so `InitIInv` holds for any set of warm processes.

The modules below share one layout.  A lemma per helper says what it does to one
row of a table; the effect lemmas (`ServeEffect`, `NextEffect`, ...) show that every
action is one of a few effects; one lemma per part of the invariant goes through the
effects.

`SessionsProofs` proves `TokenIsRedeemable`, `NoStaleCall`, `StoredUserIsLast` and
`AwaitedIsPending` for any tabs, browsers, users, requests and faults, from
`DelayAssumption` (the order of the four delays) and `NoneAssumption`.  The parts:

* `TimeInv`: a request is answered by its `due`, and the pair of an answer was minted at
  most `RequestTime` before it; a call ends before its token does.  A token from storage
  passed `StillFresh`, which covers `Buffer`; one from a shared refresh may be as old as
  the refresh took, so the call ends at most `2 * RequestTime` after the mint;
* `PromiseInv`: the promise of a tab is the one refresh the tab waits for, and a call
  that awaits has one: so however many calls join it, `Wake` ends them all;
* `TokenInv`: a refresh before its deletion has presented its pair, and two of them with
  one pair have presented it twice, so the key that `Rotate` deletes is excused for all
  who still hold it;
* `UserInv`: a refresh that is waited for acts for the last user, unless its browser is
  in `crossed`.

`ProcessProofs` proves `RowIsAnnounced` and the action property
`FailuresAreReported` for any number of requests and faults.  `MainsSound` goes through
the eight mains once: what a handler uses is, but for MinIO, a check of the probe.  The
invariant then says that requests run only while main listens or closes (`PhaseInv`), where a
request stands (`PlaceInv`), that a lent connection is good or torn (`PoolInv`), that what is
in the NATS buffer has a connection which a deferred close will flush, and is at risk from the
moment that connection breaks (`NatsInv`), and that a request past NATS has left its event
there or at risk (`EventInv`).

`FilesProofs` proves `StorageAgrees` and the action property `AnswersAreTrue` for any
files, requests, uploads and faults.  For each file, unless a delete has met a writer, none
is at work beside one (`Apart`); each handler's knowledge from its last call still holds
(`Knows`), and row and objects agree up to the calls that are still to come (`Agree`), both
gap by gap, so that a fault of one kind excuses no gap of another.

`DirectMessagesProofs` proves `DuplicateIsExplained` and `BlockHolds` for any users,
nodes, messages, attempts and faults.  `Counted` is a count: the copies of a message plus
the attempts that may still insert one are at most the attempts the sender is unsure of
plus the one it waits for or was told of; the same for files and events against copies.
`Checked` and `Explained` say what an attempt past a check implies of the cache of its
node, and what the cache, and a value read and not yet cached, imply of the table.

`ReadProofs` proves, of `GroupCache`, `WaitersHaveLeader`, `StaleIsExplained` and that it
implements `ReadThrough`, for any keys, callers, versions and capacity.  It needs nothing
of the pointers: `Flying` ties leaders to flights, `Versions` says that what is in the map
or on its way there was committed, `Held` that the read lock keeps the entry that is being
moved.  So the promise of `ReadThrough` survives the corruption of the list that
`cache_eviction` shows.

Of `Listings` it proves `ScrollIsComplete` and `SearchPartsAgree` for any number of keys, any
limits and any number of queries that break off.  A page is a front of the rows behind the
cursor (`IsFront`): whatever comes before one of its rows is in it.  `FrontWhole`
shows that a query with fewer rows than its limit has them all (what the peek row is for),
`PageIsPage` that the next page starts behind the last row; both from the well-foundedness
of `<` and the cardinality of finite sets, without induction over the data.  `Reached` is
the invariant of a scroll: what was received is not behind the cursor, and what was there
all along and is not behind it was received.
`Searching` says that while the membership has not changed every part that has answered
answered by the membership the search began with, and that a part of messages has what
stayed in the table or fills the limit.

Of `MessageSync` it proves `ViewHasNoHole` for any number of messages, of polls and history
requests out at once, of failed calls and reloads, and any limits.  The strengthening:

* `PagesWhole`: an answer on its way has every message of the stretch it covers, or names it
  as late; it survives commits because what commits was in flight, and new seqs because they
  are above every page;
* `LoadsFresh`, `MoresFresh`: what a history request that is out would take from the view is
  marked as overtaken already, or lies below its page.  `LoadsFresh` also speaks of the lists
  that closures of `handleScroll` keep, since those come back into the view;
* `FlyingMissed`: what is in flight between `lowest` and the cursor is marked as missed, so
  that its commit does no harm.

A poll extends the claim upwards from a cursor that is not above the one the tab has by
then; a load is whole up to its newest message, and above that the old view was.

Only model-checked:

* the liveness properties (`RegistryHeals`, `RegistryForgets`, `EventsAreHandled`,
  `ConnectedAreNotified`, `RequestsEnd`, `SignalledExits`, `BackfillConverges`,
  `RetriesSucceed`), which need fairness;
* `LruOrder` of `GroupCache`: it compares the order in which entries were used with a walk
  along the pointers of the ring, whose length is that of the data, and needs induction
  over it.

## Bounds

Each bound is a CONSTANT: faults (one, at any step, which meets every single point of
failure; two in `process`, where a dependency has to go and come back), messages, requests and connections (two or three, what a race and a
bystander need), versions and keys (three or four, so that a page ends inside the
list and an eviction has something left to keep).  Two faults in one behaviour of
the other runs, and more than three concurrent requests, are beyond what the runs cover; the theorems
have no such limits.

## Not modelled

* The SDK's connection manager and its acks, and the client's optimistic copies, edits,
  unread store and presence view: browser timers and component state, without a server side
  that is not already modelled.  What can go wrong there: `disconnect()` during the
  await of the token does not stop the socket that is being opened; an ack after five
  seconds is dropped and the message sent again; counts fetched before a push
  overwrite the badge that push has increased.
* The two presence consumers of notify-service: a relay.  The consumers are independent, so the online and offline events of
  one user may be pushed in the wrong order.
* `EditMessage`, roles beyond `@everyone` and the text of messages: no property
  depends on them.
* Generated protocol code, configuration, logging, metrics, image scaling, password
  hashing, migrations and rendering.

Redis, NATS, JetStream, PostgreSQL, MinIO, `container/list` and `singleflight` are modelled by
how the code uses them and marked external.
