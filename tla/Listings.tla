------------------------------- MODULE Listings -------------------------------
(***************************************************************************)
(* Reads of more than one row: the paged lists of user-service and         *)
(* community-service and the search-service's parallel queries, while rows *)
(* come and go.                                                            *)
(*                                                                         *)
(* A row is its sort key: the seq of a message, the id of a member, friend *)
(* or community, the creation time of a conversation, the position of a    *)
(* channel.                                                                *)
(***************************************************************************)
EXTENDS Paging

CONSTANTS MaxKey,      \* keys are 1..MaxKey
          AsA,         \* the conversations in which the caller is user_a
          Limits,      \* limits a client asks for; 0 stands for none
          MaxPages,    \* pages a client reads before it gives up
          MaxFaults    \* queries that break off

ASSUME ListingsAssumption ==
  /\ MaxKey \in Nat /\ MaxPages \in Nat /\ MaxFaults \in Nat
  /\ Limits \subseteq Nat /\ AsA \subseteq 1..MaxKey

VARIABLES list,     \* the list that is read
          mode,     \* scroll by cursor, or search
          rows,     \* committed rows
          pend,     \* rows that have their key and are not committed
          taken,    \* keys given out so far, for keys that only grow
          joined,   \* the caller is a member of the community searched
          phase,    \* the client: idle, reading or done
          limit, cursor, pages,
          seen,     \* keys received
          twice,    \* keys received again
          base,     \* rows there since the reading began
          cut,      \* a page was cut short
          part,     \* part[t]: the state of the search for t
          hits,     \* what each part of the search found
          mayRead,  \* the caller was a member at some time during the search
          switched, \* the caller joined or left during the search
          faults

table  == <<rows, pend, taken, joined>>
client == <<phase, limit, cursor, pages, seen, twice, base, cut>>
search == <<part, hits, mayRead, switched>>
listVars == <<list, mode, table, client, search, faults>>

RowKeys == 1..MaxKey

-----------------------------------------------------------------------------
(* The queries and the handlers. *)
ListFriends(T, c, n)            == Page("asc", Query("asc", T, c, n + 1), n)

ListCommunitiesByUser(T, c, n)  == Page("asc", Query("asc", T, c, n + 1), n)

ListMembersByCommunity(T, c, n) == Page("asc", Query("asc", T, c, n + 1), n)

\* WHERE a = me OR b = me AND created_at < cursor: the cursor binds only the
\* conversations in which the caller is user_b; the cursor is the peek row.
GetDMConversations(T, c, n) ==
  LET T2 == {k \in T : k \in AsA \/ c = 0 \/ k < c}
  IN PeekCursor("desc", Query("desc", T2, 0, n + 1), n)

ListChannelsByCommunity(T) == [items |-> T, next |-> 0]

FriendsRpc(T, r)       == ListFriends(T, r.cursor, LimitOf(r))

CommunitiesRpc(T, r)   == ListCommunitiesByUser(T, r.cursor, LimitOf(r))

MembersRpc(T, r)       == ListMembersByCommunity(T, r.cursor, LimitOf(r))

ChannelsRpc(T, r)      == ListChannelsByCommunity(T)

ConversationsRpc(T, r) == GetDMConversations(T, r.cursor, LimitOf(r))

Serve(T, r) ==
  CASE list = "friends"       -> FriendsRpc(T, r)
    [] list = "communities"   -> CommunitiesRpc(T, r)
    [] list = "members"       -> MembersRpc(T, r)
    [] list = "channels"      -> ChannelsRpc(T, r)
    [] list = "conversations" -> ConversationsRpc(T, r)
    [] list = "dm"            -> DMHistoryRpc(T, r)
    [] list = "messages"      -> GetMessagesRpc(T, r)

Lists == {"friends", "communities", "members", "channels", "conversations", "dm",
          "messages"}
Growing   == {"dm", "messages", "conversations"}  \* keys from a sequence or clock
Deletable == Lists \ {"dm", "conversations"}
SearchTypes == {"users", "messages", "dms", "communities"}

-----------------------------------------------------------------------------
ListInit ==
  /\ list \in Lists
  /\ mode \in {"scroll"} \cup (IF list = "messages" THEN {"search"} ELSE {})
  /\ taken \in 0..MaxKey
  /\ list \notin Growing => taken = 0
  /\ rows \in SUBSET (IF list \in Growing THEN 1..taken ELSE RowKeys)
  /\ list \in {"dm", "conversations"} => rows = 1..taken
  /\ pend = {} /\ joined \in BOOLEAN /\ (mode # "search" => joined)
  /\ phase = "idle" /\ limit = 0 /\ cursor = 0 /\ pages = 0
  /\ seen = {} /\ twice = {} /\ base = {} /\ cut = FALSE
  /\ part = [t \in SearchTypes |-> "off"] /\ hits = [t \in SearchTypes |-> {}]
  /\ mayRead = FALSE /\ switched = FALSE
  /\ faults = 0

(* The writers.  An INSERT takes its seq, or its created_at, before it     *)
(* commits: two of them may become visible in the other order.             *)
TakeKey ==
  /\ list \in Growing /\ taken < MaxKey
  /\ taken' = taken + 1 /\ pend' = pend \cup {taken + 1}
  /\ UNCHANGED <<list, mode, rows, joined, client, search, faults>>

CommitRow(k) ==
  /\ k \in pend
  /\ pend' = pend \ {k} /\ rows' = rows \cup {k}
  /\ UNCHANGED <<list, mode, taken, joined, client, search, faults>>

\* A row whose key is random, or chosen: a member, a friend, a channel.
InsertRow(k) ==
  /\ list \notin Growing /\ k \notin rows
  /\ rows' = rows \cup {k}
  /\ UNCHANGED <<list, mode, pend, taken, joined, client, search, faults>>

DeleteRow(k) ==
  /\ list \in Deletable /\ k \in rows
  /\ rows' = rows \ {k} /\ base' = base \ {k}
  /\ UNCHANGED <<list, mode, pend, taken, joined, phase, limit, cursor, pages, seen,
                 twice, cut, search, faults>>

JoinOrLeave ==
  /\ mode = "search"
  /\ joined' = ~joined
  /\ mayRead' = (mayRead \/ (phase = "reading" /\ joined'))
  /\ switched' = (switched \/ phase = "reading")
  /\ UNCHANGED <<list, mode, rows, pend, taken, client, part, hits, faults>>

-----------------------------------------------------------------------------
(* The client of a list *)
Order == IF list \in Growing THEN "desc" ELSE "asc"

Open(n) ==
  /\ mode = "scroll" /\ phase = "idle"
  /\ phase' = "reading" /\ limit' = n /\ base' = rows
  /\ UNCHANGED <<list, mode, table, cursor, pages, seen, twice, cut, search, faults>>

Request == [limit |-> limit, cursor |-> cursor, since |-> 0]

\* The page a request gets, whole or broken off.
Answer(p) ==
  \/ p = Serve(rows, Request) /\ UNCHANGED <<cut, faults>>
  \/ /\ faults < MaxFaults /\ faults' = faults + 1
     /\ p \in Short(Order, Serve(rows, Request)) /\ cut' = TRUE

\* The client asks with next_cursor until there is none.
NextPage ==
  /\ mode = "scroll" /\ phase = "reading" /\ pages < MaxPages
  /\ \E p \in {Serve(rows, Request)} \cup Short(Order, Serve(rows, Request)) :
       /\ Answer(p)
       /\ seen' = seen \cup p.items /\ twice' = twice \cup (seen \cap p.items)
       /\ cursor' = p.next
       /\ phase' = IF p.next = 0 THEN "done" ELSE "reading"
  /\ pages' = pages + 1
  /\ UNCHANGED <<list, mode, table, limit, base, search>>

-----------------------------------------------------------------------------
(* Search: an errgroup of up to four queries, each with its own snapshot;  *)
(* the first error cancels the context of the others.                      *)
Start(types, n) ==
  /\ mode = "search" /\ phase = "idle"
  /\ phase' = "reading" /\ limit' = n /\ base' = rows
  /\ part' = [t \in SearchTypes |->
                IF t \in types \/ types = {} THEN "run" ELSE "off"]
  /\ mayRead' = joined
  /\ UNCHANGED <<list, mode, table, cursor, pages, seen, twice, cut, hits, switched,
                 faults>>

SearchLimit == IF limit > 0 THEN limit ELSE 10

\* ORDER BY relevance LIMIT n: which rows a full answer holds is left open.
Relevant(T) == IF Cardinality(T) <= SearchLimit THEN {T}
               ELSE {S \in SUBSET T : Cardinality(S) = SearchLimit}

\* SearchChannelMessages joins on the caller's membership.
SearchChannelMessages == Relevant(IF joined THEN rows ELSE {})

\* SearchUsers filters nothing.
SearchUsers == {{"me", "peer", "other"}}

\* SearchDMMessages keeps the conversations the caller takes part in, and
\* computes the other party.
Conversations == {<<"me", "peer">>, <<"other", "me">>, <<"other", "peer">>}
SearchDMMessages == {{IF c[1] = "me" THEN c[2] ELSE c[1] :
                        c \in {d \in Conversations : d[1] = "me" \/ d[2] = "me"}}}

\* SearchCommunities finds public communities and says whether the caller is in.
SearchCommunities == {{joined}}

\* The answers the query of a part may give now.
Found(t) == CASE t = "users"       -> SearchUsers
              [] t = "messages"    -> SearchChannelMessages
              [] t = "dms"         -> SearchDMMessages
              [] t = "communities" -> SearchCommunities

SearchPart(t) ==
  /\ part[t] = "run"
  /\ \/ /\ part' = [part EXCEPT ![t] = "ok"]
        /\ \E found \in Found(t) : hits' = [hits EXCEPT ![t] = found]
        /\ UNCHANGED faults
     \/ /\ faults < MaxFaults \/ \E u \in SearchTypes : part[u] = "failed"
        /\ faults' = IF \E u \in SearchTypes : part[u] = "failed"
                     THEN faults ELSE faults + 1
        /\ part' = [part EXCEPT ![t] = "failed"]
        /\ UNCHANGED hits
  /\ UNCHANGED <<list, mode, table, client, mayRead, switched>>

\* The error of g.Wait is not looked at.
IgnoreErrors ==
  /\ mode = "search" /\ phase = "reading"
  /\ \A t \in SearchTypes : part[t] # "run"
  /\ phase' = "done" /\ seen' = hits["messages"]
  /\ UNCHANGED <<list, mode, table, limit, cursor, pages, twice, base, cut, search,
                 faults>>

\* g.Wait: every part has ended; one failure fails the whole.
SearchReturns ==
  /\ mode = "search" /\ phase = "reading"
  /\ \A t \in SearchTypes : part[t] # "run"
  /\ phase' = IF \E t \in SearchTypes : part[t] = "failed"
              THEN "failed" ELSE "done"
  /\ seen' = IF phase' = "done" THEN hits["messages"] ELSE {}
  /\ UNCHANGED <<list, mode, table, limit, cursor, pages, twice, base, cut, search,
                 faults>>

ListNext ==
  \/ TakeKey \/ JoinOrLeave
  \/ \E k \in RowKeys : CommitRow(k) \/ InsertRow(k) \/ DeleteRow(k)
  \/ \E n \in Limits : Open(n)
  \/ \E types \in SUBSET SearchTypes, n \in Limits : Start(types, n)
  \/ NextPage \/ SearchReturns \/ \E t \in SearchTypes : SearchPart(t)

ListSpec == ListInit /\ [][ListNext]_listVars

-----------------------------------------------------------------------------
(* Properties *)

\* A client that scrolls to the end has every row that was there all along,
\* and no row twice, whatever was inserted, deleted or re-inserted between its
\* pages, unless a query broke off; the list of conversations does not keep
\* this (the cursor is the peek row and binds half of the WHERE clause).
ScrollIsComplete ==
  mode = "scroll" /\ list # "conversations" =>
    /\ twice = {}
    /\ phase = "done" /\ ~cut => base \subseteq seen

\* The snapshots of the parts differ, and one may be missing altogether: messages
\* are shown only to who was a member during the search, and beside "not joined"
\* only if the membership changed meanwhile; who was a member all along gets
\* every message that was there all along, or as many as the limit allows.  A
\* query that failed or was cancelled does not pass for one that found nothing.
SearchPartsAgree ==
  mode = "search" /\ phase = "done" /\ part["messages"] # "off" =>
    /\ seen # {} => mayRead /\ (FALSE \in hits["communities"] => switched)
    /\ mayRead /\ ~switched => base \subseteq seen \/ Cardinality(seen) = SearchLimit
=============================================================================
