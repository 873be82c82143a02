-------------------------------- MODULE Paging --------------------------------
(***************************************************************************)
(* The queries behind the lists of user-service and community-service, and *)
(* the handlers of message history that both a client that scrolls         *)
(* (Listings) and one that catches up (MessageSync) call.                  *)
(*                                                                         *)
(* A row is told by its sort key, a positive number, and key 0 is "no      *)
(* cursor".  A page is a set of keys read in the order of its query:       *)
(* ORDER BY ... [DESC] LIMIT n behind a cursor.                            *)
(***************************************************************************)
EXTENDS Naturals, FiniteSets, FiniteSetsExt

Before(dir, j, k) == IF dir = "asc" THEN j < k ELSE k < j

FirstRows(dir, T, n) == {k \in T : Cardinality({j \in T : Before(dir, j, k)}) < n}

LastRow(dir, T) == IF dir = "asc" THEN Max(T) ELSE Min(T)

Behind(dir, T, c) == {k \in T : c = 0 \/ Before(dir, c, k)}

Query(dir, T, c, n) == FirstRows(dir, Behind(dir, T, c), n)

\* The peek row itself as the cursor.
PeekCursor(dir, s, n) ==
  IF Cardinality(s) > n
  THEN [items |-> FirstRows(dir, s, n), next |-> LastRow(dir, s)]
  ELSE [items |-> s, next |-> 0]

\* One row more than the limit is fetched to see whether there is a next page;
\* the cursor is the last row of the page.
Page(dir, s, n) ==
  IF Cardinality(s) > n
  THEN [items |-> FirstRows(dir, s, n), next |-> LastRow(dir, FirstRows(dir, s, n))]
  ELSE [items |-> s, next |-> 0]

\* rows.Err() is not looked at: a query that breaks off is a short page without
\* a next one.
Short(dir, p) ==
  {[items |-> FirstRows(dir, p.items, m), next |-> 0] : m \in 0..Cardinality(p.items)}

GetChannelMessages(T, c, n) == Page("desc", Query("desc", T, c, n + 1), n)

GetDMHistory(T, c, n)       == Page("desc", Query("desc", T, c, n + 1), n)

GetDMMessagesSince(T, s, n) == [items |-> Query("asc", T, s, n), next |-> 0]

GetChannelMessagesSince(T, s, n) == [items |-> Query("asc", T, s, n), next |-> 0]

\* The handlers: a limit that is absent or not positive is fifty.
LimitOf(r) == IF r.limit > 0 THEN r.limit ELSE 50

DMHistoryRpc(T, r) ==
  IF r.since > 0 THEN GetDMMessagesSince(T, r.since, LimitOf(r))
                 ELSE GetDMHistory(T, r.cursor, LimitOf(r))

GetMessagesRpc(T, r) ==
  IF r.since > 0 THEN GetChannelMessagesSince(T, r.since, LimitOf(r))
                 ELSE GetChannelMessages(T, r.cursor, LimitOf(r))
=============================================================================
