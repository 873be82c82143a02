SPECIFICATION FairSpec
CONSTANTS
  None = None
  Users = {"ann", "bob"}
  Nodes = {n1}
  Reqs = {r1, r2}
  Msgs = {"there", "back", "self"}
  From <- MCFrom
  To <- MCTo
  Histories = {"back"}
  Attaching = {"there"}
  MaxChanges = 1
  MaxFaults = 1
INVARIANTS DuplicateIsExplained BlockHolds
PROPERTIES RetriesSucceed
CHECK_DEADLOCK FALSE
