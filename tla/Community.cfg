SPECIFICATION FairSpec
CONSTANTS
  None = None
  Users = {1, 2}
  Owner = 1
  Nodes = {n1, n2}
  Warm = {n2}
  Reqs = {r1, r2}
  Channels = {c1}
  Kinds = {"create", "update", "delete", "mkchannel", "rmchannel", "join", "leave", "kick", "send", "read"}
  MaxListed = 1000
  MaxFaults = 1
INVARIANTS TypeOK RemovedCannotPost MembersHaveRole StaleListExplained
PROPERTY OwnerStays RequestsEnd
CHECK_DEADLOCK FALSE
