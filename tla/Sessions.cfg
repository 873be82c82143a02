SPECIFICATION Spec
CONSTANTS
  None = None
  Tabs = {t1, t2}
  Browsers = {b1, b2}
  Users = {u1, u2}
  Reqs = {r1, r2}
  Calls = {c1, c2}
  Accounts = {u1}
  RequestTime = 1
  Buffer = 1
  AccessTTL = 3
  RefreshTTL = 4
  MaxTime = 4
  MaxVisits = 3
  MaxFaults = 1
INVARIANTS TokenIsRedeemable NoStaleCall StoredUserIsLast AwaitedIsPending
SYMMETRY Symmetry
CHECK_DEADLOCK FALSE
CONSTRAINT FewEvents
