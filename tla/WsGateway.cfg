SPECIFICATION FairSpec
CONSTANTS
  None = None
  Users = {u1}
  Gateways = {g1, g2}
  Conns = {c1, c2, c3}
  Channels = {ch1}
  MaxFaults = 1
INVARIANTS TypeOK EntryIsServed RegistryBacked OnlineBacked
PROPERTIES RegistryHeals RegistryForgets
CHECK_DEADLOCK FALSE
