SPECIFICATION FairSpec
CONSTANTS
  Reqs = {r1, r2}
  MaxFaults = 2
INVARIANTS RowIsAnnounced
PROPERTIES FailuresAreReported SignalledExits
CHECK_DEADLOCK FALSE
