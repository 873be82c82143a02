SPECIFICATION FairSpec
CONSTANTS
  None = None
  Members = {u1, u2, u3}
  Gateways = {g1}
  MaxSeq = 1
  MaxCrashes = 1
  MaxLosses = 1
  MaxMoves = 1
PROPERTIES EventsAreHandled ConnectedAreNotified
CHECK_DEADLOCK FALSE
