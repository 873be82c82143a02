SPECIFICATION Spec
CONSTANTS
  None = None
  Members = {u1, u2}
  Gateways = {}
  MaxSeq = 3
  MaxCrashes = 1
  MaxLosses = 1
  MaxMoves = 0
SYMMETRY Symmetry
INVARIANTS CursorAnchored OwnMessageRead UnreadIsExact
CHECK_DEADLOCK FALSE
