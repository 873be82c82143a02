SPECIFICATION ReadsSpec
CONSTANTS
  MaxKey = 4
  AsA = {1, 3}
  Limits = {0, 2}
  MaxPages = 5
  MaxFaults = 1
  MaxSeq = 2
  Fills = {f}
  Histories = {h}
  HistoryLimit = 1
  BackfillLimit = 1
  MaxBroken = 1
  MaxReloads = 1
  f = f
  h = h
INVARIANTS ScrollIsComplete SearchPartsAgree ViewHasNoHole
PROPERTY BackfillConverges
CHECK_DEADLOCK FALSE
