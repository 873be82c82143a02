SPECIFICATION Spec
CONSTANTS
  None = None
  Files = {f1}
  Reqs = {r1, r2}
  Uploads = {u1, u2}
  Users = {"ann", "bob"}
  Maker <- MCMaker
  MaxFaults = 1
INVARIANTS StorageAgrees
PROPERTIES AnswersAreTrue
CHECK_DEADLOCK FALSE
SYMMETRY Symmetry
