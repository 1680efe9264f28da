\* A cancelled question's id is free before its Return has been received.
SPECIFICATION Spec
CONSTANTS
  Calls = {c1, c2, c3}
  None = None
  MaxId = 1
  QueueCap = 1
  MayCancel = TRUE
  MayReenter = FALSE
  MayMismatch = FALSE
SYMMETRY CallSymmetry
INVARIANT OneUnansweredPerId
CHECK_DEADLOCK FALSE
