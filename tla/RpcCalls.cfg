\* Five calls on three question ids: ids are reused, calls are pipelined on
\* pipelined calls, and the queue of an answer (two calls) fills up.
SPECIFICATION Spec
CONSTANTS
  Calls = {c1, c2, c3, c4, c5}
  None = None
  MaxId = 2
  QueueCap = 2
  MayCancel = FALSE
  MayReenter = FALSE
  MayMismatch = FALSE
SYMMETRY CallSymmetry
INVARIANT OneUnansweredPerId
PROPERTY ImplementsCallService
CHECK_DEADLOCK FALSE
