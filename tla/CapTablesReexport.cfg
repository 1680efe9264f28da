\* The holder knows every call, but the host exports an object again while its
\* code keeps a Ref of the earlier export.
SPECIFICATION Spec
CONSTANTS
  Objs = {main, o1, o2}
  Main = main
  Questions = {q1, q2}
  NoQuestion = NoQuestion
  MaxExport = 1
  MaxAsks = 2
  MayMismatch = FALSE
  MayReexport = TRUE
SYMMETRY CapSymmetry
INVARIANT NoCallAfterClose
CHECK_DEADLOCK FALSE
