\* Two objects that share an id, besides the main interface: calls, results,
\* releases and capabilities sent back cross in every order, some calls are of
\* methods the holder lacks, and objects are exported again.
SPECIFICATION Spec
CONSTANTS
  Objs = {main, o1, o2}
  Main = main
  Questions = {q1, q2}
  NoQuestion = NoQuestion
  MaxExport = 1
  MaxAsks = 2
  MayMismatch = TRUE
  MayReexport = TRUE
INVARIANTS TypeOK ExportTableOK WireRefsAgree NamesReachTheirObject ClosedOnlyIfWrappedAgain
PROPERTY UnheldExportsAreReleased
CHECK_DEADLOCK FALSE
