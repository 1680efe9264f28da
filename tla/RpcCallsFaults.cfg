\* Everything the program and its peer may do: cancellation, re-entrant calls,
\* unknown methods, and the protocol errors that follow.
SPECIFICATION Spec
CONSTANTS
  Calls = {c1, c2, c3}
  None = None
  MaxId = 1
  QueueCap = 1
  MayCancel = TRUE
  MayReenter = TRUE
  MayMismatch = TRUE
INVARIANTS TypeOK QuestionTableOK RunsAtMostOnce FinishBeforeReuse NoProtocolError
PROPERTIES  AnswersAreForgotten
CHECK_DEADLOCK FALSE
