CONSTANTS
  MaxRun = 2
  SpanThreshold = 2
  MaxSets = 4
  Layouts <- MCLayouts
  Uses = {}
SPECIFICATION Spec
INVARIANTS ReadsAsWritten DeadMembersRefused PackingRoundTrip
