\* One promise, resolved to a capability the host has not exported.
SPECIFICATION Spec
CONSTANTS
  NPromises = 1
  NCalls = 1
  MaxId = 1
  MaxPass = 1
  QueueCap = 1
  Answers = {"fresh"}
  Uses = {}
PROPERTY ResolvedCallsRetargeted
CHECK_DEADLOCK FALSE
