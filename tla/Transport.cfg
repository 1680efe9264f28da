\* Three frames of one or two units each way, a write queue of two units.
SPECIFICATION Spec
CONSTANTS
  NIn = 3
  NOut = 3
  MaxLen = 2
  MaxQueued = 2
  HighWater = 2
  Kinds = {"good", "bad", "garbage"}
INVARIANTS WriteQueueOK StreamIsWhole HandledInOrder
PROPERTIES AcceptedIsSent EveryFrameIsHandled
CHECK_DEADLOCK FALSE
