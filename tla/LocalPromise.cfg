\* Three pipelined calls on two capabilities each: on the root, on one another,
\* before, during and after the settlement of what they are made on.
SPECIFICATION Spec
CONSTANTS
  NCalls = 3
  MaxCloses = 1
  NSlots = 2
  QueueSize = 2
  Results = {"cap", "null"}
INVARIANT TypeOK
PROPERTIES OrderedDelivery EveryCallSettles NoCallAfterClose
CHECK_DEADLOCK FALSE
