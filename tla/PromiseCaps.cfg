\* Two promises on two ids, passed on twice between them, three calls.
SPECIFICATION Spec
CONSTANTS
  NPromises = 2
  NCalls = 3
  MaxId = 2
  MaxPass = 2
  QueueCap = 2
  Answers = {"known", "fresh", "back", "broken"}
  Uses = {"reenter"}
INVARIANTS TypeOK OrderedDelivery PromiseRefsAgree ResolvesToOwnAnswer
PROPERTY NoCallStranded
CHECK_DEADLOCK FALSE
