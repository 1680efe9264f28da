\* Four calls through a ring of two slots: the ring wraps, fills up, refuses,
\* is closed under the flush, and is called re-entrantly by its target.
SPECIFICATION Spec
CONSTANTS
  Calls = {c1, c2, c3, c4}
  Cap = 2
  NoCall = NoCall
INVARIANTS TypeOK RingOK
PROPERTIES OrderedDelivery EveryHeldCallIsSettled
CHECK_DEADLOCK FALSE
