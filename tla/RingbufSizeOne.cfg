\* The ring of one node the tests construct, and a single thread.
CONSTANTS
  Producers = {t1}
  Consumers = {t1}
  Items = {x1, x2}
  Capacity = 1
  NULL = NULL
SPECIFICATION Spec
INVARIANTS
  IndexInRange
CHECK_DEADLOCK FALSE
