\* One producer, one consumer that polls for ever.
CONSTANTS
  Producers = {p1}
  Consumers = {c1}
  Items = {x1, x2, x3, x4}
  Capacity = 3
  NULL = NULL
SPECIFICATION FairSpec
INVARIANTS
  PushServed
PROPERTIES
  PushReturns
CHECK_DEADLOCK FALSE
