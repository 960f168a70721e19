\* Two producers, one consumer that polls for ever.
CONSTANTS
  Producers = {p1, p2}
  Consumers = {c1}
  Items = {x1, x2, x3}
  Capacity = 2
  NULL = NULL
SPECIFICATION FairSpec
PROPERTIES
  PushReturns
CHECK_DEADLOCK FALSE
