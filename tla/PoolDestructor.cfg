\* Two workers whose words are constructed before they are read.
CONSTANTS
  Size = 2
  Garbage <- NoGarbage
  Ids = {i1, i2}
  Pools = 1
SPECIFICATION FairSpec
PROPERTIES
  DestructorReturns
CHECK_DEADLOCK FALSE
