\* Three threads that push and pop over a ring of three nodes.
CONSTANTS
  Producers = {t1, t2, t3}
  Consumers = {t1, t2, t3}
  Items = {x1, x2, x3}
  Capacity = 3
  NULL = NULL
SPECIFICATION OrderSpec
SYMMETRY Symmetry
INVARIANTS
  TypeOK
  IndexInRange
  ExactlyOneOwner
  ReservationsBacked
  ClaimDelivered
  ReservationKept
  PushWaitsForLoad
PROPERTIES
  PushNeverMeetsPop
  PoolSpec
  PatientFifo
CHECK_DEADLOCK FALSE
