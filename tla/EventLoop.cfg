\* Programs of four tasks over a ring that is just large enough for them.
CONSTANTS
  M = M
  A = A
  B = B
  C = C
  D = D
  Tasks = {M, A, B, C, D}
  Main = M
  Programs <- WithPermits
  Permits = 0
  Capacity = 4
SPECIFICATION FairSpec
INVARIANTS
  TypeOK
  OneStrand
  RoomToPush
  ResultReady
  KidsInReach
  LockAccounted
  NoneLeftBehind
PROPERTIES
  TaskTreeSpec
  Completes
