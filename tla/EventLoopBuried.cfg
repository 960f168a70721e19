\* A permit that is released behind an await, and a kid that waits for it.
CONSTANTS
  M = M
  A = A
  B = B
  C = C
  D = D
  Tasks = {M, A, B, C, D}
  Main = M
  Programs <- ReleaseAfterAwait
  Permits = 0
  Capacity = 4
SPECIFICATION FairSpec
PROPERTIES
  Completes
