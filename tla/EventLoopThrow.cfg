\* A task that throws and is awaited.
CONSTANTS
  M = M
  A = A
  B = B
  C = C
  D = D
  Tasks = {M, A, B, C, D}
  Main = M
  Programs <- ThrowingKid
  Permits = 0
  Capacity = 4
SPECIFICATION Spec
INVARIANTS
  ErrorReachesAwaiter
