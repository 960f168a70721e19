\* Three threads that push, pop and clear at any time.
CONSTANTS
  Threads = {t1, t2, t3}
  Items = {x1, x2, x3}
  SizeMod = 8
  head = head
  NULL = NULL
SPECIFICATION PhasedSpec
SYMMETRY Symmetry
INVARIANTS
  TypeOK
  SizeAccounts
  NoItemLostInPhases
  SizeIsLength
  NoCycle
PROPERTIES
  LossyFifoSpec
  LossesExplained
  PhasedFifo
