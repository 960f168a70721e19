\* Two executors, one after the other, of two workers, over any memory.
CONSTANTS
  Size = 2
  Garbage <- AnyGarbage
  Ids = {i1, i2, i3}
  Pools = 2
SPECIFICATION Spec
INVARIANTS
  TypeOK
  LoopThereAfterStart
  LoopOfItsPool
  WordOutlivesThread
CHECK_DEADLOCK FALSE
