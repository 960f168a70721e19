\* Two threads over two addresses that are reused, until nobody calls any more.
CONSTANTS
  Threads = {t1, t2}
  PtrMod = 4
  TagMod = 3
  Blocks <- TopBlocks
  NONE = NONE
SPECIFICATION FairSpec
INVARIANTS
  TypeOK
  TagIsDeferredCount
  RefCountExact
  NoDanglingPointer
  Protected
PROPERTIES
  Linearizable
  Quiesces
