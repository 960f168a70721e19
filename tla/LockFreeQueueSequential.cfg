\* One thread.
CONSTANTS
  Threads = {t1}
  Items = {x1, x2, x3}
  SizeMod = 8
  head = head
  NULL = NULL
SPECIFICATION Spec
INVARIANTS
  NoItemLost
