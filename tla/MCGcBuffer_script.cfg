CONSTANTS
  Zval = {z1, z2}
  Obj = {o1}
  Null = Null
  End = End
  GC_ROOT_BUFFER_MAX_ENTRIES = 2
  MaxRefs = 3
  MaxDepth = 3
  TouchPinned = FALSE
SPECIFICATION Spec
INVARIANTS BufferAgrees ListsIntact
PROPERTY NeverForgets
CHECK_DEADLOCK FALSE
