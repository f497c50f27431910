CONSTANTS
  Zval = {z1, z2}
  Obj = {o1}
  Null = Null
  End = End
  GC_ROOT_BUFFER_MAX_ENTRIES = 2
  MaxRefs = 4
  MaxDepth = 2
  TouchPinned = TRUE
SPECIFICATION Spec
INVARIANT RootsAreAlive
CHECK_DEADLOCK FALSE
