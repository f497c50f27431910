\* An array and two object zvals that may share an object, beside the symbol
\* table, which may hold one variable.
CONSTANTS
  Nil = Nil
  Handle = Handle
  Globals = Globals
  a = a
  o = o
  p = p
  q = q
  Array = {Globals, a}
  ObjRef = {p, q}
  Obj = {o}
  Key = {1, 2}
  Slot <- Slots
  Held = {}
SPECIFICATION Spec
INVARIANTS TypeOK Accounting DoomedIsClosed ScanIsComplete NoWhiteLeft CountsRestored
PROPERTY PassesEnd
