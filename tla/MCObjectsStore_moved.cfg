\* The buckets move when the third object is made. The request ends.
CONSTANTS
  MaxId = 3
  Id <- Objects
  Global = {g}
  Static = {s}
  None = None
  InitSize = 3
  Destructors = {TRUE, FALSE}
SPECIFICATION Spec
INVARIANT FreshPointer
CHECK_DEADLOCK FALSE
