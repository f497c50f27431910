\* Three objects, a global and a static variable, classes with and without
\* destructors; the request ends.
CONSTANTS
  MaxId = 3
  Id <- Objects
  Global = {g}
  Static = {s}
  None = None
  InitSize = 2
  Destructors = {TRUE, FALSE}
SPECIFICATION Spec
INVARIANTS CountsReferences NothingDangles OnceEach FreeHandles
CHECK_DEADLOCK FALSE
