CONSTANTS
  Proc = {p1, p2}
  Sid = {s1, s2}
  Inode = {i1, i2, i3, i4}
  Val = {short, long}
  Size <- Sizes
  short = short
  long = long
  Empty = Empty
  Torn = Torn
  None = None
  Interrupted = {}
  MaxStarts = 2
SPECIFICATION Spec
INVARIANT WholeFiles
CHECK_DEADLOCK FALSE
