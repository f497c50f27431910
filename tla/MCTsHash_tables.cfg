\* Three threads that read, rewrite, copy and compare two tables and write and empty
\* a third, one call each.
\* Threads stop after MaxCalls calls.
CONSTANTS
  a = a
  b = b
  d = d
  x = x
  y = y
  v = v
  None = None
  Readers = Readers
  NoVal = NoVal
  Thread = {t1, t2, t3}
  Table = {a, b, d}
  Key = {x, y}
  Val = {v}
  Call <- MixedCalls
  MaxCalls = 1
  ReaderMod = 8
SPECIFICATION Spec
INVARIANTS TypeOK Exclusion LocksAreReturned
PROPERTIES AtomicSpec EveryCallReturns
CHECK_DEADLOCK FALSE
