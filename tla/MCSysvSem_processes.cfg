\* Two processes, one handle and two calls of sem_get each, two deaths, one removal.
\* Scripts stop calling after MaxGets.
CONSTANTS
  Proc = {p1, p2}
  Slot = {h1}
  NoHandle = NoHandle
  MaxAcquire = {1, 2}
  MaxSets = 2
  MaxGets = 2
  MaxDeaths = 2
SPECIFICATION Spec
INVARIANTS TypeOK DestroyNeverWaits OneInGet
PROPERTIES ServiceSpec GetsReturn WaitersGetIn
CHECK_DEADLOCK FALSE
