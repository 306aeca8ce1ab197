SPECIFICATION FairSpec
CONSTANTS
  t1 = t1
  t2 = t2
  t3 = t3
  Tasks = {t1, t2, t3}
  BUFFER = 2
  Fields = {42}
  EVENTS = 4
INVARIANTS Accounted OrderKept
PROPERTIES EmitReturns
CHECK_DEADLOCK FALSE
