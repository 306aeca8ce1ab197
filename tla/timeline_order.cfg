SPECIFICATION Spec
CONSTANTS
  t1 = t1
  t2 = t2
  t3 = t3
  Tasks = {t1, t2}
  BUFFER = 2
  Fields <- MixedFields
  EVENTS = 3
INVARIANTS SeqOrdersLines
CHECK_DEADLOCK FALSE
