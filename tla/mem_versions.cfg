SPECIFICATION Spec
CONSTANTS
  UserKeys = {0, 1, 3}
  Values = {0, 2}
  MAX_SEQUENCE = 4
  LAST_CALL = 6
  MAX_HEIGHT = 2
  CAPACITY = 180
CHECK_DEADLOCK FALSE
INVARIANTS NewestWins DistinctVersions SizeBounds
PROPERTIES WritesAdd
