SPECIFICATION FairSpec
CONSTANTS
  v1 = v1
  v2 = v2
  w1 = w1
  w2 = w2
  w3 = w3
  Keys = {1, 2, 3}
  Values = {v1}
  Writers = {w1, w2}
  MAX_HEIGHT = 2
  CAPACITY = 6
  Absent = Absent
  Modes = {TRUE, FALSE}
INVARIANTS IInv StrictlySorted BackLinksInverse
PROPERTIES PutReturns
