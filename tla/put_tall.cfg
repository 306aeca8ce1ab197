SPECIFICATION Spec
CONSTANTS
  v1 = v1
  v2 = v2
  w1 = w1
  w2 = w2
  w3 = w3
  Keys = {1, 2}
  Values = {v1}
  Writers = {w1, w2}
  MAX_HEIGHT = 3
  CAPACITY = 9
  Absent = Absent
  Modes = {TRUE}
SYMMETRY WriterSymmetry
INVARIANTS TowerAccessInBounds NothingLost TowersNested
