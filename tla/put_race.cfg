SPECIFICATION Spec
CONSTANTS
  v1 = v1
  v2 = v2
  w1 = w1
  w2 = w2
  w3 = w3
  Keys = {1}
  Values = {v1, v2}
  Writers = {w1, w2, w3}
  MAX_HEIGHT = 2
  CAPACITY = 8
  Absent = Absent
  Modes = {TRUE}
SYMMETRY WriterSymmetry
INVARIANTS AckedIsStored DuplicateOnlyAtBottom
PROPERTIES LinkedNodesStay Linearizable
