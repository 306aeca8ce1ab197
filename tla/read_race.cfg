SPECIFICATION AllSpec
SYMMETRY WriterSymmetry
CONSTANTS
  v1 = v1
  w1 = w1
  w2 = w2
  r1 = r1
  Keys = {1, 2}
  Values = {v1}
  Writers = {w1, w2}
  Readers = {r1}
  Reads = {"lower_bound", "len", "seek", "seek_for_prev", "seek_to_first", "seek_to_last", "next", "prev"}
  MAX_HEIGHT = 2
  CAPACITY = 7
  Absent = Absent
  Modes = {TRUE}
INVARIANTS OnLevel CursorLinked ScanComplete
PROPERTIES LowerBoundAtomic LenBetween SeekAtomic
