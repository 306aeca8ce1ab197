SPECIFICATION AllSpec
CONSTANTS
  v1 = v1
  w1 = w1
  w2 = w2
  r1 = r1
  Keys = {1, 2}
  Values = {v1}
  Writers = {w1}
  Readers = {r1}
  Reads = {"seek_to_last", "prev"}
  MAX_HEIGHT = 2
  CAPACITY = 7
  Absent = Absent
  Modes = {FALSE}
INVARIANTS CursorLinked
