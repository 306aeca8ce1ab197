SPECIFICATION Spec
CONSTANTS
  BASE = 2
  SEQ_BYTES = 2
  UserKeys <- ShortKeys
  Inputs <- ShortInputs
  SLOTS = 3
CHECK_DEADLOCK FALSE
INVARIANTS DecodeInverts NewestFirst TotalOrder RefinesOrd
