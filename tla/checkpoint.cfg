SPECIFICATION FairSpec
CONSTANTS
  t1 = t1
  t2 = t2
  Threads = {t1, t2}
  CALLS = 2
INVARIANTS CapturedWhenCounted CountExact ReleasedUnlessReset
PROPERTIES WaitEnds
