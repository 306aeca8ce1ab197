SPECIFICATION LayoutFairSpec
CONSTANTS
  t1 = t1
  t2 = t2
  Threads = {t1, t2}
  Shapes <- SmallShapes
  Sizes <- SmallSizes
  CAPACITY = 96
  LEN_LIMIT = 8
  STORES = 2
INVARIANTS SoundLayout PanicOnlyWhenFull ReadBack AccessInside
PROPERTIES Atomic AllocReturns
