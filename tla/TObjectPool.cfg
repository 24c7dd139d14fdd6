CONSTANTS
  Threads = {t1, t2, t3}
  Blocks = {b1, b2, b3}
  NULL = NULL
  PoolSize = 2
  MaxAllocate = 4
SPECIFICATION Spec
SYMMETRY Symmetry
INVARIANTS
  OneOwner
  TotalsAddUp
  PoolAbsorbs
CHECK_DEADLOCK FALSE
