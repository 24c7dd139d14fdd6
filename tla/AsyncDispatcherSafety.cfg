CONSTANTS
  Threads = {t1, t2}
  Dispatchers = {d1, d2, d3}
  Tasks = {k1, k2, k3}
  NULL = NULL
  FrontSlackMax = 2
SPECIFICATION Spec
SYMMETRY Symmetry
INVARIANTS
  OneConsumer
  CountIsExact
  RefCountIsExact
  NoUseAfterDestroy
PROPERTY DestructorDropsNothing
CHECK_DEADLOCK FALSE
