CONSTANTS
  Threads = {t1, t2}
  Dispatchers = {d1, d2}
  Tasks = {k1, k2}
  NULL = NULL
  FrontSlackMax = 64
SPECIFICATION FairSpec
PROPERTIES
  EveryTaskIsDone
  NoLeak
CHECK_DEADLOCK FALSE
