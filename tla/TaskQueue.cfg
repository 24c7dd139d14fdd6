CONSTANTS
  Producers = {p1, p2}
  Tasks = {t1, t2, t3}
  Stub = Stub
  NULL = NULL
  MaxPush = 4
SPECIFICATION FairSpec
INVARIANTS
  IInv
  OneOwner
  NoLinkIntoFreedNode
  EmptyPopJustified
  DestructorLeavesNothing
PROPERTIES
  FifoSafety
  FifoSpec
CHECK_DEADLOCK FALSE
