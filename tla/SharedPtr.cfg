CONSTANTS
  Threads = {t1, t2, t3}
  Pointers = {p1, p2, p3, p4}
  Blocks = {b1, b2}
  null = null
  MaxDrops = 2
SPECIFICATION Spec
SYMMETRY Symmetry
INVARIANTS
  ReferencesAreExact
  NoDanglingPointer
  DestroyedByTheLast
  NoReferenceFromZero
CHECK_DEADLOCK FALSE
