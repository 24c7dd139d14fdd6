CONSTANTS
  Tasks = {k1, k2, k3, k4}
  NULL = NULL
  Delays = {0, 1, 2}
  InitialCapacity = 2
  GrowStep = 2
  MaxTick = 3
SPECIFICATION Spec
SYMMETRY Symmetry
INVARIANTS
  FireOrder
  OneReferencePerEntry
  DestroyedOnce
CHECK_DEADLOCK FALSE
