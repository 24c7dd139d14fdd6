CONSTANTS
  TotalWorkers = 2
  Main = Main
  MaxStarts = 2
SPECIFICATION Spec
INVARIANTS
  CounterIsExact
  IndexInBounds
  NoSelfJoin
  ShutdownNotForgotten
  DestructorIsQuiet
CHECK_DEADLOCK FALSE
