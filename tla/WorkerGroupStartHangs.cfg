CONSTANTS
  TotalWorkers = 1
  Main = Main
  MaxStarts = 1
SPECIFICATION FairSpec
PROPERTY WaitEndsWhenRunning
CHECK_DEADLOCK FALSE
