CONSTANTS
  TotalWorkers = 2
  Main = Main
  MaxStarts = 1
  MaxStartTasks = 2
SPECIFICATION FairControllerSpec
INVARIANTS
  StopTaskAfterAccept
  StopTaskOnce
  DestructionIsQuiet
  NobodyLeftBehind
PROPERTY ListenerStopReturns
CHECK_DEADLOCK FALSE
