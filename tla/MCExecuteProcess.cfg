\* All combinations of the options that differ (without safety there is no watchdog,
\* with one retry no back-off); the action is executed up to three times.
CONSTANTS
  p1 = p1
  p2 = p2
  p3 = p3
  NoPid = NoPid
  Pids <- MCPids
  OptionSets <- MCOptionSets
  MaxExecutes = 3
  MemoryLevels <- MCMemoryLevels
  LoadLevels <- MCLoadLevels
  EstimatedMemory = 2
  Width = 4
SPECIFICATION FairSpec
INVARIANTS TypeOK StoppedIsGone NothingOutOfReach WatchesItsOwn
PROPERTIES ImplementsRetryPolicy ExecuteReturns StopReturns
CHECK_DEADLOCK FALSE
