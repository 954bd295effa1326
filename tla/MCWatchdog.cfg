\* Two nodes; one thread starts and stops the watchdog.
CONSTANTS
  n1 = n1
  n2 = n2
  Nodes <- MCNodes
  Timeouts <- MCTimeouts
SPECIFICATION FairSpec
INVARIANTS TypeOK OneReportPerSilence QuietOnceStopped
PROPERTIES NoFalseAlarm SilenceIsNoticed StopReturns
