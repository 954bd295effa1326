\* Two threads that include, run and shut down; up to three descriptions.
CONSTANTS
  th1 = th1
  th2 = th2
  Unset = Unset
  None = None
  NoExpr = NoExpr
  Empty = ""
  CurrentFile = ""
  DirectoryOf = ""
  Environment <- MCEnvironment
  Path <- MCPath
  Executables <- MCExecutables
  Output <- MCOutput
  MaxDescriptions = 3
  Threads <- MCThreads
  Keys <- MCKeys
  Values <- MCValues
  Falsy <- MCFalsy
  Actions <- MCActions
  Act <- MCAct
  Files <- MCFiles
  Body <- MCBody
  Descriptions <- MCDescriptions
  Contents <- MCContents
SPECIFICATION FairSpec
INVARIANTS StartedAsMeant AcceptedIsLaunched ArgumentsWin OneRunner OneStopper StoppedUnlessOvertaken
PROPERTIES StatusMovesOn RunReturns
