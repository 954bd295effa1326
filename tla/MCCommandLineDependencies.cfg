\* What depends_on asks for, in the plainest layout.
CONSTANTS
  process = process
  declare = declare
  group = group
  arm = arm
  sim = sim
  robot = robot
  screen = screen
  ten = ten
  varRobot = varRobot
  varSim = varSim
  envHost = envHost
  Empty = Empty
  Unset = Unset
  NoExpr = NoExpr
  Odd = Odd
  Words <- MCWords
  Names <- MCNames
  Strings <- MCStrings
  Refers <- MCRefers
  Process = process
  Declare = declare
  Keys <- MCKeys
  Values <- MCValues
  Environment <- MCEnvironment
  Path = Unset
  Executables <- None
  CurrentFile = Empty
  DirectoryOf <- None
  Output <- None
  Spelling <- MCSpelling
  Arguments <- MCArguments
  Sources <- MCPlainSources
SPECIFICATION LaunchSpec
INVARIANT DependenciesStartFirst
CHECK_DEADLOCK FALSE
