\* Every graph on up to three processes with lists of up to two dependencies.
CONSTANTS
  a = a
  b = b
  c = c
  Names <- MCNames
  Sorted <- MCSorted
  MaxDependencies = 2
SPECIFICATION FairSpec
INVARIANTS OrderIsStartable VerdictIsRight CircularPathIsACycle ExecutedInOrder
PROPERTY Returns
