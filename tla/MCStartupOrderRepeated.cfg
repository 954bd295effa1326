\* A dependency that is listed twice.
CONSTANTS
  a = a
  b = b
  c = c
  Names <- MCNames
  Sorted <- MCSorted
  MaxDependencies = 2
SPECIFICATION Spec
INVARIANT AcyclicIsResolved
