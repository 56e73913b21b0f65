CONSTANTS
  a = a
  b = b
  c = c
  Procs = {p1}
  Keys <- MCKeys
  Size <- MCSize
  kMinAlignment = 3
  LooksUpFirst = TRUE
  MaxMisses = 2
  MaxFails = 0
SPECIFICATION Spec
INVARIANT ReachableOutsideOfBuildStep
