CONSTANTS
  a = a
  b = b
  c = c
  Procs = {p1, p2}
  Keys <- MCKeys
  Size <- MCSize
  kMinAlignment = 3
  LooksUpFirst = TRUE
  MaxMisses = 0
  MaxFails = 0
SPECIFICATION Spec
INVARIANT SharedBetweenProcesses
