CONSTANTS
  a = a
  b = b
  c = c
  Procs = {p1}
  Keys <- MCKeys
  Size <- MCSize
  kMinAlignment = 3
  LooksUpFirst = TRUE
  MaxMisses = 2
  MaxFails = 2
SPECIFICATION Spec
INVARIANTS TypeOK LookUpSound Addressable LoadableIsSound CrashBetweenStepsKeepsAll
