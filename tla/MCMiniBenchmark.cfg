SPECIFICATION Spec
CONSTANTS
  gpu = gpu
  cpu = cpu
  Apps = {a1}
  NoApp = NoApp
  ForSettings <- MCSettings
  Cpu = cpu
  Latency <- MCLatency
  kMaxAttempts = 2
  PerTestTimeout = TRUE
  MaxChildren = 2
  MaxIncidents = 3
INVARIANTS TypeOK AttemptsBounded ValidatesItsRequest BestIsCurrent
PROPERTIES StartsAnswered RunnerEnds
CHECK_DEADLOCK FALSE
