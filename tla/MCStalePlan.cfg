SPECIFICATION Spec
CONSTANTS
  gpu = gpu
  cpu = cpu
  Delegates = {gpu, cpu}
  NoDelegate = NoDelegate
  Graphs <- OneGraph
  Faults <- NoFault
INVARIANTS PreparedHaveMemory
