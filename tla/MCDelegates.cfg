SPECIFICATION Spec
CONSTANTS
  gpu = gpu
  cpu = cpu
  Delegates = {gpu, cpu}
  NoDelegate = NoDelegate
  Graphs <- DelegateGraphs
  Faults <- OneFault
INVARIANTS TypeOK PlanRunsGraph OrderKept KernelTensors ImmutableIsReady PlanRestored
PROPERTIES RedoneInOrder
