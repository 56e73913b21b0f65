SPECIFICATION Spec
CONSTANTS
  SizeMax = 40
  Alignment = 2
  kNodeNotAssigned = 9
  kScalarTensorBytes = 1
  Sizes = {1, 2}
  InitialSize = 2
  Forms = {0, 1}
  NumOps = 2
  Kinds = {"add", "reshape", "reshapeTo", "unique", "svdf"}
  Options <- NoOption
  Graphs <- ConnectedGraphs
  Faults = {"mallocInAllocate", "prepare", "op"}
INVARIANTS ReadsSeeProducer WritesInBounds VariablesPreserved PreparedForInputs PlansOnFromLastActive InvokableHasMemory CachesReadable
