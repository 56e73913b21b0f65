SPECIFICATION Spec
CONSTANTS
  SizeMax = 40
  Alignment = 2
  kNodeNotAssigned = 9
  kScalarTensorBytes = 1
  Sizes = {1, 2}
  InitialSize = 2
  Forms = {0, 1}
  NumOps = 3
  Kinds = {}
  Options <- NoOption
  Graphs <- ReshapeToChain
  Faults = {}
INVARIANTS PreparedForInputs
