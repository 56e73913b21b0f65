SPECIFICATION Spec
CONSTANTS
  SizeMax = 40
  Alignment = 2
  kNodeNotAssigned = 9
  kScalarTensorBytes = 1
  Sizes = {1, 2}
  InitialSize = 2
  Forms = {0}
  NumOps = 5
  Kinds = {}
  Options <- NoOption
  Graphs <- ViewChain
  Faults = {}
INVARIANTS ReadsSeeProducer
