SPECIFICATION Spec
CONSTANTS
  SizeMax = 40
  Alignment = 2
  kNodeNotAssigned = 9
  kScalarTensorBytes = 1
  Sizes = {1, 2}
  InitialSize = 2
  Forms = {0}
  NumOps = 3
  Kinds = {"add", "reshape", "unique"}
  Options <- AnyOption
  Graphs <- DynamicAndSharing
  Faults = {}
INVARIANTS TypeOK ReadsSeeProducer WritesInBounds NodeWritesApart InputsPreserved PreparedForInputs PlansOnFromLastActive OutputsReadable
