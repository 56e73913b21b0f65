SPECIFICATION Spec
CONSTANTS
  SizeMax = 5
  Alignment = 2
  kNodeNotAssigned = 9
  Tensors = {t1, t2, t3}
  NumNodes = 2
  Sizes = {1, 3}
  MaxActive = 3
CONSTRAINT FewActive
SYMMETRY TensorSymmetry
INVARIANTS TypeOK PlanDisjoint CommittedResolves AllocsAligned LoopComputesSearch
PROPERTY ImplementsContract
