SPECIFICATION Spec
CONSTANTS
  BlockDim = 4
  WarpSize = 2
  Kernels <- MCKernels
  HeadSize = 4
  QueryHeads = 3
  KvHeads = 1
INVARIANTS
  RaceFree
  ReadsAsSequential
