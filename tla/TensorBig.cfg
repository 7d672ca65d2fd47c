SPECIFICATION Spec
CONSTANTS
  CudaPtr = {g1, g2}
  CpuPtr = {h1}
  Null = Null
  MB = 2
  TrimLimit = 0
  Tensors = {t1, t2}
  Buffers = {b1, b2, b3}
  NoBuffer = NoBuffer
  Foreign = Foreign
  Sizes = {1, 3, 4, 5}
SYMMETRY Symmetry
INVARIANTS
  SlackBounded
