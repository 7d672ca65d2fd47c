SPECIFICATION Spec
CONSTANTS
  CudaPtr = {g1, g2, g3}
  CpuPtr = {h1, h2}
  Null = Null
  MB = 2
  TrimLimit = 2
  Tensors = {t1, t2}
  Buffers = {b1, b2, b3}
  NoBuffer = NoBuffer
  Foreign = Foreign
  Sizes = {3}
PROPERTY ReleaseReturns
