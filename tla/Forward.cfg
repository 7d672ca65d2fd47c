SPECIFICATION Spec
CONSTANTS
  SizeMax = 100000
  IntMax = 10000
  FloatSize = 4
  MinReserve = 0
  Scale = 20
  Devices = {"cpu", "cuda"}
  Config <- MCConfig
  Rows = {1, 2, 5}
  MaxBatches = 2
  Failing = {1}
  Blocks = 60
  Reusable <- MCReusable
CHECK_DEADLOCK FALSE
INVARIANTS
  ShapesAgree
  ComputesDecoder
