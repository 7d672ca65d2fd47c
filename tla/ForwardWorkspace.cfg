SPECIFICATION Spec
CONSTANTS
  SizeMax = 100000
  IntMax = 10000
  FloatSize = 4
  MinReserve = 1200
  Scale = 20
  Devices = {"cuda"}
  Config <- MCConfig
  Rows = {1, 2}
  MaxBatches = 2
  Failing = {}
  Blocks = 60
  Reusable <- MCReusable
CHECK_DEADLOCK FALSE
INVARIANT WorkspaceCovered
