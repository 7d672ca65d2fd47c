SPECIFICATION Spec
CONSTANTS
  SizeMax = 2047
  IntMax = 15
  FloatSize = 4
  MinReserve = 90
  Scale = 20
  Utilization = 18
  BlockLimit = 2
  BatchLimit = 3
  Commands <- MCCommands
  Checkpoints <- MCCheckpoints
  Gpus <- MCGpus
  Requests <- MCRequests
INVARIANT RequestsFitContext
