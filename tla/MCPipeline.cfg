CONSTANTS
  SReg = {"r0", "r1"}
  VReg = {"v0", "v1"}
  Width = 4
  CacheSize = 4
  MemSize = 5
  ScratchSize = 2
  Buffer <- Buffers
  MaxLoads = 1
  Programs <- Lines
SPECIFICATION Spec
INVARIANTS OneMemOp OwnTransaction HazardFree StartedOnce WritesSettled
PROPERTY ImplementsSequentialCore
