CONSTANTS
  SReg = {"r0", "r1", "r2"}
  VReg = {"v0", "v1", "v2"}
  Width = 4
  CacheSize = 27
  MemSize = 5
  ScratchSize = 2
  Buffer <- Buffers
  MaxLoads = 1
  Programs <- Scalar
SPECIFICATION Spec
PROPERTY ImplementsSequentialCore
