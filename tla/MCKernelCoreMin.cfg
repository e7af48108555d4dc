CONSTANTS
  SReg = {"r1", "r2", "r3"}
  VReg = {"v1", "v2", "v3", "v4"}
  Width = 8
  CacheSize = 30
  MemSize = 1
  Setups <- MCSetups
  Commands <- MCMinimum
  MaxCommands = 1
  Narrow = 8
  Empty = Empty
  Deviations = {"min"}
SPECIFICATION Spec
INVARIANT KernelsCompute
CHECK_DEADLOCK FALSE
