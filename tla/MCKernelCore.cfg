CONSTANTS
  SReg = {"r1", "r2", "r3"}
  VReg = {"v1", "v2", "v3", "v4"}
  Width = 8
  CacheSize = 30
  MemSize = 1
  Setups <- MCSetups
  Commands <- MCCommands
  MaxCommands = 3
  Narrow = 8
  Empty = Empty
  Deviations = {}
SPECIFICATION Spec
INVARIANTS TypeOK KernelsCompute KernelsStayInRange
PROPERTY KernelsEnd
CHECK_DEADLOCK FALSE
