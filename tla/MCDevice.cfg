SPECIFICATION Spec
CONSTANTS
  NumCores = 3
  BankSize = 3
  Rate = 1
  QueueLen = 2
  Sizes = {1, 4, 5}
  MaxObjects = 2
  MaxCommands = 3
  CacheLoads = 2
  Careless = {}
INVARIANTS TypeOK Delivery Resident
PROPERTY LoopEnds
