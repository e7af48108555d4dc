SPECIFICATION Spec
CONSTANTS
  NumCores = 2
  BankSize = 2
  Rate = 2
  QueueLen = 2
  Sizes = {1}
  MaxObjects = 1
  MaxCommands = 2
  CacheLoads = 2
  Careless = {}
INVARIANT Delivery
