SPECIFICATION Spec
CONSTANTS
  NumBanks = 1
  BankSize = 2
  ObjectIds = {0}
  ObjectLen = 2
  Values = {0, 1}
  Items = {x}
  Empty = Empty
  QueueDepth = 2
  BoxIds = {1, 2}
  MaxOutstanding = 2
  MaxReady = 2
  MaxLeftover <- OneShared
INVARIANT ReadyMeansServed
