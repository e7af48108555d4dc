SPECIFICATION Spec
CONSTANTS
  NumBanks = 2
  BankSize = 1
  ObjectIds = {0}
  ObjectLen = 2
  Values = {0, 1}
  Items = {x}
  Empty = Empty
  QueueDepth = 1
  BoxIds = {1, 2}
  MaxOutstanding = 1
  MaxReady = 0
  MaxLeftover <- OneShared
INVARIANTS TypeOK ReadyMeansServed OwnCompletion
PROPERTIES ReadyIsCurrent BoxEventuallyReady
