SPECIFICATION Spec
CONSTANTS
  MaxAddr = 4
  Index <- MCIndex
  Offset = {0, 1}
VIEW View
INVARIANTS TypeOK NormalForm BakedIsCurrent QueriesAgree BelowUntouched FreshMappingAddressed
PROPERTY ImplementsIntervalMap
