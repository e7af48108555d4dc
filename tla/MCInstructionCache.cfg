SPECIFICATION Spec
CONSTANTS
  Size = 4
  Progs <- MCProgs
  Length <- MCLength
  Target <- MCTarget
  MaxSlots = 2
  MaxLoads = 2
INVARIANTS TypeOK FetchDefined JumpsStayInside
PROPERTIES CareIsEnough ImplementsProgramMemory
