SPECIFICATION Spec
CONSTANTS
  MaxAddr = 4
  Index <- MCIndex
  Offset = {0, 1}
VIEW View
INVARIANT RemovalIsLocal
