SPECIFICATION Spec
CONSTANTS
  n = 4
  Pairs <- MCPairs
  FirstId = 1
  InitialSlots = 1
  Increment = 1
  MaxIds = 5
  Home <- MCHome
  InitialSize = 4
  MaxSize = 8
INVARIANTS IInv TrianglesFound TableSound
PROPERTIES MapSpec
