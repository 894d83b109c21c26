SPECIFICATION Spec
CONSTANTS
  T = 3
  Chunk = 2
  Threshold = 3
  Counts = {0, 2, 3, 5}
  MaxCalls = 2
  MaxSpurious = 1
INVARIANTS NoStraggler IInv
PROPERTIES LoopSpec ShutdownCompletes
