SPECIFICATION Spec
CONSTANTS
  n = 4
  T = 3
  Graphs <- MCGraphs
  MaxCalls = 2
  Modulus = 3
INVARIANTS IInv SupportsExact
PROPERTIES LoopSpec
