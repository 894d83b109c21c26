SPECIFICATION Spec
CONSTANTS
  Edge <- MCEdge
  Triangle <- MCTriangle
  Trussness <- MCTrussness
  InitialGraphs <- MCGraphs
  MaxOps = 2
  EvalLimit = 65000
INVARIANTS IInv EvalExact SupportsExact
PROPERTIES MaintainedSpec
