SPECIFICATION PeelSpec
CONSTANTS
  Edge <- MCEdge
  Triangle <- MCTriangle
  Trussness <- MCTrussness
  Inputs <- MCGraphs
  TauModulus = 65536
INVARIANTS PeelInv ResultExact
PROPERTIES Returns
