SPECIFICATION Spec
CONSTANTS
  Edge <- MCEdge
  Triangle <- MCTriangle
  Trussness <- MCTrussness
  Threads = {t1, t2}
  Cases <- MCCases
INVARIANTS RegionIsClosure IInv
PROPERTIES Terminates RoundsSafety
