SPECIFICATION Safety
CONSTANTS
  Edge <- FiveEdge
  Triangle <- FiveTriangle
  Trussness <- MCTrussness
  Files <- AllFiles
  FirstId = 0
  Spare = 1
  Reserve = 0
  Batches <- AllBatches
  MaxBatches = 1
  MaxIds = 8
  TauModulus = 65536
  NoEdge = {}
INVARIANTS DeletionWitnessExact SupportsExact FrozenExact NoBoundaryEvents NoExit
PROPERTIES MaintainedSafety RoundsSafety
