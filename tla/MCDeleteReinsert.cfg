SPECIFICATION Safety
CONSTANTS
  Edge <- FourEdge
  Triangle <- FourTriangle
  Trussness <- MCTrussness
  Files <- DiamondFile
  FirstId = 1
  Spare = 0
  Reserve = 1
  Batches <- PairBatches
  MaxBatches = 1
  MaxIds = 8
  TauModulus = 65536
  NoEdge = {}
PROPERTIES DeletionsFirst
