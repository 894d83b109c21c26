SPECIFICATION Spec
CONSTANTS
  Edge <- MCEdge
  GraphFiles <- MCGraphFiles
  Logs <- MCLogs
  BatchSize = 2
  NumBatches = 2
INVARIANTS GeneratedInRange ModesAgree SnapExact SavedGraphReloads
