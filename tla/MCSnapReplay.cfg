SPECIFICATION Spec
CONSTANTS
  Edge <- MCEdge
  GraphFiles <- MCGraphFiles
  Logs <- MCReplayLogs
  BatchSize = 2
  NumBatches = 2
INVARIANTS SnapReplays
