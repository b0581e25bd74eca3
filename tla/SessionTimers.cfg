CONSTANTS
  IdleTimeout = 12
  Res = 2
  First = 5
  Later = 2
  Total = 7
  MaxHeader = 3
  ChunkSizes = {0, 1, 2}
  MaxCandidates = 2
  MaxPieces = 2
SPECIFICATION SessionSpec
INVARIANTS PhaseBounded SilenceBounded OnlySilenceIsKilled EndsWithTheLastPump
PROPERTIES CloseUpstreamOnce SilenceEnds
CHECK_DEADLOCK FALSE
