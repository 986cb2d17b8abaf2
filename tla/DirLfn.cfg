SPECIFICATION Spec
CONSTANTS
  ShortName <- MCShortName
  Csum <- MCCsum
  Foreign <- MCForeign
  Leftover <- MCLeftover
  Sought <- MCSought
  PieceLen = 2
  BufferLen = 6
  Unit <- MCUnit
  Width <- MCWidth
  SeqLimit = 4
  SlotsPerBlock = 3
  BlocksPerCluster = 1
  MaxClusters = 2
  Fixed = FALSE
  MaxFaults = 0
INVARIANTS
  FoundByLongName
