SPECIFICATION Spec
CONSTANTS
  f1 = f1
  f2 = f2
  NoFile = NoFile
  File = {f1, f2}
  InitialChain <- MCInitialChain
  InitialContent <- FourOnes
  Buffers <- TwoTwos
  ReadSizes = {3}
  MaxFileSize = 5
  MaxOpenFiles = 1
  BlockLen = 2
  BlocksPerCluster = 1
  ClusterCount = 3
  MaxFaults = 1
INVARIANTS
  CursorSound
  ChainCoversSize
PROPERTIES
  FilesAreBytes
