SPECIFICATION FairSpec
CONSTANTS
  f1 = f1
  f2 = f2
  NoFile = NoFile
  File = {f1, f2}
  InitialChain <- MCInitialChain
  InitialContent <- ThreeBytes
  Buffers <- TwoTwos
  ReadSizes = {2}
  MaxFileSize = 3
  MaxOpenFiles = 2
  BlockLen = 1
  BlocksPerCluster = 2
  ClusterCount = 3
  MaxFaults = 0
INVARIANTS
  TypeOK
PROPERTIES
  FilesAreBytes
  CallsReturn
