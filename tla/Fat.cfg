SPECIFICATION FairSpec
CONSTANTS
  f1 = f1
  f2 = f2
  d1 = d1
  NoFile = NoFile
  DirStart <- MCDirStart
  File = {f1, f2, d1}
  Directory = {d1}
  ClusterCount = 6
  EntriesPerBlock = 4
  BadClusters = {5, 7}
  InfoHints = {7}
  CountMod = 1
  Fat32 = TRUE
  SecondFat = TRUE
  MaxFaults = 1
INVARIANTS
  FatSound
  NoSharedClusters
  FatCopiesAgree
  IInv
  LeakOnlyOnError
PROPERTIES
  OthersUntouched
  AllocFindsSpace
  OperationsReturn
