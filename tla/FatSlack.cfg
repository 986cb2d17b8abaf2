SPECIFICATION Spec
CONSTANTS
  f1 = f1
  f2 = f2
  d1 = d1
  NoFile = NoFile
  DirStart <- MCDirStart
  File = {f1, f2}
  Directory = {}
  ClusterCount = 3
  EntriesPerBlock = 3
  BadClusters = {}
  InfoHints = {0}
  CountMod = 8
  Fat32 = FALSE
  SecondFat = FALSE
  MaxFaults = 0
SYMMETRY Symmetry
INVARIANTS
  AllocatedInRange
