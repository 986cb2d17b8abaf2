SPECIFICATION HSpec
CONSTANTS
  v1 = v1
  v2 = v2
  d1 = d1
  d2 = d2
  d3 = d3
  f1 = f1
  f2 = f2
  f3 = f3
  p0 = p0
  stale = stale
  Stale = stale
  VolumeHandle = {v1, v2}
  DirHandle = {d1, d2, d3}
  FileHandle = {f1, f2, f3}
  BaseLen = 2
  TotalLen = 3
  Char = {"a", "A", ".", "E5", " "}
  InvalidChar = {" "}
  Upper <- MCUpper
  Text <- MCText
  Partition = {p0}
  Slot = {1, 2}
  FirstSlots = 1
  DirCluster = {3}
  MaxVolumes = 2
  MaxDirs = 2
  MaxFiles = 2
  MaxFaults = 1
  MaxTrouble = 1
SYMMETRY Symmetry
INVARIANTS
  TablesOK
  TablesConsistent
  OneHandlePerFile
  OpenFilesExist
  TreeConnected
  NamesUnique
  DirectoriesApart
  ShownNameFinds
  HeldAreOpen
  NothingLeaks
