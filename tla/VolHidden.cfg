SPECIFICATION Spec
CONSTANTS
  v1 = v1
  v2 = v2
  d1 = d1
  d2 = d2
  d3 = d3
  f1 = f1
  f2 = f2
  f3 = f3
  p0 = p0
  stale = stale
  Stale = stale
  VolumeHandle = {v1, v2}
  DirHandle = {d1, d2}
  FileHandle = {f1, f2}
  BaseLen = 2
  TotalLen = 3
  Char = {"a", "A", ".", "E5", " "}
  InvalidChar = {" "}
  Upper <- MCUpper
  Text <- MCText
  Partition = {p0}
  Slot = {1}
  FirstSlots = 1
  DirCluster = {3}
  MaxVolumes = 1
  MaxDirs = 1
  MaxFiles = 2
  MaxFaults = 0
INVARIANTS
  OpenOnce
