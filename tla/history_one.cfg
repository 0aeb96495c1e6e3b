SPECIFICATION Spec
CONSTANTS
  p1 = p1
  p2 = p2
  Procs <- OneProcess
  MaxRuns = 5
  Excluded = {2}
  LineSizes = {1, 3}
  ClippedSize = 1
  OversizedSize = 4
  MaxFileBytes = 4
  RetainRecords = 3
  MaxLegacy = 2
  Faults = TRUE
  Crashes = TRUE
  Clears = TRUE
INVARIANTS
  CountedOnce
  RunsAccounted
  ClearedIsGone
  SortedWindow
PROPERTIES
  AppendSettles
