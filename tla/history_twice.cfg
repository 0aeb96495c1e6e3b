SPECIFICATION Spec
CONSTANTS
  p1 = p1
  p2 = p2
  Procs <- TwoProcesses
  MaxRuns = 4
  Excluded = {}
  LineSizes = {1}
  ClippedSize = 1
  OversizedSize = 2
  MaxFileBytes = 1
  RetainRecords = 2
  MaxLegacy = 2
  Faults = FALSE
  Crashes = FALSE
  Clears = FALSE
SYMMETRY Symmetric
INVARIANT
  CountedOnce
CHECK_DEADLOCK FALSE
