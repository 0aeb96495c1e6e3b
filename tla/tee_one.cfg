SPECIFICATION Spec
CONSTANTS
  p1 = p1
  p2 = p2
  Procs <- OneProcess
  MaxRuns = 4
  SizeOf <- ByTurns
  MaxDirFiles = 2
  MaxDirBytes = 3
  Hours = TRUE
  Commands = TRUE
  Faults = TRUE
  Crashes = TRUE
INVARIANTS
  ReferenceLives
  EntryHasFile
  FileHasEntry
PROPERTIES
  BoundedAfterPrune
CHECK_DEADLOCK FALSE
