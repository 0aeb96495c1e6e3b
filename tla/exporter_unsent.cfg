SPECIFICATION Spec
CONSTANTS
  p1 = p1
  Procs <- OneProcess
  MaxEvents = 4
  MaxStarts = 1
  SizeOf <- LastIsLong
  Limits <- TightAndRoomy
  BatchSize = 2
  Faults = FALSE
PROPERTY UnsentStays
CHECK_DEADLOCK FALSE
