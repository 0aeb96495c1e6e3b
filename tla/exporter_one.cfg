SPECIFICATION Spec
CONSTANTS
  p1 = p1
  Procs <- OneProcess
  MaxEvents = 4
  MaxStarts = 2
  SizeOf <- LastIsLong
  Limits <- TightAndRoomy
  BatchSize = 2
  Faults = TRUE
INVARIANT LossIsCounted
PROPERTIES
  Drains
  ImplementsLedger
CHECK_DEADLOCK FALSE
