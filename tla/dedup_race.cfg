SPECIFICATION Spec
CONSTANTS
  p1 = p1
  p2 = p2
  c1 = c1
  c2 = c2
  d1 = d1
  d2 = d2
  o1 = o1
  o2 = o2
  o3 = o3
  Procs <- TwoProcesses
  Commands = {c1}
  Fingerprint <- Distinct
  Places = {d1}
  Exits = {0}
  Outputs = {o1, o2}
  Long = {}
  MaxRuns = 4
  Window = 3
  MaxIndexLines = 2
  RetainEntries = 2
  DeltaRender = FALSE
  Faults = FALSE
  Crashes = FALSE
  Damages = FALSE
SYMMETRY Symmetric
INVARIANTS
  RefExpands
CHECK_DEADLOCK FALSE
