SPECIFICATION Spec
CONSTANTS
  p1 = p1
  p2 = p2
  c1 = c1
  c2 = c2
  d1 = d1
  d2 = d2
  o1 = o1
  o2 = o2
  o3 = o3
  Procs <- OneProcess
  Commands = {c1}
  Fingerprint <- Distinct
  Places = {d1}
  Exits = {0, 1}
  Outputs = {o1, o2}
  Long = {}
  MaxRuns = 4
  Window = 2
  MaxIndexLines = 3
  RetainEntries = 3
  DeltaRender = TRUE
  Faults = TRUE
  Crashes = TRUE
  Damages = TRUE
SYMMETRY Symmetric
INVARIANTS
  NoDangling
  RefExpandsUncut
  BaselineExpands
  BaselineIsLastRun
  ReferenceIsHonest
  NoLeak
CHECK_DEADLOCK FALSE
