SPECIFICATION Spec
CONSTANTS
  Profiles <- TeeProfiles
  PreviewBytes = 3
  BypassBytes = 2
  BypassTokens = 1
  RunesPerToken = 2
  RuneBytes = 1
  TeeMaxBytes = 3
  MaxChunk = 2
  MaxOutput = 4
  ReadFaults = TRUE
  TeeFaults = TRUE
INVARIANTS
  KeptTeeHoldsRun
