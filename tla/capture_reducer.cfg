SPECIFICATION FairSpec
CONSTANTS
  Profiles <- ReducerProfiles
  PreviewBytes = 2
  BypassBytes = 2
  BypassTokens = 1
  RunesPerToken = 2
  RuneBytes = 2
  TeeMaxBytes = 3
  MaxChunk = 2
  MaxOutput = 3
  ReadFaults = FALSE
  TeeFaults = FALSE
INVARIANTS
  CaptureInv
  CompleteCaptureIsWhole
  ReducerSeesItsStreams
  FastPathRelaysWhole
PROPERTIES
  RunEnds
  DonePreviewIsLast
