SPECIFICATION ServicesSpec
CONSTANTS
  p1 = p1
  Procs <- OneProcess
  Runners <- OneProcess
  MaxRelease = 3
  MaxHour = 3
  MaxStarts = 3
  Interval = 2
  Envelopes <- GatewayEnvelopes
  Bases <- TunedBudgets
  Commands <- PlainRuns
  MaxClock = 3
  MaxAge = 1
  MaxLife = 3
  MinSamples = 20
  Lookback = 4
  Adaptive = FALSE
  MaxRuns = 5
  MinRuns = 2
  HarmShare = 2
  Assignments <- AssignmentWords
  Tildes <- TildeWords
  Dashed <- DashedWords
  Expanding <- ExpandingWords
  Unplain <- UnplainWords
  Clusters <- ClusterWords
  Strings <- ShellStrings
  Preferences <- PreferenceList
  Profiles <- ProfileList
  Typable <- WaysOfTyping
  MaxTyped = 4
INVARIANTS
  SuccessIsInstalled
  KnownUpdateIsTold
  AdaptationIsCapped
  MatchedIsWhatRuns
  OnlyFlagsAreAdded
  HookKeepsTheLine
PROPERTIES
  FailureWaits
  RollbackSticks
CHECK_DEADLOCK FALSE
