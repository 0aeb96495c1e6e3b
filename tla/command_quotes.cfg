SPECIFICATION LineSpec
CONSTANTS
  Assignments <- AssignmentWords
  Tildes <- TildeWords
  Dashed <- DashedWords
  Expanding <- ExpandingWords
  Unplain <- UnplainWords
  Clusters <- ClusterWords
  Strings <- ShellStrings
  Preferences <- PreferenceList
  Profiles <- ProfileList
  Typable <- WaysOfTyping
  MaxTyped = 4
INVARIANT
  StringIsKept
CHECK_DEADLOCK FALSE
