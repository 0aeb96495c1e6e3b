SPECIFICATION RenderingSpec
CONSTANTS
  Jobs <- MCJobs
  Words <- MCWords
  SummaryCounts <- MCCounts
  MaxFacts = 10
  ArtifactLimit = 300
  Filters = {"compact", "streams", "spec", "failure", "readlog", "find", "ripgrep", "gotest",
             "gitstatus", "gitlog", "gitlogfull", "gitdiff", "gitstat", "gitop", "gitbranch",
             "gitcommit", "gitpush", "gitpull",
             "cargotest", "cargobuild", "cargohints", "pytest", "pythontool", "anchored",
             "dotnetbuild", "dotnettest", "gradle", "pulumi", "build", "buildkit", "terraform",
             "jstest", "jsreport", "jstooling",
             "table", "du", "sql", "sqljson", "query", "structure", "cloud", "ecs", "awslogs",
             "stack", "s3", "kubeget", "describe", "kubelogs", "apply", "rollout", "kubediff",
             "dockerps", "dockerlogs", "images", "transfer", "compose", "prview", "runview", "runlog",
             "checks", "items", "pipelines",
             "doc", "code", "signature", "listing", "tree", "patch", "binary", "env", "http",
             "cloudlogs"}
  AnomalyMinRows = 3
  MaxDistinct = 3
  RareShare = 20
  UniformMin = 4
  StructureDepth = 2
  MaxLines = 3
  Allowance = 2
  BlockBudget = 1
  MinFailures = 1
  MinAnchors = 1
  MinHints = 1
  MaxErrors = 2
  MaxOthers = 2
  SniffWindow = 3
  SniffMin = 2
  VerbatimFloor = 2
  MaxGroups = 2
  LogEntries = 2
  LargeDiff = 2
  LargeTop = 1
  AggressiveTop = 1
  VerbatimLines = 3
  InventoryTop = 1
  HintLimit = 1
  RefLimit = 1
  OtherLimit = 1
  MergeLimit = 1
  ComposeBlock = 1
  KeptDominant = 1
  ListingFloor = 3
  GroupPreview = 1
  TreeSamples = 1
  SignatureParts = 3
  EnvWidth = 1
  FindLines = 4
  MaxFed = 5
INVARIANTS
  FailureIsInformative
  CriticalFactsSurvive
  OmissionIsRecoverable
  HidingIsRecoverable
  NotesAreTrue
  StreamedIsBatch
  NamesComeFirst
CHECK_DEADLOCK FALSE
