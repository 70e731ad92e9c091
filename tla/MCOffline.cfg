CONSTANTS
  StepCounts = {0, 1, 3}
  BlockSize = 2
  ContextLengths = {1, 4}
  MaxSplit = 5
  MaxRuns = 2
  MaxInterrupts = 2
  MaxKills = 1
  Torn = Torn
  Absent = Absent
  Memories = {f1, f2}
  TopK = 1
  MaxScenarios = 2
  MaxTasks = 2
  None = None
  Budgets = {0, 3, 4}
  TopKs = {1, 2}
  WrapperSize = 1
  Size <- MCSize
  Radix = 2
  IdSize = 1
  RankedKeys = {"home", "food"}
  MaxRanked = 3
  Detectors <- MCDetectors
  MaxLength = 4
  MaxFindings = 3
  Letters = {"my", "about", "that", "editor", "dog", "project", "name"}
  Preferences = {"editor"}
  Phrases <- MCPhrases
  Values = {"v1", "v2"}
  MaxFlags = 1
  MaxStored = 2
SPECIFICATION OfflineSpec
INVARIANTS CheckpointCounts NothingLost ModeFits WindowsFit
INVARIANTS GateCatches OutcomesAgree MeansAgree ConclusionHonest
INVARIANTS BlockWithinBudget BlockAccounted
INVARIANTS StoreIsLastSaid RedactionCovers
CHECK_DEADLOCK FALSE
