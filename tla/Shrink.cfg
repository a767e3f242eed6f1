SPECIFICATION LiveSpec
CONSTANTS
  MinStep = 1
  MaxStep = 2
  MaxStepPct = 0
  TargetChunks = 2
  TierStep <- MCTierStep
  SmallCeiling = 2
  MediumCeiling = 3
  Files = 2
  MaxSize <- MCMaxSize
  GrowTo <- MCGrowTo
  Kinds = {"data", "log", "tempdb"}
  Keep = 0
  Target = 1
  MaxBlock = 1
  MaxNoProgress = 2
  FlushAt = 1
  Backoff = 1
  BackoffMax = 1
  SelfWait = 1
  ReuseWait = 1
CHECK_DEADLOCK FALSE
INVARIANT EffortBounded
INVARIANT FilesReported
PROPERTY StopHeeded
