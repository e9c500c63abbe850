CONSTANTS
  NumOutputs = 3
  Observed <- Outputs
  Tasks <- AllTasks
  x0 = x0
  x1 = x1
  Symbols = {x0, x1}
  Inputs = {0}
  Models <- AllModels
  Learnable <- LearnedSets
  MaxLiterals = 6
  MaxRevision = 2
SPECIFICATION MCSpec
CHECK_DEADLOCK FALSE
INVARIANTS
  ProvedIsSound
  DifferenceDecides
  StrategyInvariant
  ExportIsRight
  InvariantCertified
  MaximumKept
PROPERTIES
  TaskEnds
  RunsAreBaseCaseRuns
  InvariantOnlyStrengthens
  RefreshEnds
