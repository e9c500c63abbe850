CONSTANTS
  w1 = w1
  w2 = w2
  HashModulus = 5
  Vars <- ProblemVars
  Pairs <- CheckedPairs
  UnionThreshold = 2
  MaxTargets = 2
  MaxQueries = 2
SPECIFICATION MCSpec
INVARIANTS
  ProblemIsRight
  MeaningKept
  StoreIsRight
CHECK_DEADLOCK FALSE
