CONSTANTS
  a = a
  b = b
  Symbols = {a, b}
  Inputs = {0}
  Problems <- CheckedProblems
  NumOutputs = 2
  MaxK = 1
  MaxPrecheck = 2
  MaxStored = 2
  MaxSplitHypothesis = 2
  UnknownStops = 2
SPECIFICATION Spec
CHECK_DEADLOCK FALSE
INVARIANT PartialVerdictSound
