CONSTANTS
  a = a
  b = b
  Symbols = {a, b}
  Inputs = {0, 1}
  Problems <- CheckedProblems
  NumOutputs = 3
  MaxK = 1
  MaxPrecheck = 2
  MaxStored = 3
  MaxSplitHypothesis = 2
  UnknownStops = 2
SPECIFICATION Spec
CHECK_DEADLOCK FALSE
INVARIANTS
  CoverageIsSound
  DifferencesAreRight
PROPERTIES
  Terminates
