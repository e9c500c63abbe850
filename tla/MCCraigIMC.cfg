CONSTANTS
  a = a
  b = b
  None = None
  Symbols = {a, b}
  Inputs = {0, 1}
  NumOutputs = 2
  MaxLookahead = 2
  MaxPass = 4
  MaxRetries = 1
  CompactionStart = 3
  CompactionLimit = 2
  Problems <- SmallProblems
SPECIFICATION Spec
INVARIANTS
  SearchIsSound
PROPERTY Terminates
