SPECIFICATION MCSpec
CONSTANTS
  Problems <- MCProblems
  Cubes <- MCCubes
  Batches <- MCBatches
  Kissat = TRUE
  MaxSteps = 2
  MaxQuestions = 2
  CoreLimit = 2
  SolverLimit = 1
  BlockerLimit = 2
  RefinementLimit = 1
  SparseLimit = 2
  LocalLimit = 3
INVARIANTS
  FrontierIsRight
  
  EncodingIsRight
CHECK_DEADLOCK FALSE
