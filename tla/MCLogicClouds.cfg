SPECIFICATION MCSpec
CONSTANTS
  Nets <- MCNets
  Netlists <- MCNetlists
  Workers = {1, 2}
INVARIANTS
  BuildIsRight
  
  MiterVerdictsAreRight
  ScopesDecide
CHECK_DEADLOCK FALSE
