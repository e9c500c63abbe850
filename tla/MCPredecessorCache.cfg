SPECIFICATION Spec
CONSTANTS
  Symbols <- MCSymbols
  StartStates <- MCStart
  NextValue <- MCNextValue
  Support <- MCSupport
  Top = 1
  Asked <- MCAsked
  Targets <- MCTargets
  Learnable <- OverY
  Seeds <- NoXZ
  Runs = 2
  Property <- NestedProperties
  Family <- NestedFamilies
  PathLocal <- NestedPathLocal
  QueryBudget = 1
  ExactLimit = 1
  UnsatLimit = 1
  PoolLimit = 1
  ContextLimit = 1
 
PROPERTY AnswersAreExact
CHECK_DEADLOCK FALSE
