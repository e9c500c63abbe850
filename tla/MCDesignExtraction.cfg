CONSTANTS
  n1 = n1
  n2 = n2
  X = X
  Free = Free
  NoName = NoName
  Machines <- LearnerMachines
  NumRegisters = 4
  NumSide0 = 2
  Names = {n1, n2}
  Drivers <- LearnerDrivers
  Inputs = {0, 1}
  MaxRounds = 4
  MaxSimulation = 3
SPECIFICATION MCSpec
INVARIANTS
  ExtractionIsRight
  UpdatesAreRight
  ProvedRelationsHold
  OnlyOutsidersRefuted
