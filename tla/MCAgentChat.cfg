SPECIFICATION FairSpec
CONSTANTS
  MaxTasks = 3
  MaxPresses = 2
  MaxFaults = 1
INVARIANTS
  TypeOK
  RestsOnTheTruth
  ActsAsShown
CHECK_DEADLOCK FALSE
PROPERTY PageSettles
