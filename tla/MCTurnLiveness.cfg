SPECIFICATION FairSpec
CONSTANTS
  exec1 = exec1
  exec2 = exec2
  patch1 = patch1
  CallIds = {exec1, patch1}
  Parallel = {exec1}
  NoId = NoId
  MaxToolIterations = 2
  MaxSamplingRetries = 1
  MaxTurns = 1
  MaxHistory = 2
PROPERTY TurnEnds
CHECK_DEADLOCK FALSE
