SPECIFICATION FairStreamSpec
CONSTANTS
  exec1 = exec1
  exec2 = exec2
  patch1 = patch1
  CallIds = {exec1, exec2, patch1}
  Parallel = {exec1, exec2}
  NoId = NoId
  MaxToolIterations = 2
  MaxSamplingRetries = 1
  MaxTurns = 1
  MaxHistory = 3
INVARIANTS
  StreamTypeOK
  ReaderSeesTurn
PROPERTY ReaderFinishes
CHECK_DEADLOCK FALSE
