SPECIFICATION Spec
CONSTANTS
  exec1 = exec1
  exec2 = exec2
  patch1 = patch1
  CallIds = {exec1, exec2, patch1}
  Parallel = {exec1, exec2}
  NoId = NoId
  MaxToolIterations = 2
  MaxSamplingRetries = 1
  MaxTurns = 2
  MaxHistory = 3
SYMMETRY ExecSymmetry
INVARIANTS
  TypeOK
  RequestsRight
  ToolCallsRight
  OutputsRight
  EventsMatchTurn
  CancelledNeverCompletes
  TurnBounded
PROPERTY PromptsExtend
CHECK_DEADLOCK FALSE
