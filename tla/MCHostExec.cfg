SPECIFICATION FairSpec
CONSTANTS
  c1 = c1
  c2 = c2
  Callers = {c1, c2}
  MaxProcesses = 2
  MaxChunks = 2
INVARIANTS
  TypeOK
  TableMatchesAnswers
  OutputTold
CHECK_DEADLOCK FALSE
PROPERTY CallsReturn
