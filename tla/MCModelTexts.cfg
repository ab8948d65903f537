SPECIFICATION TextsSpec
CONSTANTS
  c1 = c1
  c2 = c2
  CallIds = {c1, c2}
  NoId = NoId
  MaxItems = 3
  Words = {"x"}
  MaxLength = 3
  MaxChunks = 2
  CharLengths = {1, 2, 4}
  MaxChars = 4
  MaxContents = 3
  MaxBudget = 9
SYMMETRY IdSymmetry
INVARIANTS
  PromptValid
  ConversationPreserved
  UpdatesInPlace
  TruncationRight
CHECK_DEADLOCK FALSE
