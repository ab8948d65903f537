SPECIFICATION FairSpec
CONSTANTS
  Runtimes = {1, 2}
  Callers = {1, 2}
  Keys = {1, 2}
  MaxFaults = 2
  MaxEffects = 3
  MaxDialogs = 3
  exec1 = exec1
  exec2 = exec2
  patch = patch
  Execs = {exec1, exec2}
  Patch = patch
  NoCall = NoCall
  f = f
  g = g
  Paths = {f, g}
  MaxHunks = 2
  Backslashed <- BackslashedNames
  Asked <- AskedPaths
  MaxFileCalls = 3
INVARIANTS
  PatchesInOrder
  FilesRight
PROPERTIES
  BootRight
  TerminalRight
  DialogRight
  ApprovalsRight
CHECK_DEADLOCK FALSE
