SPECIFICATION FairSpec
CONSTANTS
  s1 = s1
  s2 = s2
  a = a
  b = b
  Stores = {s1, s2}
  NoStore = NoStore
  Sessions = {a, b}
  NoSession = NoSession
  MaxTime = 5
  MaxFaults = 2
INVARIANTS
  TypeOK
  ReloadShowsTheSame
PROPERTIES
  StoresOpen
  SessionsSurvive
CHECK_DEADLOCK FALSE
