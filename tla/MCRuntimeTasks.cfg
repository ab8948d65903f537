SPECIFICATION FairSpec
CONSTANTS
  s1 = s1
  s2 = s2
  t1 = t1
  t2 = t2
  Sessions = {s1}
  NoSession = NoSession
  Tasks = {t1, t2}
  MaxTurns = 1
  Patient = FALSE
  Faulty = TRUE
PROPERTY RestoresTakeTurns
