SPECIFICATION Spec
CONSTANTS
  s1 = s1
  s2 = s2
  t1 = t1
  t2 = t2
  Sessions = {s1, s2}
  NoSession = NoSession
  Tasks = {t1, t2}
  MaxTurns = 3
  Patient = TRUE
  Faulty = FALSE
SYMMETRY Symmetry
INVARIANTS
  TypeOK
  WorkspacesApart
PROPERTY
  JournalKept
