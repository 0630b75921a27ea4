CONSTANTS
  m1 = m1  m2 = m2  s1 = s1  s2 = s2
  Managers = {m1, m2}  Ids = {s1, s2}
  MaxSessions = 1  Compress = FALSE  MaxLines = 2  MaxCrashes = 1  MaxCreated = 2
  NoJournal = NoJournal  NoFile = NoFile  NoId = NoId
SPECIFICATION Spec
SYMMETRY Symmetry
INVARIANTS TypeOK  NeverAhead SessionsBounded
CHECK_DEADLOCK FALSE
