SPECIFICATION Spec
CONSTANTS
  s1 = s1
  s2 = s2
  t1 = t1
  t2 = t2
  t3 = t3
  p1 = p1
  p2 = p2
  NoKey = NoKey
  Sessions = {s1, s2}
  MediaSessions = {s2}
  StoppableSessions = {}
  TemporaryKeys = {t1, t2, t3}
  PersistentKeys = {p1, p2}
  IsCdn = FALSE
  TemporaryMayDie = FALSE
  PersistentMayDie = TRUE
  ConfigMayChange = FALSE
  MaxQueue = 2
  MaxPending = 2
VIEW UsedView
SYMMETRY KeySymmetry
INVARIANTS
  SomeoneIsCreating
