SPECIFICATION FairSpec
CONSTANTS
  s1 = s1
  s2 = s2
  t1 = t1
  t2 = t2
  p1 = p1
  NoKey = NoKey
  Sessions = {s1, s2}
  MediaSessions = {}
  StoppableSessions = {}
  TemporaryKeys = {t1, t2}
  PersistentKeys = {p1}
  IsCdn = FALSE
  TemporaryMayDie = TRUE
  PersistentMayDie = FALSE
  ConfigMayChange = FALSE
  MaxQueue = 1
  MaxPending = 1
PROPERTIES
  EventuallyKeyed
