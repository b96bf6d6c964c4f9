SPECIFICATION FairSpec
CONSTANTS
  s2 = s2
  t1 = t1
  t2 = t2
  t3 = t3
  p1 = p1
  NoKey = NoKey
  Sessions = {s2}
  MediaSessions = {s2}
  StoppableSessions = {}
  TemporaryKeys = {t1, t2, t3}
  PersistentKeys = {p1}
  IsCdn = FALSE
  TemporaryMayDie = TRUE
  PersistentMayDie = FALSE
  ConfigMayChange = TRUE
  MaxQueue = 2
  MaxPending = 2
INVARIANTS
  CreatorHoldsClaim
PROPERTIES
  EventuallyKeyed
