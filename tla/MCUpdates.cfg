SPECIFICATION FairSpec
CONSTANTS
  MaxPts = 4
  MaxSeq = 2
  MaxWire = 2
  ZeroCounts = FALSE
INVARIANTS
  TypeOK
  NothingAhead
  GapWatched
  BySeqWatched
  RequestIsAlive
PROPERTIES
  FeedPromise
  EventuallyApplied
