SPECIFICATION Spec
CONSTANTS
  MaxPts = 4
  MaxSeq = 2
  MaxWire = 2
  ZeroCounts = TRUE
INVARIANTS
  GapWatched
