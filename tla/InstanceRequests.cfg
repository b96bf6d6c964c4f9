CONSTANTS
  NumRequests = 3
  NumExchanges = 2
  DCs = {1, 2}
  FirstMainDc = 1
  Shifts = {0}
  MainShift = 0
  MaxEvents = 4
SPECIFICATION FairSpec
CHECK_DEADLOCK FALSE
INVARIANTS
  OneHome
  Registry
PROPERTIES
  OnlyKnownLosses
  EventuallyEnds
