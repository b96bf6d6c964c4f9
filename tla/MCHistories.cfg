SPECIFICATION FairSpec
CONSTANTS
  NumHistories = 2
  LastMessage = 3
  Outgoing <- MCOutgoing
  MaxRequests = 2
  MaxBatches = 2
  MaxEvents = 3
CHECK_DEADLOCK FALSE
INVARIANTS
  TypeOK
  ReadsGrow
  ReadsWatched
  EntryHeld
  InOrder
  ReadsAgree
PROPERTIES
  EventuallySettled
  EventuallySent
