SPECIFICATION Spec
CONSTANTS
  NumHistories = 1
  LastMessage = 3
  Outgoing <- MCOutgoing
  MaxRequests = 2
  MaxBatches = 2
  MaxEvents = 5
CHECK_DEADLOCK FALSE
INVARIANTS
  AnswersInOrder
