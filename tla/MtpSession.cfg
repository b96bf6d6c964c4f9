CONSTANTS
  NumRequests = 2
  IdsBufferSize = 9
  MaxEvents = 2
SPECIFICATION FairSpec
CHECK_DEADLOCK FALSE
INVARIANTS
  NoRequestLost
  AnswerKept
  UpdateOnce
  RunsOnce
  QuietMeansAnswered
PROPERTIES
  EventuallyAnswered
  ChannelSpec
