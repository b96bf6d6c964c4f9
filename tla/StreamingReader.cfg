SPECIFICATION FairSpec
CONSTANTS
  NumParts = 2
  PartsInSlice = 1
  SlicesInMemory = 1
  GoodLimit = 0
  MaxPartsInHeader = 1
  PreloadAhead = 0
  FullInHeader = FALSE
  UseCache = TRUE
  RequestParts = 2
  RequestsLimit = 1
  MaxWant = 1
  MaxCalls = 1
  MaxEvents = 3
INVARIANTS
  HeaderCanBeSaved
  MainLeavesItAlone
  AskedIsKept
PROPERTIES
  EventuallyRead
  EventuallyDownloaded
CHECK_DEADLOCK FALSE
