SPECIFICATION MCSpec
CONSTANTS
  Seeds = 2
  Heads <- MCHeads
  NoHead = NoHead
  maxCacheHeader = 2
  MaxHeads = 3
  signer = "validator"
  Byte = 4
  SourceChainID = 5
  DestChainID = 2
  Blocks <- MCBlocks
  Height = 27
  BCStates <- MCBCStates
  NotANumber = NotANumber
  NoState = NoState
  Chains <- MCChains
  Topics = {"a", "b"}
  LogBuffer = 2
  SinkBuffer = 1
INVARIANTS
  WatchersTypeOK
  CacheBounded
  ConflictFound
  WindowKept
  RequestsExact
  InitialStateReadsBack
  EventsInOrder
PROPERTIES
  AllChecked
  StopsOnQuit
CHECK_DEADLOCK FALSE
