SPECIFICATION Spec
CONSTANTS
  Channels = {1}
  ValSets = {va}
  BlockShapes <- Singles
  MaxHeight = 5
  PackageHorizon = 3
  FaultKinds = {"rpc", "lostReply", "crash", "stale", "drop"}
  MaxFaults = 2
  FaultHorizon = 3
  Rivals = TRUE
  ChannelList <- OneChannel
  MaxBatchSize = 3
  SequenceGapThreshold = 4
  Word = 16
  HeightBehindThreshold = 1
  CleanInterval = 2
  MaxLead = 16
  Nil = Nil
INVARIANTS
  Inv
  CleanupDelivers
  NonceFresh
  SentInOrder
PROPERTIES
  SubmitsInTurn
