SPECIFICATION Spec
CONSTANTS
  Channels = {1}
  ValSets = {va}
  BlockShapes <- Singles
  MaxHeight = 4
  PackageHorizon = 3
  FaultKinds = {"rpc", "lostReply", "crash", "stale", "drop"}
  MaxFaults = 2
  FaultHorizon = 3
  Rivals = FALSE
  ChannelList <- OneChannel
  MaxBatchSize = 3
  SequenceGapThreshold = 2
  Word = 16
  BehindBlockThreshold = 1
  CleanInterval = 2
  Nil = Nil
INVARIANTS
  TypeOK
  Inv
  PackageProvable
  HeaderFirst
  CleanupDelivers
  NonceFresh
PROPERTIES
  NeverWalksBack
  SubmitsInTurn
