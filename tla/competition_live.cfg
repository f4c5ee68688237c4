SPECIFICATION FairSpec
CONSTANTS
  Channels = {1}
  ValSets = {va}
  BlockShapes <- Singles
  MaxHeight = 6
  PackageHorizon = 3
  FaultKinds = {"rpc", "crash"}
  MaxFaults = 1
  FaultHorizon = 3
  Rivals = TRUE
  ChannelList <- OneChannel
  MaxBatchSize = 4
  SequenceGapThreshold = 2
  Word = 16
  BehindBlockThreshold = 1
  CleanInterval = 2
  Nil = Nil
PROPERTIES
  EventuallyDelivered
