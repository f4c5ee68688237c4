SPECIFICATION FairSpec
CONSTANTS
  Channels = {1}
  ValSets = {va}
  BlockShapes <- Doubles
  MaxHeight = 14
  PackageHorizon = 2
  FaultKinds = {"rpc", "lostReply"}
  MaxFaults = 1
  FaultHorizon = 3
  Rivals = FALSE
  ChannelList <- OneChannel
  MaxBatchSize = 2
  SequenceGapThreshold = 2
  Word = 32
  HeightBehindThreshold = 1
  CleanInterval = 6
  MaxLead = 3
  Nil = Nil
PROPERTIES
  EventuallyDelivered
