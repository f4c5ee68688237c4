SPECIFICATION Spec
CONSTANTS
  Channels = {1}
  ValSets = {va}
  BlockShapes <- Doubles
  MaxHeight = 5
  PackageHorizon = 4
  FaultKinds = {}
  MaxFaults = 0
  FaultHorizon = 0
  Rivals = FALSE
  ChannelList <- OneChannel
  MaxBatchSize = 2
  SequenceGapThreshold = 2
  Word = 16
  BehindBlockThreshold = 1
  CleanInterval = 3
  Nil = Nil
INVARIANTS
  DeliveredOnCleanup
