SPECIFICATION Spec
CONSTANTS
  Channels = {1}
  ValSets = {va, vb}
  BlockShapes <- Doubles
  MaxHeight = 5
  PackageHorizon = 4
  FaultKinds = {}
  MaxFaults = 0
  FaultHorizon = 0
  Rivals = FALSE
  ChannelList <- OneChannel
  MaxBatchSize = 3
  SequenceGapThreshold = 4
  Word = 16
  HeightBehindThreshold = 1
  CleanInterval = 2
  MaxLead = 16
  Nil = Nil
INVARIANTS
  IntervalDelivered
  SetInUseRelayed
