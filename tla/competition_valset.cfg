SPECIFICATION Spec
CONSTANTS
  Channels = {1}
  ValSets = {va, vb}
  BlockShapes <- Singles
  MaxHeight = 5
  PackageHorizon = 0
  FaultKinds = {}
  MaxFaults = 0
  FaultHorizon = 0
  Rivals = FALSE
  ChannelList <- OneChannel
  MaxBatchSize = 3
  SequenceGapThreshold = 2
  Word = 16
  BehindBlockThreshold = 1
  CleanInterval = 3
  Nil = Nil
INVARIANTS
  ChangeFound
