SPECIFICATION Spec
CONSTANTS
  Channels = {1, 2}
  ValSets = {va, vb}
  BlockShapes <- Mixed
  MaxHeight = 5
  PackageHorizon = 3
  FaultKinds = {}
  MaxFaults = 0
  FaultHorizon = 0
  Rivals = FALSE
  ChannelList <- TwoChannels
  MaxBatchSize = 3
  SequenceGapThreshold = 2
  Word = 16
  BehindBlockThreshold = 0
  CleanInterval = 3
  Nil = Nil
INVARIANTS
  NoSilentSkip
  SentOnce
  TrackedSetRelayed
