SPECIFICATION MCSpec
CONSTANTS
  N = 2
  Switchers = {"daemon"}
  FallBehindThreshold = 1
  MaxBlock = 3
  Configs <- MCConfigs
  CommandLines <- MCCommandLines
  minimumReward = 2
  MaxVault = 3
  MaxTxs = 5
  AccountFaults = 2
INVARIANTS
  TypeOK
  GetClientInRange
  OnlyKnownPanics
  NothingWasted
PROPERTIES
  LaggardIsLeft
  RewardClaimed
