SPECIFICATION FairSpec
CONSTANTS
  Txs = {t1, t2, t3}
  HeaderTxs = {t1}
  N = 2
  Lagging = {1}
  UnconfirmedTxThreshold = 2
  FaultKinds = {"rpc", "read", "rowWrite", "statWrite", "crash"}
  MaxFaults = 1
INVARIANTS
  TypeOK
  CountsExact
  NeverOvercounted
PROPERTIES
  GivenUpInBatches
  TxSettled
