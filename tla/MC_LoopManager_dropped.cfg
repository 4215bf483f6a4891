\* Receipt tracking of a transaction the node drops.

CONSTANTS
  MaxPosition = 2
  MaxGasPrice = 1
  MaxDailyGasSpend = 0
  MinProfit = 1
  MaxDailyLoss = 1
  TxWindow = 1
  MaxTxPerWindow = 4
  MaxSlippage = 1
  MetricsResetInterval = 2
  HealthCheckInterval = 3
  NoPrice = NoPrice
  Txs <- MCTxs
  PnLAmounts <- MCPnLAmounts
  MaxTime = 3
  MaxPnL = 0
  CoordMaxGasPrice = 0
  Whitelist <- MCWhitelist
  NoTo = NoTo
  C1 = C1
  C2 = C2
  Strategies = {s1, s2}
  Registered = {s1, s2}
  MaxStarts = 1
  MaxRegOps = 0
  MaxDirectCalls = 0
  NoTx = NoTx
  HealthGateOutcomes = {TRUE}
  SignerAwaitable = TRUE
  OperatorResets = TRUE
  MaxSubmissions = 2
SPECIFICATION Spec
PROPERTY DroppedTxsLeavePending
