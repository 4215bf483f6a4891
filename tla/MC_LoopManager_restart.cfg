\* A restart: start(), stop() and start() again while the first start's
\* _run_loop and _monitor_transactions may still be alive, with strategies
\* added and removed meanwhile.  One strategy, one clock tick and no
\* operator reset keep the doubled tasks within reach.
CONSTANTS
  MaxPosition = 2
  MaxGasPrice = 1
  MaxDailyGasSpend = 0
  MinProfit = 1
  MaxDailyLoss = 1
  TxWindow = 1
  MaxTxPerWindow = 4
  MaxSlippage = 1
  MetricsResetInterval = 2
  HealthCheckInterval = 3
  NoPrice = NoPrice
  Txs <- MCTxs
  PnLAmounts <- MCPnLAmounts
  MaxTime = 1
  MaxPnL = 0
  CoordMaxGasPrice = 0
  Whitelist <- MCWhitelist
  NoTo = NoTo
  C1 = C1
  C2 = C2
  Strategies = {s1}
  Registered = {s1}
  MaxStarts = 2
  MaxRegOps = 2
  MaxDirectCalls = 1
  NoTx = NoTx
  HealthGateOutcomes = {TRUE}
  SignerAwaitable = TRUE
  OperatorResets = FALSE
  MaxSubmissions = 2
SPECIFICATION Spec
PROPERTY MinedTxsLeavePending
