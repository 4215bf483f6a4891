CONSTANTS
  MaxPosition = 2
  MaxGasPrice = 1
  MaxDailyGasSpend = 2
  MinProfit = 1
  MaxDailyLoss = 1
  TxWindow = 1
  MaxTxPerWindow = 2
  MaxSlippage = 1
  MetricsResetInterval = 3
  HealthCheckInterval = 1
  NoPrice = NoPrice
  Txs <- MCTxs
  PnLAmounts <- MCPnLAmounts
  MaxTime = 4
  MaxPnL = 1
SPECIFICATION Spec
INVARIANT TypeOK
INVARIANT RateLimitRespected
INVARIANT DailyLossTriggers
PROPERTY TriggerLatched
PROPERTY SafetyGateRefined
