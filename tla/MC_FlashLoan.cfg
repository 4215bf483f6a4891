\* Production mode with an AsyncWeb3 (with the synchronous Web3 bot.py
\* builds, no snapshot is ever refreshed and they stay 0): liquidity
\* levels 0..2 and amounts 1..2, so that a provider can be short, exact or
\* ample for each amount.
CONSTANTS
  Levels = {0, 1, 2}
  Amounts = {1, 2}
  TestMode = FALSE
  AsyncWeb3 = TRUE
  Contracts = {"aave_v3", "dydx", "balancer_b", "uniswap_v3"}
  RpcFailures = TRUE
  LiqB <- MCLiqB
SPECIFICATION Spec
INVARIANT TypeOK
INVARIANT LoanIsCheapest
PROPERTY SnapshotsConverge
