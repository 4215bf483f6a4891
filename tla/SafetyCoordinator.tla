-------------------------- MODULE SafetyCoordinator --------------------------
(***************************************************************************)
(* The safety coordinator's transaction gate                               *)
(* (src/mevbot/core/safety/coordinator.py, SafetyCoordinator).             *)
(* validate_transaction asks the circuit breaker first and then applies    *)
(* its own gas-price and contract-whitelist checks.  The breaker state is  *)
(* passed in and returned, as in CircuitBreaker.                           *)
(***************************************************************************)
EXTENDS Integers

CONSTANTS
  MaxPosition, MaxGasPrice, MaxDailyGasSpend, MinProfit, MaxDailyLoss,
  TxWindow, MaxTxPerWindow, MaxSlippage, MetricsResetInterval,
  HealthCheckInterval, NoPrice, Txs, PnLAmounts, MaxTime, MaxPnL,
  CoordMaxGasPrice,     \* the coordinator's own max_gas_price_gwei (default 1000)
  Whitelist,            \* config contract_whitelist
  NoTo                  \* a transaction without a `to` address

VARIABLES now, cb

CB == INSTANCE CircuitBreaker WITH log <- <<>>, accepted <- <<>>

\* _validate_gas_price: the coordinator's second gas-price ceiling.
GasPriceOk(tx) == tx.gasPrice <= CoordMaxGasPrice

\* _validate_contract_interaction: a transaction with a `to` address passes
\* only if that address is listed; an empty list rejects every such one.
ContractOk(tx) == tx.to = NoTo \/ tx.to \in Whitelist

\* validate_transaction: breaker first (its state changes either way),
\* then the coordinator's checks, which change no state.
CoordinatorValidate(c, tx, t) ==
  LET b == CB!Validate(c, tx, t)
  IN [ok |-> b.ok /\ GasPriceOk(tx) /\ ContractOk(tx), cb |-> b.cb]
=============================================================================
