--------------------------- MODULE CircuitBreaker ---------------------------
(***************************************************************************)
(* The circuit breaker of the safety supervisor                            *)
(* (src/mevbot/core/safety/circuit_breaker.py, class CircuitBreaker).      *)
(*                                                                         *)
(* The breaker's whole state is one record `cb`, and every method is an    *)
(* operator from a breaker record (and the wall clock) to a new record, so *)
(* that the loop manager can run two validations in one atomic step, as    *)
(* the event loop does.  The standalone specification at the end drives    *)
(* the breaker through its public methods in any order.                    *)
(*                                                                         *)
(* Data abstraction: amounts are small integers (one unit = the Decimal    *)
(* quantum of the corresponding config value); a transaction's gas limit   *)
(* is one unit, so its gas cost equals its gas price; the trigger reason   *)
(* string is not kept; the `enabled` flag is always TRUE (nothing sets it).*)
(***************************************************************************)
EXTENDS Integers, Sequences, SequencesExt, FiniteSetsExt

CONSTANTS
  MaxPosition,          \* config max_position_size
  MaxGasPrice,          \* config max_gas_price_gwei
  MaxDailyGasSpend,     \* config max_daily_gas_spend
  MinProfit,            \* config min_profit_threshold
  MaxDailyLoss,         \* config max_daily_loss
  TxWindow,             \* config tx_rate_window (seconds)
  MaxTxPerWindow,       \* config max_tx_per_window
  MaxSlippage,          \* config max_slippage
  MetricsResetInterval, \* config metrics_reset_interval (seconds)
  HealthCheckInterval,  \* config health_check_interval (seconds)
  NoPrice,              \* a transaction without expected/actual price
  Txs,                  \* the transactions a strategy may hand over
  PnLAmounts,           \* amounts passed to record_profit_loss
  MaxTime,              \* bound: last second of wall-clock time explored
  MaxPnL                \* bound: largest cumulative daily profit explored

ASSUME /\ TxWindow \in Nat /\ MaxTxPerWindow \in Nat \ {0}
       /\ MetricsResetInterval \in Nat \ {0} /\ HealthCheckInterval \in Nat
       /\ \A tx \in Txs : {"value", "gasPrice", "profit", "slip"} \subseteq DOMAIN tx

VARIABLES
  now,   \* wall clock, time.time() rounded to whole seconds
  cb,    \* the breaker's fields (see BreakerRecord)
  log,   \* history: transactions accepted since the last metrics reset
  accepted \* history: acceptance times since the last reset_breaker

vars == <<now, cb, log, accepted>>

BreakerRecord ==
  [triggered : BOOLEAN,        \* self.triggered
   position : Nat,             \* position_limit.current_size
   gasSpend : Nat,             \* gas_limit.current_daily_spend
   pnl : Int,                  \* profit_metrics.current_daily_pnl
   txTimes : Seq(Nat),         \* tx_timestamps
   lastReset : Nat,            \* last_metrics_reset
   lastHealth : Nat]           \* last_health_check

\* __init__: limits at zero, both timers started at construction time.
InitBreaker(t) ==
  [triggered |-> FALSE, position |-> 0, gasSpend |-> 0, pnl |-> 0,
   txTimes |-> <<>>, lastReset |-> t, lastHealth |-> t]

\* gas_price * gas / 1e9, with the gas limit abstracted to one unit.
GasCost(tx) == tx.gasPrice

\* trigger_breaker: latch the breaker (the reason is only logged).
TriggerBreaker(c) == [c EXCEPT !.triggered = TRUE]

\* Mutant: the daily reset also clears the latch.
CheckSystemHealthClearsLatch(c, t) ==
  IF t - c.lastReset >= MetricsResetInterval
  THEN [c EXCEPT !.position = 0, !.gasSpend = 0, !.pnl = 0,
                 !.txTimes = <<>>, !.lastReset = t, !.triggered = FALSE]
  ELSE IF t - c.lastHealth >= HealthCheckInterval
  THEN [c EXCEPT !.triggered = @ \/ c.position > MaxPosition
                                \/ c.pnl <= -MaxDailyLoss
                                \/ c.gasSpend > MaxDailyGasSpend,
                 !.lastHealth = t]
  ELSE c

\* The periodic part of _check_system_health: a daily reset, which
\* returns early and keeps `triggered`, or else a health check when due.
CheckSystemHealth(c, t) ==
  IF t - c.lastReset >= MetricsResetInterval
  THEN [c EXCEPT !.position = 0, !.gasSpend = 0, !.pnl = 0,
                 !.txTimes = <<>>, !.lastReset = t]
  ELSE IF t - c.lastHealth >= HealthCheckInterval
  THEN [c EXCEPT !.triggered = @ \/ c.position > MaxPosition
                                \/ c.pnl <= -MaxDailyLoss
                                \/ c.gasSpend > MaxDailyGasSpend,
                 !.lastHealth = t]
  ELSE c

\* Mutant: timestamps exactly tx_rate_window old are dropped.
InWindowStrict(times, t) == SelectSeq(times, LAMBDA s : t - s < TxWindow)

\* _check_tx_rate's filter: timestamps no older than the window.
InWindow(times, t) == SelectSeq(times, LAMBDA s : t - s <= TxWindow)

\* Mutant: an accepted transaction is not added to current_size.
ValidateNoPosition(c, tx, t) ==
  LET h      == CheckSystemHealth(c, t)
      window == InWindow(h.txTimes, t)
      rated  == [h EXCEPT !.gasSpend = @ + GasCost(tx), !.txTimes = window]
      Reject(r) == [ok |-> FALSE, cb |-> r]
  IN CASE h.triggered                               -> Reject(h)
       [] h.position + tx.value > MaxPosition       -> Reject(TriggerBreaker(h))
       [] tx.gasPrice > MaxGasPrice                 -> Reject(TriggerBreaker(h))
       [] h.gasSpend + GasCost(tx) > MaxDailyGasSpend -> Reject(TriggerBreaker(h))
       [] Len(window) >= MaxTxPerWindow             -> Reject(rated)
       [] tx.profit < MinProfit                     -> Reject(TriggerBreaker(rated))
       [] tx.slip # NoPrice /\ tx.slip > MaxSlippage -> Reject(TriggerBreaker(rated))
       [] OTHER -> [ok |-> TRUE, cb |-> [rated EXCEPT !.txTimes = Append(window, t)]]

\* Mutant: every rejection refunds the transaction's gas, including the
\* rejections that come before the spend was added.
ValidateRefund(c, tx, t) ==
  LET h      == CheckSystemHealth(c, t)
      spent  == [h EXCEPT !.gasSpend = @ + GasCost(tx)]
      window == InWindow(h.txTimes, t)
      rated  == [spent EXCEPT !.txTimes = window]
      Reject(r) == [ok |-> FALSE, cb |-> [r EXCEPT !.gasSpend = @ - GasCost(tx)]]
  IN CASE h.triggered                               -> Reject(h)
       [] h.position + tx.value > MaxPosition       -> Reject(TriggerBreaker(h))
       [] tx.gasPrice > MaxGasPrice                 -> Reject(TriggerBreaker(h))
       [] h.gasSpend + GasCost(tx) > MaxDailyGasSpend -> Reject(TriggerBreaker(h))
       [] Len(window) >= MaxTxPerWindow             -> Reject(rated)
       [] tx.profit < MinProfit                     -> Reject(TriggerBreaker(rated))
       [] tx.slip # NoPrice /\ tx.slip > MaxSlippage -> Reject(TriggerBreaker(rated))
       [] OTHER -> [ok |-> TRUE,
                    cb |-> [rated EXCEPT !.txTimes = Append(window, t),
                                         !.position = @ + tx.value]]

\* validate_transaction with all the checks it calls, in the code's order.
\* The gas spend is added by _check_gas_limits and the timestamp list is
\* filtered by _check_tx_rate, both before the later checks may reject.
Validate(c, tx, t) ==
  LET h      == CheckSystemHealth(c, t)
      spent  == [h EXCEPT !.gasSpend = @ + GasCost(tx)]
      window == InWindow(h.txTimes, t)
      rated  == [spent EXCEPT !.txTimes = window]
      Reject(r) == [ok |-> FALSE, cb |-> r]
  IN CASE h.triggered                               -> Reject(h)
       [] h.position + tx.value > MaxPosition       -> Reject(TriggerBreaker(h))
       [] tx.gasPrice > MaxGasPrice                 -> Reject(TriggerBreaker(h))
       [] h.gasSpend + GasCost(tx) > MaxDailyGasSpend -> Reject(TriggerBreaker(h))
       [] Len(window) >= MaxTxPerWindow             -> Reject(rated)
       [] tx.profit < MinProfit                     -> Reject(TriggerBreaker(rated))
       [] tx.slip # NoPrice /\ tx.slip > MaxSlippage -> Reject(TriggerBreaker(rated))
       [] OTHER -> [ok |-> TRUE,
                    cb |-> [rated EXCEPT !.txTimes = Append(window, t),
                                         !.position = @ + tx.value]]

\* Mutant: the loss limit is compared strictly.
ProfitLossStrict(c, amount) ==
  LET p == c.pnl + amount
  IN [c EXCEPT !.pnl = p, !.triggered = @ \/ p < -MaxDailyLoss]

\* record_profit_loss.
ProfitLoss(c, amount) ==
  LET p == c.pnl + amount
  IN [c EXCEPT !.pnl = p, !.triggered = @ \/ p <= -MaxDailyLoss]

\* reset_breaker: clears the latch and every counter, restarts the day.
Reset(c, t) ==
  [c EXCEPT !.triggered = FALSE, !.txTimes = <<>>, !.position = 0,
            !.gasSpend = 0, !.pnl = 0, !.lastReset = t]

\* The history entry of an accepted transaction; cleared by any reset.
Accepted(tx, t) == [t |-> t, cost |-> GasCost(tx), value |-> tx.value]
LogAfter(c, c2, entries) ==
  IF c2.lastReset # c.lastReset THEN entries ELSE log \o entries

-----------------------------------------------------------------------------
(* Standalone specification: the public methods called in any order.       *)

Init ==
  /\ now = 0
  /\ cb = InitBreaker(0)
  /\ log = <<>>
  /\ accepted = <<>>

ValidateTransaction(tx) ==
  LET res == Validate(cb, tx, now)
  IN /\ cb' = res.cb
     /\ log' = LogAfter(cb, res.cb, IF res.ok THEN <<Accepted(tx, now)>> ELSE <<>>)
     /\ accepted' = IF res.ok THEN Append(accepted, now) ELSE accepted
     /\ UNCHANGED now

RecordProfitLoss(amount) ==
  /\ cb.pnl + amount \in -MaxDailyLoss - 1 .. MaxPnL
  /\ cb' = ProfitLoss(cb, amount)
  /\ UNCHANGED <<now, log, accepted>>

ResetBreaker ==
  /\ cb' = Reset(cb, now)
  /\ log' = <<>>
  /\ accepted' = <<>>
  /\ UNCHANGED now

EmergencyShutdown ==
  /\ cb' = TriggerBreaker(cb)
  /\ UNCHANGED <<now, log, accepted>>

Tick ==
  /\ now < MaxTime
  /\ now' = now + 1
  /\ UNCHANGED <<cb, log, accepted>>

Next ==
  \/ \E tx \in Txs : ValidateTransaction(tx)
  \/ \E a \in PnLAmounts : RecordProfitLoss(a)
  \/ ResetBreaker
  \/ EmergencyShutdown
  \/ Tick

Spec == Init /\ [][Next]_vars

-----------------------------------------------------------------------------
(* Properties                                                              *)

TypeOK ==
  /\ now \in 0 .. MaxTime
  /\ cb \in BreakerRecord
  /\ log \in Seq([t : Nat, cost : Nat, value : Nat])
  /\ accepted \in Seq(Nat)

\* At most max_tx_per_window of the times fall in any closed window of
\* tx_rate_window seconds that ends at one of them.
WindowsWithinRate(ts) ==
  \A i \in DOMAIN ts :
    Quantify(DOMAIN ts, LAMBDA j : ts[i] - TxWindow <= ts[j]
                                   /\ ts[j] <= ts[i]) <= MaxTxPerWindow

\* Rate limit (spec 8.4) within one metrics period: for every accepted
\* transaction, the transactions accepted in the closed window of
\* tx_rate_window seconds ending at it are at most max_tx_per_window.
\* It rests on _check_tx_rate's filter and comparison and on validate
\* appending exactly one timestamp per acceptance.
RateLimitRespected == WindowsWithinRate([i \in DOMAIN log |-> log[i].t])

\* Spec 8 invariant 4 read over all time: every window of tx_rate_window
\* seconds, including one that straddles a daily reset, holds at most
\* max_tx_per_window acceptances.  The daily reset in _check_system_health
\* clears tx_timestamps (as spec 4.8 asks), so it does not hold.
RateLimitAcrossResets == WindowsWithinRate(accepted)

\* Daily-loss breaker: whenever the day's recorded PnL is at or below
\* -max_daily_loss, the breaker is latched (record_profit_loss trips it,
\* and a daily reset zeroes the PnL while keeping the latch).
DailyLossTriggers ==
  cb.pnl <= -MaxDailyLoss => cb.triggered

\* Latch: once triggered, only reset_breaker clears the breaker; the daily
\* reset in _check_system_health must preserve it (spec 4.8).
TriggerLatched ==
  [][cb.triggered /\ ~cb'.triggered => ResetBreaker]_vars

\* Daily gas accounting (spec 4.8, daily-gas breaker): the day's gas spend
\* is the gas of the transactions the breaker accepted since the reset.
GasSpendIsAcceptedSpend ==
  cb.gasSpend = FoldLeft(LAMBDA acc, e : acc + e.cost, 0, log)

Gate == INSTANCE SafetyGate
          WITH clock <- now, latched <- cb.triggered,
               dayStart <- cb.lastReset, day <- log

\* The breaker implements the gate of spec 4.8: every transaction
\* validate_transaction accepts is one the day's history of accepted
\* transactions allows (unlatched; value, gas and rate within the caps),
\* the daily reset in _check_system_health forgets the day but keeps the
\* latch, and only reset_breaker clears it.  It checks that the counters
\* validate_transaction tests (current_size, current_daily_spend,
\* tx_timestamps) never fall behind what was really accepted.
SafetyGateRefined == Gate!Spec

=============================================================================
