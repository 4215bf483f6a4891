# TLA+ models of the MEV bot

This directory holds TLA+ specifications of the control logic of the MEV bot
in `src/mevbot`. They are checked with TLC. Each module is translated from the
Python source. `PROJECT.json` maps every definition to the lines it models. It
also lists the runs, the mutants that show each property can fail, the
findings and the hazards.

## The system

The bot runs on one asyncio event loop. It has these parts:

| Part | Source | State | Operations |
|------|--------|-------|------------|
| Circuit breaker | `core/safety/circuit_breaker.py` | `triggered`, position, daily gas spend, daily PnL, rate-window timestamps, reset and health timers | `validate_transaction` (health/daily reset, position, gas price, daily gas, rate, profit, slippage), `record_profit_loss`, `trigger_breaker`, `reset_breaker`, `emergency_shutdown` |
| Safety coordinator | `core/safety/coordinator.py` | counters, risk level, active strategies | `validate_transaction` (breaker, then its own gas-price and whitelist checks), `record_incident`, two monitor tasks |
| Emergency manager | `core/safety/emergency_manager.py` | `shutdown_triggered`, pending and cancelled transactions, state file | `trigger_shutdown`, cancellation, state backup and reload |
| Loop manager | `core/loop_manager.py` | `running`, strategies, `pending_transactions`, receipts | `start`, `stop`, `_run_loop` (gate, gather strategies), `_execute_strategy_safely` / `_submit_transaction` / `_sign_transaction`, `_monitor_transactions` |
| Key manager | `core/security/key_manager.py` | master key file, encrypted keys file | keystore creation, `add_private_key`, `get_private_key`, `remove_key` (synchronous) |
| Mempool stores | `core/mempool.py` | `MempoolMonitor.transactions`; `MempoolManager.pending_txs` and its (never filled) indexes | monitor loop with TTL eviction; filter poll, gathered `_process_transaction`, cleanup |
| Flash-loan managers | `core/flashloan.py` (used by the bot), `core/flash_loan.py` (held by the JIT strategies) | provider liquidity snapshots; loan counters | snapshot refresh, `prepare_loan`, `optimize_flash_loan`, `get_optimal_provider`, `execute_flash_loan` (build, send, receipt wait) |
| Flashbots manager | `core/flashbots.py` | bundle metrics, bid model | bundle optimisation, simulation, submission |
| Bot | `bot.py` | active bundles by block | per-block processing, bundle submission, cleanup |
| Strategies | `strategies/*.py`, `core/strategy*.py` | per-strategy timers; the arbitrage DEX graph | `execute` returning a transaction or nothing; the arbitrage cycle search and path selection |
| Monitors | `core/cpu.py`, `memory.py`, `network.py`, `performance.py`, `metrics.py` | OS readings, statistics | I/O only |

The parts interact as follows:

- The loop manager owns a safety coordinator.
- The coordinator owns the circuit breaker, the key manager and the emergency manager.
- Every transaction a strategy returns goes through `SafetyCoordinator.validate_transaction` twice: once in `_execute_strategy_safely` and once in `_submit_transaction`. It is then signed with the key manager's key and sent.
- The transaction monitor task runs concurrently with the strategies. It polls receipts for `pending_transactions`.
- `record_incident` sets the coordinator's risk level and, for CRITICAL and FATAL incidents, calls `EmergencyManager.trigger_shutdown`. The emergency manager persists its state to a JSON file and reloads it at construction.
- `LoopManager.start` starts the coordinator (which creates its monitor task) and every strategy, creates the receipt monitor and runs the main loop; `stop` clears the flags and stops the coordinator, which cancels the emergency manager's tasks.
- `bot.py` owns a `MempoolMonitor`, the `flashloan.py` manager and the flashbots manager. The JIT strategies are given a `flash_loan.py` manager. `JITLiquidityStrategy.execute_opportunity` calls its `execute_flash_loan`, but only the tests call `execute_opportunity`, and `OptimizedJIT`'s own call fails at `optimized_jit.py:209` before it reaches the manager. So in this code a flash loan is executed by one caller at a time, for the account `config['address']`.

Atomicity follows the event loop. A task runs without interruption from one
real suspension point (an awaited network call or sleep) to the next. Every
`await` inside the breaker and the coordinator calls a coroutine that never
suspends. So both validations, the signing and the issue of the send request
happen in one step. No other task can trip the breaker between the two
validations.

## Modules

- **`CircuitBreaker`**: the breaker is one record `cb`. Every method is an operator from a record (and the clock) to a new record:
  - `Validate` is `validate_transaction` with all its checks, in the code's order. The daily reset comes first. The gas spend is added before the rate, profit and slippage checks. The window is filtered before the profit and slippage checks.
  - `ProfitLoss`, `Reset`, `TriggerBreaker` and `CheckSystemHealth` are the other methods.
  - The standalone spec (`Init`, `Next`) calls the public methods in any order while time advances. The ghost variable `log` keeps the transactions accepted since the last reset of either kind. The ghost variable `accepted` keeps the acceptance times since the last `reset_breaker`, across daily resets.
  - Amounts are small integers. The gas limit of a transaction is one unit, so its gas cost is its gas price. Slippage is an abstract value compared with `max_slippage`, or `NoPrice` when the prices are absent.
- **`SafetyGate`** is the abstract promise of the breaker (spec 4.8), stated over the day's history of admissions instead of the breaker's counters. It has the variables `clock`, `latched`, `dayStart` and `day`.
  - `Admit(value, price)` is allowed only while the gate is not latched, and only if the day's admitted value, gas and recent admissions stay within the caps with it.
  - `Refuse` may roll the day over when it is due, and may latch.
  - `Latch` latches; `Reset` clears the latch and starts a new day; `Tick` advances the clock.
  - A request first sees the rolled-over day when the interval has passed (`Today`), as `validate_transaction` runs `_check_system_health` first.
  - `CircuitBreaker` maps `clock` to `now`, `latched` to `triggered`, `dayStart` to `last_metrics_reset` and `day` to `log`, and `SafetyGateRefined` checks it against this module.
- **`SafetyCoordinator`**: `CoordinatorValidate` applies the breaker, then the coordinator's own gas-price and contract-whitelist checks.
- **`LoopManager`** composes the coordinator and the breaker with concurrent strategies, the chain and the receipt monitor.
  - Variables:
    - `phase`: per `_run_loop` copy, off, selecting or gathering. Each `start()` runs its own `_run_loop` and creates its own `_monitor_transactions` task, and copy `l` belongs to the `l`-th start;
    - `pc` and `sending`: per execution (a loop copy and a strategy), its step and the hash it is sending;
    - `subs`: the transactions sent, indexed by hash;
    - `pending`: `pending_transactions`;
    - `chain`: whether the node holds, mined or dropped a hash;
    - `mon`: per monitor copy, its iteration;
    - `running`, `sRun`: `LoopManager.running` and each `BaseStrategy.running`;
    - `reg`: the keys of `self.strategies`; `starts` and `regOps`: the calls of `start()`, and of `add_strategy`/`remove_strategy`, that passed their checks (bounded by `MaxStarts` and `MaxRegOps`);
    - `sinceReset`, `sentAtStop`: history variables, used only by properties.
  - Actions:
    - `RunLoopSelect(l)` and `RunLoopGathered(l)`: one iteration of `_run_loop` copy `l`, over the registered strategies;
    - `ExecuteStrategy(e, r)`: the return of `strategy.execute()` with result `r`, up to the send request;
    - `SendReturns` and `SendFails`: the send completing or raising;
    - `MonitorStart(l)`, `MonitorStep(l, h)` and `MonitorFinish(l)`: one pass of `_monitor_transactions`, one receipt poll per step;
    - `Start`, `Stop`: the operator's `start()` and `stop()`. A `start()` after a `stop()` creates new tasks; the old ones run on if they test the flag only after the new start;
    - `AddStrategy(s)`, `RemoveStrategy(s)`: `add_strategy` (started at once if the manager runs) and `remove_strategy` (stopped, and an execution already gathered goes on);
    - `ExecuteStrategyDirect(s)`: the public `execute_strategy`. Its execution (copy `Direct`) runs with no test of `running` or `is_ready`, beside any loop's execution of the same strategy. `directs` counts these calls, bounded by `MaxDirectCalls`;
    - `RunLoopExit(l)` and `MonitorExit(l)`: each loop's `while self.running` test after the stop; `Terminated`: every task of the last start has ended;
    - `Mine`, `Drop` and `Tick`: the environment;
    - `ResetBreaker`: an operator calling `reset_breaker`.
  - `StrategyReady(s)` is `BaseStrategy.is_ready`: its cooldown always passes, because nothing sets `last_execution`.

  The code has wiring defects. Each is a constant with a value as written and a
  value as the tests patch it:
  - `HealthGateOutcomes`: what `_should_execute_strategy` can return. As written it calls coordinator methods that do not exist, so it is always `{FALSE}`.
  - `SignerAwaitable`: whether awaiting `get_private_key` works. As written it does not, because that function is synchronous.
  - `Whitelist`: the configured whitelist. As written it is empty, and an empty list rejects every transaction with a `to` address.

  The runs use the patched wiring, so that the rest of the behaviour can be
  explored. Each as-written value stops every transaction at one line of
  code, which needs no model checker to see. These are recorded as
  observations below, not as runs.
- **`EmergencyManager`** models the emergency manager and the coordinator's incident handling, across crashes and restarts.
  - Variables:
    - `up` and `boots`: whether the process runs, and how many times it was constructed;
    - `shutdown`, `recovery`, `pending` and `cancelled`: the manager's fields;
    - `proc`: the running shutdown procedure (`gather`, then `cancel` with the hashes still to visit);
    - `mon`: the receipt monitor's pass (`sleep`, or `scan` with the hashes of its copy still to poll);
    - `risk`: the coordinator's risk level;
    - `file`: the state file, which can be missing (`NoFile`), a record, or truncated (`Corrupt`);
    - `chain`: what the node did with each hash;
    - `persisted` and `bootAfter`: history variables.
  - Actions:
    - `Boot`: construction with `_load_state`;
    - `Crash`: the process dies. A crash during a write leaves a truncated file when `TornWrites` holds;
    - `Track`: a caller adds a sent hash;
    - `RecordIncident(l)`, which calls `TriggerShutdown(l)` for CRITICAL and FATAL: it sets the flag and suspends in `asyncio.gather`;
    - `GatherStart`: the gathered sub-tasks run in list order up to their first suspension. The cancel task copies the set, `_preserve_system_state` writes the file without suspending, and the e-mail task starts;
    - `CancelStep(h, sendOk)`: one replacement transaction of `_cancel_pending_transactions`;
    - `ShutdownDone`: the end of `trigger_shutdown`. At FATAL level the process exits;
    - `MonitorWake`, `MonitorPoll(h)` and `MonitorPassEnd`: one pass of `_monitor_pending_transactions` over a copy of the set, one receipt lookup per step in a nondeterministic (set) order. One `try` encloses the whole pass: a hash with no receipt (web3 6 raises `TransactionNotFound`) or a `remove` that raises `KeyError` ends the pass;
    - `Backup`: `_periodic_state_backup`;
    - `CoordinatorStart`, `CoordinatorStop`: `SafetyCoordinator.start` and `stop` (the latter calls `EmergencyManager.cleanup`, which cancels the manager's tasks: `emTasks`);
    - `MonitorSafety(resOk)`: one pass of `_monitor_safety`. `_check_network_conditions` always fails (it awaits a synchronous call), so every pass records a WARNING;
    - `EmailDone`: the end of the blocking SMTP exchange of `_send_email_alert`. While `mail = "sending"` no other task runs (`Running`);
    - `Mine` and `Drop`.
- **`KeyManager`** models `SecureKeyManager` with its two files across crashes of its process.
  - Variables: `up` and `boots` (a constructed manager is alive; constructions so far); `master` (`.master.key`: missing, empty or written); `keys` (`encrypted_keys.json`: missing, empty, or a function from ids to entries).
  - An entry records the password it was encrypted under and the private key. PBKDF2, salts and Fernet are abstracted: decryption succeeds exactly with that password.
  - Actions: `Construct` (`__init__` and `_initialize_keystore`, with a crash in the master key write, between the two files or in the keys file write, and the construction raising on an empty master key); `AddPrivateKey(k, pw, v)`; `RemoveKey(k, pw)`; `Crash`. `Get` is `get_private_key` and `ValidKey` is `_validate_private_key`.
  - `TornWrites`: whether the process may be killed inside a write. `open(path, 'w')` truncates at once and the content is written when the block closes the file, so a kill in between leaves an empty file.
- **`ArbitragePaths`** models the path search and the analysis of `ArbitrageStrategy` (`strategies/arbitrage.py`).
  - Variables: `pairs` (the tokens each DEX trades, chosen in `Init`: `_get_dex_pairs` is a TODO returning the empty set, one of the choices); `graph` (`dex_graph`); `live` (the DEXes whose reserves can be read); `paths` and `params` (per token analysed, the search result and the `ArbitrageParams` returned, `NoParams` for `None`).
  - Actions: `BuildGraph` (`__init__` calling `_build_dex_graph`) and `Scan(t)` (`analyze_opportunity`).
  - `FindCycles` is the recursive `_find_cycles` DFS. `FindArbitragePaths` starts it from each DEX of `DexesWithToken`. A path is a sequence of DEXes, and the search result, a list without duplicates, is a set.
  - `OptimalAmounts` is `_calculate_optimal_amounts`: `(None, 0)` when a DEX on the path cannot be read, when the SIMD method is missing, or when the best profit is not positive. `Sweep(path)`, a constant operator, stands for the SIMD profit sweep over the ladder `Ladder`. `HopAmounts` is `_calculate_hop_amounts`, where unpacking the three-field `getReserves` result raises, so every hop after the first is 0.
  - `SelectBest` is the loop over the paths, with strict `>`. Python's set iteration fixes its order, and the model takes one order.
  - `Rings` and `CyclesOfAtMost` define the cycles a search should return without searching. The properties compare the search with them.
  - `execute_opportunity` is not modelled. `FlashbotsManager` has no `get_max_fee`, `get_priority_fee` or `send_bundle`, so it returns `False` with no state change.
- **`Mempool`** models both stores of `core/mempool.py`.
  - `MonitorPoll` is one iteration of `MempoolMonitor._monitor_loop`. It stores every pending hash not stored yet with the current time, then evicts entries older than the TTL.
  - `Poll`, `FetchReturns(h)`, `FetchFails(h)`, `GatherDone`, `PollFails` and `SleepDone` are `MempoolManager.start_monitoring`:
    - the filter poll;
    - one gathered `_process_transaction` task per hash. Its `get_transaction` returns, or raises and the hash is lost;
    - the cleanup, `Cleanup(t)`.
  - `keys` is `pending_txs` in dict insertion order. A rebroadcast hash keeps its position and gets a new timestamp.
  - `Cleanup` deletes the first expired entry and then raises `AttributeError`, because `_remove_from_indexes` is not defined. The exception is caught and the loop sleeps.
  - The indexes are not modelled. `_identify_protocol` and `_identify_token` return `None`, so nothing is ever indexed.
- **`FlashLoan`** models both flash-loan managers.
  - For `flashloan.py`:
    - `snap` holds the snapshots and `liq` the pools;
    - `UpdateReturns`, `UpdateFails`, `GatherDone` and `SleepDone` are `_monitor_providers`;
    - `PrepareLoan(a)` is `prepare_loan`, where `FirstCheapest` is Python's `min`;
    - `OptimizeFlashLoan` is the recursive loop of `optimize_flash_loan`.
  - For `flash_loan.py`:
    - `JitStart`, `JitStep` and `JitDone` are the loop of `get_optimal_provider`, one provider per step;
    - `Readable(v)` says which liquidity reads can succeed.
  - Fees are integers per 10 000 of the amount.
  - `AsyncWeb3`: whether the awaited contract calls return awaitables. With the synchronous `Web3` that `bot.py` builds, every refresh raises and the snapshots stay 0 (`UpdateReturns` needs `AsyncWeb3`); the runs use an asynchronous Web3 so that the refresh logic is explored.
- **`FlashLoanExec`** models `flash_loan.py`'s `execute_flash_loan` as `JITLiquidityStrategy.execute_opportunity` runs it. `Tasks` are the callers; the run has one, which repeats its loans.
  - Variables: `ex` (each caller's step, provider, nonce read and transaction); the node's `pool`, `mined` and receipt `status`; `sent`, the transactions sent (a history); `totalLoans` and `successfulLoans`.
  - Actions: `ExecStart(t, p)` (the scan returned provider `p`); `Build(t)` (`get_transaction_count` at 'latest', then the fee reads); `Send(t)` (the node accepts, replaces a pending transaction with the same nonce, rejects, or raises after accepting); `ReceiptReturns(t)` and `ReceiptTimeout(t)`; `ExecEnd(t)`; `Mine(i)`.
  - `Kind(p)`: the transaction built for AAVE_V3 calls `flashLoan`; for the other providers the branch is `pass`, so the transaction has no `to` and creates an empty contract.
  - `_get_provider_fee` awaits nothing, so `self.total_fees_paid += await ...` cannot lose an update; the fee total is left out.

## Runs

| Run | Config | Expect | What it shows |
|-----|--------|--------|---------------|
| `cb_safety` | `MC_CircuitBreaker.cfg` | pass | In every order of calls over 5 s with daily resets: the rate window is respected (`RateLimitRespected`); the loss limit latches the breaker (`DailyLossTriggers`); only `reset_breaker` clears the latch (`TriggerLatched`). Every step is a step of `SafetyGate` (`SafetyGateRefined`). The breaker's counters (`current_size`, `current_daily_spend`, `tx_timestamps`) therefore never fall behind the transactions it really accepted: the gas counted for rejected transactions makes it stricter, never looser. |
| `lm_safety` | `MC_LoopManager.cfg` | pass | Start, stop, two strategies, sends, chain events and the monitor interleave. The value in flight since the last reset stays within `max_position_size`. Every mined transaction eventually leaves `pending_transactions`, although sends make the monitor lose whole passes. |
| `lm_restart` | `MC_LoopManager_restart.cfg` | pass | `start()`, `stop()` and `start()` again while the first start's loop and monitor may still be alive, with the strategy removed and re-added, and `execute_strategy` called directly, at any point. Two loops then gate and send concurrently, and two monitors abort each other's passes. Every mined transaction still leaves `pending_transactions` (`MinedTxsLeavePending`), although each copy applies its completed set long after it polled the hashes, after the other copy or a send changed the set. |
| `lm_send_after_stop` | `MC_LoopManager_stop.cfg` | violation | A strategy whose `execute()` was awaited when `stop()` ran still validates, signs and sends afterwards. |
| `em_safety` | `MC_EmergencyManager.cfg` | pass | Incidents (also from the coordinator's safety monitor), the gathered shutdown procedure with its blocking e-mail alert, receipt-monitor passes, backups, coordinator start and stop, and crashes with torn writes and restarts run in any order. A started shutdown procedure always ends (`ShutdownCompletes`), although the monitor removes hashes the cancel task is visiting and the e-mail alert stops every other task. |
| `em_monitor_blocked` | `MC_EmergencyManager_monitor.cfg` | violation | One mined and one dropped hash, no crashes: every pass that polls the dropped hash first aborts on `TransactionNotFound`, so the mined hash is never unwatched (`MinedTxsLeavePending`). |
| `em_recovery` | `MC_EmergencyManager_recovery.cfg` | violation | The first backup after a restart overwrites the shutdown record, so the next restart is not in recovery mode. |
| `mp_safety` | `MC_Mempool.cfg` | pass | Arrivals, rebroadcasts, inclusions, drops and node failures happen in any order. The manager eventually removes every expired entry, although each pass that removes one aborts. |
| `fl_select` | `MC_FlashLoan.cfg` | pass | Pools change and refreshes fail. `prepare_loan` still returns the cheapest provider that its snapshots show as sufficient. A snapshot eventually settles on the pool's liquidity once the pool stops changing. |
| `fe_safety` | `MC_FlashLoanExec.cfg` | pass | One caller repeats flash loans against a node that fails, rejects and mines late. The counters count only mined transactions (`LoansCountedWereMined`), also when a receipt wait timed out on a transaction mined afterwards. |
| `km_safety` | `MC_KeyManager.cfg` | pass | Adds, overwrites, removals, crashes between operations and inside file writes, and re-constructions in any order: a live manager has a master key and a keys file, and every stored entry is a valid private key (`TypeOK`). |
| `ar_paths` | `MC_ArbitragePaths.cfg` | pass | For every assignment of pairs to DEXes and every set of readable DEXes, the recursive search returns exactly the simple cycles of at most `max_path_length - 1` DEXes (`PathsAreShortCycles`), and `analyze_opportunity` returns a most profitable found path, or `None` exactly when no path is profitable (`SelectsMostProfitable`). |

Every property of a passing run has a mutant in `PROJECT.json`. A mutant is a
plausible bug in the modelled code, and TLC finds the property violated under
it. The mutants are:

- **`CircuitBreaker`:** refunding gas on every rejection; a strict window filter; a strict loss comparison; a daily reset that clears the latch; an accepted transaction not added to the position (against `SafetyGateRefined`).
- **`LoopManager`:** clearing the sent hash before recording it; an accepted transaction not added to the position; a second `start()` that creates no monitor task of its own; removing the unvisited hashes instead of the completed ones.
- **`EmergencyManager`:** the risk level set to the incident level; a cancellation retried until its send succeeds.
- **`Mempool`:** a list instead of a dict for `pending_txs`; the index removal placed before the deletion.
- **`FlashLoan`:** refreshed liquidity added to the snapshot; a strict sufficiency test; a refresh pass that updates only the first provider.
- **`KeyManager`:** the private key stored without validation.
- **`ArbitragePaths`:** a DEX made its own neighbor; `max_profit` not updated in the selection loop.
- **`FlashLoanExec`:** a rejected send that returns `None` and waits for its receipt; a timed-out wait that still counts the loan.

## Bounds

**`MC_CircuitBreaker`**:
- All transactions over {0,1} value × {0,1,2} gas price × {0,1} profit × {none, too high} slippage.
- Limits of 1–2 units, so that each check can pass and fail.
- `MaxTime = 4` with `metrics_reset_interval = 3`, which includes one daily reset.
- A window of 1 s with at most 2 transactions: three acceptances in the same second, and the window boundaries, are reachable.

**`MC_LoopManager`**:
- Two strategies, which is the least that makes strategies race each other and the monitor.
- Two transactions:
  - value 1, which can be sent;
  - value 2 = `max_position_size`, which double validation always rejects.
- Two submissions; the manager is started once (`MaxStarts = 1`), with both strategies registered before it and none added or removed (`MaxRegOps = 0`).
- `MaxTime = 3` with a daily reset every 2 s.
- Gas is priced at zero here, and the health-check interval exceeds the time bound. Both are checked in `MC_CircuitBreaker` and are orthogonal to the loop's interleavings.

**`MC_LoopManager_restart.cfg`**:
- Two starts and two registry calls, the least for a restart with a strategy removed and re-added.
- One direct `execute_strategy` call, which can overlap either loop's execution of the strategy or come after a stop (288,036 states, about 2.5 minutes).
- One strategy. The two loop copies still give two concurrent executions of it, which is the restart's own race.
- `MaxTime = 1` and no operator reset. With two loop copies, the clock and the resets of `MC_LoopManager.cfg` take the state space past 15 million states, and they add nothing to the restart question.

**`MC_EmergencyManager`**:
- Two hashes: one can be mined while the other is cancelled.
- Three constructions of the manager: a restart after a shutdown, a backup, and a second restart is the shortest path to the recovery defect.
- Every incident level.
- Crashes at any step, with torn writes in `em_safety`. `MC_EmergencyManager_monitor.cfg` has one construction, no crashes and no e-mail: the monitor defect needs none of them.
- A behaviour ends with the process down once the constructions are used up, so the cfg sets `CHECK_DEADLOCK FALSE`.

**`MC_Mempool`**:
- Two hashes, so that two entries can expire together.
- The threshold and TTL are scaled to 1 s within a 2 s horizon. An entry stored at 0 is expired at 2, and the strict and non-strict comparisons of the two stores differ there.
- Rebroadcast lets a hash be fetched again while it is still stored.

**`MC_EmergencyManager`** also sets `Restarts = FALSE` (the coordinator is started once, see the observations) and `EmailConfigured = TRUE`, so that the alert blocks the loop.

**`MC_FlashLoan`**:
- Liquidity levels 0..2 and amounts 1..2, so that each provider can be short, exact or ample for each amount.
- The `flash_loan.py` pools are a constant: DYDX short, BALANCER and UNISWAP_V3 ample. This is the configuration where the cheapest sufficient provider is one whose read fails.

**`MC_FlashLoanExec`**:
- One caller, as in the code (see the system overview).
- Providers DYDX and UNISWAP_V3, the ones `get_optimal_provider` can return (the AAVE_V3 and BALANCER reads always fail, `flash_loan.py:160` and `:164`); both build an empty contract creation.
- Three sends: enough for a timeout, a late mining and a second loan after it.
- Once the sends are used up the caller idles, which the code allows, so the cfg sets `CHECK_DEADLOCK FALSE`.

**`MC_KeyManager`**:
- Two ids, so that an operation on one can disturb the other; two passwords and two private keys, so that an overwrite changes both.
- Three constructions: a crash and two re-constructions reach every branch of `_initialize_keystore`.
- Crashes between operations and inside a write (`TornWrites = TRUE`). The process stays down once the constructions are used up, so the cfg sets `CHECK_DEADLOCK FALSE`.

**`MC_ArbitragePaths`**:
- Four DEXes and two tokens, every assignment of tokens to DEXes (4096 initial states with the readable sets): graphs with no edge, a chain, a triangle, a square and the complete graph all occur.
- `max_path_length = 4`: rings of two and three DEXes are returned and rings of four, which four DEXes allow, are not, so the bound is tested from both sides.
- `Sweep` is a fixed profit per path with positive, equal, zero and negative values, so that the selection has ties and several profitable paths to choose from.
- `SimdProfits = TRUE`: `SIMDProcessor` has no `calculate_arbitrage_profits` (`arbitrage.py:240`); as written every path gets `(None, 0)` and no opportunity is ever returned. The run checks the selection with the method present.
- Nothing happens after the scans, so the cfg sets `CHECK_DEADLOCK FALSE`.

## Fairness

- **`lm_safety`** assumes weak fairness of:
  - each issued send returning or raising;
  - the monitor task's steps;
  - the main loop's select and gather steps, and each loop noticing a stop.

  `start()`, `stop()`, `add_strategy` and `remove_strategy` are the operator's and are not assumed to happen.
  `lm_restart` assumes the same, for each copy of the loop and the monitor.

  These tasks loop while the bot runs, and an asyncio event loop runs every
  ready task. `strategy.execute()` and the chain are not assumed to make
  progress, because nothing bounds them in the code.
- **`em_safety`** assumes weak fairness of the monitor's steps (a loop with a sleep), of each cancellation's send returning or raising, of the end of the SMTP exchange, and of `trigger_shutdown` resuming after its gather. `smtplib.SMTP` has no timeout, so the fairness of `EmailDone` is an assumption about the mail server, not something the code guarantees.
- **`mp_safety`** assumes:
  - weak fairness of both loops and of each fetch returning or raising (web3's HTTP provider has a request timeout);
  - strong fairness of a successful filter poll. A node that fails is not down for ever. Weak fairness is not enough, because each failure disables the poll until the sleep ends.
- **`fl_select`** assumes weak fairness of the monitor's steps, and strong fairness of each provider's refresh succeeding, for the same reason.
- **`fe_safety`** assumes weak fairness of each execution's node calls (`Build`, `Send`) and of its receipt wait ending. `wait_for_transaction_receipt` ends by itself after 120 s, so the wait needs no assumption about the chain; the chain is not assumed to mine anything.

## Findings

1. **Sends after stop.** `loop_manager.py:90`: `stop()` clears the flags but does not cancel or wait for the gathered executions; one resuming from `execute()` validates, signs and sends. The spec's cancellation rule (section 5) lets a task pass at most one I/O wait before observing the stop.
2. **Recovery mode lost after a second restart.** `_load_state` does not restore `shutdown_triggered` (`emergency_manager.py:198`), so the first backup writes `False` (`emergency_manager.py:317`). This also contradicts `test_preserve_and_load_state`.
3. **A dropped hash blocks the emergency monitor.** `_monitor_pending_transactions` (`emergency_manager.py:304`) tests `if receipt:`, as if an unmined transaction had a `None` receipt, but `setup.py` requires web3 >= 6, whose `get_transaction_receipt` raises `TransactionNotFound`. One `try` encloses the whole pass, so a pending, dropped or replaced hash that the set's order places before a mined one ends every pass before it, and the mined hash stays in `pending_transactions`.

Properties that TLC finds violated but that no run is spent on (the run budget goes to the questions above). Each is reproduced by putting the property as the only INVARIANT of the named cfg:
- `PositionIsSubmittedValue` (`MC_LoopManager_position.cfg`): `_submit_transaction` validates again (`loop_manager.py:213`) after `_execute_strategy_safely` did, so every submission is counted twice in the position and the rate window, and a transaction worth more than half of the cap can never be sent. One call shows it, so its run was given to the restart.
- `GasSpendIsAcceptedSpend` (`MC_CircuitBreaker_gas.cfg`): `_check_gas_limits` adds the gas cost to the daily spend (`circuit_breaker.py:148`) before the rate, profit and slippage checks run, so a transaction they reject, never sent, counts toward the daily-gas breaker.
- `RateLimitAcrossResets` (`MC_CircuitBreaker_rate.cfg`): the daily reset in `_check_system_health` clears `tx_timestamps` (`circuit_breaker.py:215`). So two transactions accepted at second 2 and a third at second 3, just after the reset, fall in one 1 s window, against a limit of 2. Spec 8 invariant 4 bounds every window, but spec 4.8 asks the daily reset to zero the sliding window. The spec contradicts itself here. `RateLimitRespected` and `SafetyGateRefined` check the limit within one day.
- `FindsCyclesUpToL` (`MC_ArbitragePaths_triangle.cfg`): spec 101 enumerates cycles of up to L pools (default 3) and scenario S4 is a triangle of pools, but `_find_cycles` stops at `len(path) >= max_length` (`arbitrage.py:182`) and the path holds the start twice, so with the default only two-DEX cycles are found; a triangle needs `max_path_length = 4`.
- `InFlightWithinCap` (`MC_LoopManager.cfg` with `OperatorResets = FALSE`, `MaxTime = 4`, `MaxSubmissions = 3`): `InFlightSinceResetWithinCap` holds, but the spec's cap over time (8.3) does not, because `circuit_breaker.py:212` zeroes the position at the daily reset while transactions are in flight.
- `CleanupRemovesExpired` (`MC_Mempool.cfg`): `mempool.py:275` calls the undefined `_remove_from_indexes` after the deletion, so a cleanup pass removes one expired transaction. Eventual removal (`ExpiredEventuallyEvicted`) still holds.
- `OptimalIsCheapest` (`MC_FlashLoan.cfg`): in `flash_loan.py:160` and `:164` the subscript binds before the `await`, so AAVE_V3 and BALANCER are never selected.
- `DroppedTxsLeavePending` (`MC_LoopManager_dropped.cfg`, its only PROPERTY): `_monitor_transactions` (`loop_manager.py:255`) removes a hash only when a receipt exists, so a transaction the node dropped is polled for ever; spec 4.9 stops the watch once the target block is past.
- Torn writes in `km_safety` (states the run reaches; no property is stated on them, since neither the spec nor the code says what a write must preserve): with two keys stored, a process killed inside the write of a third `add_private_key` (`key_manager.py:102`) leaves an empty keys file. `json.load` raises on it in every later call, `_initialize_keystore` does not repair an existing file, and both stored keys are lost. A kill inside the first master key write (`key_manager.py:37`) leaves an empty `.master.key`, on which `Fernet` raises in every later construction, so `SafetyCoordinator` can never be constructed again.
- A second way `MinedTxsLeavePending` can fail, when `Restarts = TRUE`: after `LoopManager.stop` then `start`, `SafetyCoordinator.start` (`coordinator.py:82`) does not recreate the emergency manager's tasks, which `stop` cancelled.

Observations that need no model checker, each visible in one call:
- the three wiring defects above;
- the risk level is overwritten by each new incident, so an INFO after a CRITICAL gives LOW (`coordinator.py:217`);
- in production `optimize_flash_loan` always returns `None` (`flashloan.py:235`);
- `bot.py:58` calls `MempoolMonitor.start_monitoring`, which does not exist, so `MEVBot.start` raises before its main loop;
- `bot.py:113` calls `get_relevant_transactions`, which does not exist either;
- `flash_loan.py:277`: for DYDX, BALANCER and UNISWAP_V3 the transaction has no `to` and no data, so a "flash loan" through them is an empty contract creation, counted as a successful loan;
- `_send_email_alert` (`emergency_manager.py:241`) runs `smtplib` synchronously without a timeout inside a coroutine: the event loop is blocked for the whole exchange; the Discord and Telegram alerts raise `NameError` (`aiohttp` is not imported);

Spec 8.5 says no submission happens while the breaker is triggered. This
holds by construction: the gate and the send are one atomic step. So no
property is spent on it.

## What is not yet modelled

The safety gate is checked against the breaker alone (`cb_safety`), not against the loop manager. In the loop manager every send is validated twice (`loop_manager.py:213`), so a mapping to one admission per send would need to halve the counters. It would also add a second history to a state space that is already at its run-time bound. `InFlightSinceResetWithinCap` states the position cap for the composed system.

Not modelled, because the code cannot reach its own state changes:
- **The flashbots manager** (`flashbots.py`). `submit_bundle`'s only state change is `_track_bundle_submission`, and it cannot be reached:
  - `_calculate_optimal_bid` calls the undefined `_get_current_base_fee`, and in its `except` the undefined `_get_default_bid`;
  - `_prepare_bundle` is undefined as well;
  - so every call ends in the outer `except` and returns `None`.

  Even earlier, the production `_optimize_bundle` reads `.base_fee_per_gas` of a coroutine, and test mode has no `self.flashbot`. Nothing writes `builder_stats`. A model would be one step that changes nothing.
- **The bot's main loop** (`bot.py`). `MEVBot.__init__` calls the undefined `_build_flashbots_middleware` (`bot.py:46`), so no bot is ever constructed. Beyond that, its `start` and its loop call methods that do not exist, and `pending_bundles` could only grow through `submit_bundle`, which always returns `None`.
- **The loop manager's `_monitor_health`**. It reads psutil and logs, and changes nothing the loop reads.

Not modelled, because they are I/O or floating-point numerics with no control
state the properties depend on:
- CPU, memory, network and DPDK management;
- performance metrics;
- key-manager encryption;
- notification formatting;
- strategy arithmetic;
- scripts.
