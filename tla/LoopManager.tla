---------------------------- MODULE LoopManager ----------------------------
(***************************************************************************)
(* The loop manager (src/mevbot/core/loop_manager.py, LoopManager): the    *)
(* main loop runs the ready strategies concurrently under asyncio.gather,  *)
(* gates every returned transaction through the safety coordinator, signs  *)
(* and sends it; a monitor task polls receipts and drops completed         *)
(* transactions from `pending_transactions`.                               *)
(*                                                                         *)
(* Atomicity follows the event loop: a step runs from one suspension point *)
(* (an awaited I/O call) to the next.  strategy.execute(), the send and    *)
(* each receipt poll suspend; the two validate_transaction calls, the      *)
(* signing and the issue of the send request do not (the breaker's awaits  *)
(* call coroutines that never suspend), so they form one step.             *)
(***************************************************************************)
EXTENDS Integers, Sequences, FiniteSets, FiniteSetsExt

CONSTANTS
  MaxPosition, MaxGasPrice, MaxDailyGasSpend, MinProfit, MaxDailyLoss,
  TxWindow, MaxTxPerWindow, MaxSlippage, MetricsResetInterval,
  HealthCheckInterval, NoPrice, Txs, PnLAmounts, MaxTime, MaxPnL,
  CoordMaxGasPrice, Whitelist, NoTo,
  Strategies,        \* the strategies (model values)
  Registered,        \* those add_strategy registered before the first start()
  NoTx,              \* strategy.execute() returned no transaction
  HealthGateOutcomes,\* what _should_execute_strategy's checks may return
  SignerAwaitable,   \* whether `await key_manager.get_private_key(..)` works
  MaxSubmissions,    \* bound: transactions sent in one behaviour
  OperatorResets,    \* whether an operator calls reset_breaker
  MaxStarts,         \* bound: calls of start()
  MaxRegOps,         \* bound: calls of add_strategy and remove_strategy
  MaxDirectCalls     \* bound: calls of the public execute_strategy

VARIABLES
  now, cb,     \* wall clock and circuit breaker (see CircuitBreaker)
  phase,       \* per _run_loop copy: "off", "select" or "gather"
  pc,          \* per execution: "idle", "executing", "sending", "done"
  sending,     \* per execution: hash of the transaction it is sending
  subs,        \* every transaction sent: [value, t], indexed by hash
  sinceReset,  \* hashes sent since the breaker's last metrics reset
  pending,     \* self.pending_transactions
  chain,       \* per hash: "none", "pool" (in the node), "mined", "dropped"
  mon,         \* per _monitor_transactions copy: [phase, todo, found, size]
  running,     \* self.running
  sRun,        \* per strategy: strategy.running (BaseStrategy)
  reg,         \* the strategies in self.strategies
  starts,      \* calls of start() that passed the running check
  regOps,      \* calls of add_strategy and remove_strategy that succeeded
  directs,     \* calls of execute_strategy that found the strategy
  sentAtStop   \* history: submissions made when stop() last ran (-1: not
               \* stopped since the last start)

life == <<running, sRun, reg, starts, regOps, directs, sentAtStop>>
vars == <<now, cb, phase, pc, sending, subs, sinceReset, pending, chain,
          mon, life>>

SC == INSTANCE SafetyCoordinator
CB == INSTANCE CircuitBreaker WITH log <- <<>>, accepted <- <<>>

Hashes == 1 .. MaxSubmissions

\* Each start() has its own _run_loop and creates its own
\* _monitor_transactions task: copy l is the l-th start's.  An execution
\* is a strategy's _execute_strategy_safely gathered by one copy, or the
\* one a caller of execute_strategy awaits (copy Direct).
Loops == 1 .. MaxStarts
Direct == 0
Execs == ({Direct} \cup Loops) \X Strategies

MonOff == [phase |-> "off", todo |-> {}, found |-> {}, size |-> 0]

Init ==
  /\ now = 0
  /\ cb = CB!InitBreaker(0)
  /\ phase = [l \in Loops |-> "off"]
  /\ pc = [e \in Execs |-> "idle"]
  /\ sending = [e \in Execs |-> 0]
  /\ subs = <<>>
  /\ sinceReset = {}
  /\ pending = {}
  /\ chain = [h \in Hashes |-> "none"]
  /\ mon = [l \in Loops |-> MonOff]
  /\ running = FALSE /\ sRun = [s \in Strategies |-> FALSE]
  /\ reg = Registered /\ starts = 0 /\ regOps = 0 /\ directs = 0
  /\ sentAtStop = -1

-----------------------------------------------------------------------------
(* start and stop                                                          *)

\* Mutant: a start() after the first creates no _monitor_transactions task
\* of its own.
StartNoMonitor ==
  /\ ~running /\ starts < MaxStarts
  /\ LET l == starts + 1
     IN /\ phase' = [phase EXCEPT ![l] = "select"]
        /\ mon' = IF l = 1 THEN [mon EXCEPT ![l].phase = "sleep"] ELSE mon
        /\ starts' = l
  /\ running' = TRUE
  /\ sRun' = [s \in Strategies |-> s \in reg \/ sRun[s]]
  /\ sentAtStop' = -1
  /\ UNCHANGED <<now, cb, pc, sending, subs, sinceReset, pending, chain, reg,
                 regOps, directs>>

\* start(): sets running, starts the safety coordinator and every
\* registered strategy (BaseStrategy.start sets its flag), creates the
\* monitor task and runs its own _run_loop.  A start after stop() creates a
\* new pair of tasks while the old ones may not yet have seen the flag: they
\* then run on beside the new ones.
Start ==
  /\ ~running /\ starts < MaxStarts
  /\ LET l == starts + 1
     IN /\ phase' = [phase EXCEPT ![l] = "select"]
        /\ mon' = [mon EXCEPT ![l].phase = "sleep"]
        /\ starts' = l
  /\ running' = TRUE
  /\ sRun' = [s \in Strategies |-> s \in reg \/ sRun[s]]
  /\ sentAtStop' = -1
  /\ UNCHANGED <<now, cb, pc, sending, subs, sinceReset, pending, chain, reg,
                 regOps, directs>>

\* stop(): clears running, stops every registered strategy and the safety
\* coordinator.  Executions in flight are not interrupted.
Stop ==
  /\ running
  /\ running' = FALSE
  /\ sRun' = [s \in Strategies |-> s \notin reg /\ sRun[s]]
  /\ sentAtStop' = Len(subs)
  /\ UNCHANGED <<now, cb, phase, pc, sending, subs, sinceReset, pending, chain,
                 mon, reg, starts, regOps, directs>>

\* add_strategy: an id already present raises ValueError; otherwise the
\* strategy is registered and, if the manager runs, started.
AddStrategy(s) ==
  /\ s \notin reg /\ regOps < MaxRegOps
  /\ reg' = reg \cup {s} /\ regOps' = regOps + 1
  /\ sRun' = [sRun EXCEPT ![s] = @ \/ running]
  /\ UNCHANGED <<now, cb, phase, pc, sending, subs, sinceReset, pending, chain,
                 mon, running, starts, directs, sentAtStop>>

\* remove_strategy: an unknown id raises ValueError; otherwise the strategy
\* is stopped and unregistered.  An execution of it already gathered goes on.
RemoveStrategy(s) ==
  /\ s \in reg /\ regOps < MaxRegOps
  /\ reg' = reg \ {s} /\ regOps' = regOps + 1
  /\ sRun' = [sRun EXCEPT ![s] = FALSE]
  /\ UNCHANGED <<now, cb, phase, pc, sending, subs, sinceReset, pending, chain,
                 mon, running, starts, directs, sentAtStop>>

\* execute_strategy: an unknown id raises ValueError; otherwise the caller
\* awaits _execute_strategy_safely at once, with no test of running or
\* is_ready, beside any execution of the strategy a loop has gathered.
ExecuteStrategyDirect(s) ==
  /\ s \in reg /\ directs < MaxDirectCalls
  /\ pc[<<Direct, s>>] \in {"idle", "done"}
  /\ pc' = [pc EXCEPT ![<<Direct, s>>] = "executing"]
  /\ directs' = directs + 1
  /\ UNCHANGED <<now, cb, phase, sending, subs, sinceReset, pending, chain, mon,
                 running, sRun, reg, starts, regOps, sentAtStop>>

\* The `while self.running` test of _run_loop copy l or of
\* _monitor_transactions copy l after stop(): the task ends.
RunLoopExit(l) ==
  /\ phase[l] = "select" /\ ~running
  /\ phase' = [phase EXCEPT ![l] = "off"]
  /\ UNCHANGED <<now, cb, pc, sending, subs, sinceReset, pending, chain, mon,
                 life>>

MonitorExit(l) ==
  /\ mon[l].phase = "sleep" /\ ~running
  /\ mon' = [mon EXCEPT ![l].phase = "off"]
  /\ UNCHANGED <<now, cb, phase, pc, sending, subs, sinceReset, pending, chain,
                 life>>

\* Every task has ended after the last start and stop: nothing more runs.
Terminated ==
  /\ starts = MaxStarts /\ ~running
  /\ \A l \in Loops : phase[l] = "off" /\ mon[l].phase = "off"
  /\ UNCHANGED vars

-----------------------------------------------------------------------------
(* _run_loop                                                               *)

\* BaseStrategy.is_ready: the strategy is running; its cooldown always
\* passes, as nothing sets last_execution.
StrategyReady(s) == sRun[s]

\* One iteration of copy l: _should_execute_strategy for every registered
\* strategy, then the chosen ones are gathered.  An iteration with none
\* chosen only sleeps.
RunLoopSelect(l) ==
  /\ phase[l] = "select" /\ running
  /\ TRUE \in HealthGateOutcomes
  /\ \E batch \in SUBSET {s \in reg : StrategyReady(s)} \ {{}} :
       pc' = [e \in Execs |-> IF e[1] # l THEN pc[e]
                              ELSE IF e[2] \in batch THEN "executing" ELSE "idle"]
  /\ phase' = [phase EXCEPT ![l] = "gather"]
  /\ UNCHANGED <<now, cb, sending, subs, sinceReset, pending, chain, mon, life>>

\* asyncio.gather returns once every chosen strategy's task has finished.
RunLoopGathered(l) ==
  /\ phase[l] = "gather"
  /\ \A s \in Strategies : pc[<<l, s>>] \in {"idle", "done"}
  /\ phase' = [phase EXCEPT ![l] = "select"]
  /\ pc' = [e \in Execs |-> IF e[1] = l THEN "idle" ELSE pc[e]]
  /\ UNCHANGED <<now, cb, sending, subs, sinceReset, pending, chain, mon, life>>

\* _execute_strategy_safely from the return of strategy.execute() up to the
\* send request: validate_transaction, then _submit_transaction's second
\* validate_transaction, _sign_transaction and send_raw_transaction.
ExecuteStrategy(e, r) ==
  /\ pc[e] = "executing"
  /\ r = NoTx \/ Len(subs) < MaxSubmissions
  /\ IF r = NoTx
     THEN /\ pc' = [pc EXCEPT ![e] = "done"]
          /\ UNCHANGED <<cb, sending, subs, sinceReset, chain>>
     ELSE LET v1 == SC!CoordinatorValidate(cb, r, now)
              v2 == SC!CoordinatorValidate(v1.cb, r, now)
              h  == Len(subs) + 1
              sent == v1.ok /\ v2.ok /\ SignerAwaitable
              kept == IF v1.cb.lastReset # cb.lastReset THEN {} ELSE sinceReset
          IN /\ cb' = IF v1.ok THEN v2.cb ELSE v1.cb
             /\ IF sent
                THEN /\ subs' = Append(subs, [value |-> r.value, t |-> now])
                     /\ sinceReset' = kept \cup {h}
                     /\ chain' = [chain EXCEPT ![h] = "pool"]
                     /\ sending' = [sending EXCEPT ![e] = h]
                     /\ pc' = [pc EXCEPT ![e] = "sending"]
                ELSE /\ sinceReset' = kept
                     /\ pc' = [pc EXCEPT ![e] = "done"]
                     /\ UNCHANGED <<subs, chain, sending>>
  /\ UNCHANGED <<now, phase, pending, mon, life>>

\* Mutant: the execution's hash is cleared before it is recorded.
SendReturnsCleared(e) ==
  /\ pc[e] = "sending"
  /\ sending' = [sending EXCEPT ![e] = 0]
  /\ pending' = pending \cup {sending'[e]}
  /\ pc' = [pc EXCEPT ![e] = "done"]
  /\ UNCHANGED <<now, cb, phase, subs, sinceReset, chain, mon, life>>

\* send_raw_transaction returns the hash: it joins pending_transactions.
SendReturns(e) ==
  /\ pc[e] = "sending"
  /\ pending' = pending \cup {sending[e]}
  /\ pc' = [pc EXCEPT ![e] = "done"]
  /\ sending' = [sending EXCEPT ![e] = 0]
  /\ UNCHANGED <<now, cb, phase, subs, sinceReset, chain, mon, life>>

\* send_raw_transaction raises (transport error, timeout): _submit_transaction
\* returns None; the node may still hold the transaction.
SendFails(e) ==
  /\ pc[e] = "sending"
  /\ pc' = [pc EXCEPT ![e] = "done"]
  /\ sending' = [sending EXCEPT ![e] = 0]
  /\ UNCHANGED <<now, cb, phase, subs, sinceReset, pending, chain, mon, life>>

-----------------------------------------------------------------------------
(* _monitor_transactions copy l: iterates over the live set, awaiting a    *)
(* receipt per hash; a send returning meanwhile changes the set's size,   *)
(* and the iterator's next() raises, so the pass is abandoned (outer       *)
(* except).  Another copy's pass removing hashes does the same.            *)

MonitorStart(l) ==
  /\ mon[l].phase = "sleep" /\ running
  /\ mon' = [mon EXCEPT ![l] = [phase |-> "scan", todo |-> pending,
                                found |-> {}, size |-> Cardinality(pending)]]
  /\ UNCHANGED <<now, cb, phase, pc, sending, subs, sinceReset, pending, chain,
                 life>>

\* One receipt poll of the pass: a hash with a receipt joins completed_txs;
\* no receipt, or a lookup that raises, leaves it out.
MonitorStep(l, h) ==
  /\ mon[l].phase = "scan"
  /\ h \in mon[l].todo
  /\ Cardinality(pending) = mon[l].size
  /\ mon' = [mon EXCEPT
               ![l].todo = @ \ {h},
               ![l].found = IF chain[h] = "mined" THEN @ \cup {h} ELSE @]
  /\ UNCHANGED <<now, cb, phase, pc, sending, subs, sinceReset, pending, chain,
                 life>>

\* Mutant: the unvisited hashes are removed instead of the completed ones.
MonitorFinishTodo(l) ==
  /\ mon[l].phase = "scan"
  /\ mon[l].todo = {} \/ Cardinality(pending) # mon[l].size
  /\ pending' = IF Cardinality(pending) = mon[l].size
                THEN pending \ mon[l].todo ELSE pending
  /\ mon' = [mon EXCEPT ![l] = [MonOff EXCEPT !.phase = "sleep"]]
  /\ UNCHANGED <<now, cb, phase, pc, sending, subs, sinceReset, chain, life>>

\* The last next() ends the loop and completed hashes are removed, or the
\* size changed and the pass is lost (RuntimeError, sleep 5).
MonitorFinish(l) ==
  /\ mon[l].phase = "scan"
  /\ mon[l].todo = {} \/ Cardinality(pending) # mon[l].size
  /\ pending' = IF Cardinality(pending) = mon[l].size
                THEN pending \ mon[l].found ELSE pending
  /\ mon' = [mon EXCEPT ![l] = [MonOff EXCEPT !.phase = "sleep"]]
  /\ UNCHANGED <<now, cb, phase, pc, sending, subs, sinceReset, chain, life>>

-----------------------------------------------------------------------------
(* Environment: the chain, the clock and the operator.                     *)

Mine(h) ==
  /\ chain[h] = "pool"
  /\ chain' = [chain EXCEPT ![h] = "mined"]
  /\ UNCHANGED <<now, cb, phase, pc, sending, subs, sinceReset, pending, mon,
                 life>>

Drop(h) ==
  /\ chain[h] = "pool"
  /\ chain' = [chain EXCEPT ![h] = "dropped"]
  /\ UNCHANGED <<now, cb, phase, pc, sending, subs, sinceReset, pending, mon,
                 life>>

Tick ==
  /\ now < MaxTime
  /\ now' = now + 1
  /\ UNCHANGED <<cb, phase, pc, sending, subs, sinceReset, pending, chain, mon,
                 life>>

\* circuit_breaker.reset_breaker(), called by an operator.
ResetBreaker ==
  /\ OperatorResets
  /\ cb' = CB!Reset(cb, now)
  /\ sinceReset' = {}
  /\ UNCHANGED <<now, phase, pc, sending, subs, pending, chain, mon, life>>

Next ==
  \/ \E l \in Loops : RunLoopSelect(l) \/ RunLoopGathered(l)
  \/ \E e \in Execs, r \in Txs \cup {NoTx} : ExecuteStrategy(e, r)
  \/ \E e \in Execs : SendReturns(e) \/ SendFails(e)
  \/ \E l \in Loops : MonitorStart(l) \/ MonitorFinish(l)
  \/ \E l \in Loops, h \in Hashes : MonitorStep(l, h)
  \/ \E h \in Hashes : Mine(h) \/ Drop(h)
  \/ Tick \/ ResetBreaker
  \/ Start \/ Stop
  \/ \E s \in Strategies : AddStrategy(s) \/ RemoveStrategy(s)
                            \/ ExecuteStrategyDirect(s)
  \/ \E l \in Loops : RunLoopExit(l) \/ MonitorExit(l)
  \/ Terminated

\* The event loop keeps running ready tasks: a send that was issued
\* returns (or raises), the monitor task and the main loop, which loop
\* while running, make progress and notice a stop.  strategy.execute()
\* has no timeout, so a strategy is not assumed to return; start() and
\* stop() are the operator's.
Fairness ==
  /\ \A e \in Execs : WF_vars(SendReturns(e) \/ SendFails(e))
  /\ \A l \in Loops :
       /\ WF_vars(MonitorStart(l)) /\ WF_vars(MonitorFinish(l))
       /\ WF_vars(\E h \in Hashes : MonitorStep(l, h))
       /\ WF_vars(RunLoopSelect(l)) /\ WF_vars(RunLoopGathered(l))
       /\ WF_vars(RunLoopExit(l)) /\ WF_vars(MonitorExit(l))

Spec == Init /\ [][Next]_vars /\ Fairness

-----------------------------------------------------------------------------
(* Properties                                                              *)

TypeOK ==
  /\ now \in 0 .. MaxTime
  /\ cb \in CB!BreakerRecord
  /\ phase \in [Loops -> {"off", "select", "gather"}]
  /\ pc \in [Execs -> {"idle", "executing", "sending", "done"}]
  /\ sending \in [Execs -> 0 .. MaxSubmissions]
  /\ subs \in Seq([value : Nat, t : Nat]) /\ Len(subs) <= MaxSubmissions
  /\ sinceReset \subseteq DOMAIN subs /\ pending \subseteq DOMAIN subs
  /\ chain \in [Hashes -> {"none", "pool", "mined", "dropped"}]
  /\ mon \in [Loops -> [phase : {"off", "sleep", "scan"}, todo : SUBSET Hashes,
                        found : SUBSET Hashes, size : Nat]]
  /\ running \in BOOLEAN /\ sRun \in [Strategies -> BOOLEAN]
  /\ reg \subseteq Strategies /\ starts \in 0 .. MaxStarts
  /\ regOps \in 0 .. MaxRegOps /\ directs \in 0 .. MaxDirectCalls
  /\ sentAtStop \in -1 .. MaxSubmissions

\* Value of the transactions in a set of hashes that the node still holds.
InFlightValue(H) == MapThenSumSet(LAMBDA h : subs[h].value,
                                  {h \in H : chain[h] = "pool"})

\* Position cap (spec 8.3) as far as the breaker can see it: the value of
\* transactions sent since the breaker's last metrics reset and still in
\* the node never exceeds max_position_size, whatever the interleaving of
\* strategies, sends and chain events.
InFlightSinceResetWithinCap ==
  InFlightValue(sinceReset) <= MaxPosition

\* Position cap (spec 8.3) in full: the value of all transactions in flight
\* never exceeds max_position_size, across daily and manual resets.
InFlightWithinCap ==
  InFlightValue(DOMAIN subs) <= MaxPosition

\* Position accounting: the breaker's current_size is the value the bot
\* sent since the last reset (each submission counted once).
PositionIsSubmittedValue ==
  cb.position = MapThenSumSet(LAMBDA h : subs[h].value, sinceReset)

\* Receipt tracking: while the loop manager runs, a transaction that was
\* mined eventually leaves pending_transactions, although sends keep
\* changing the set while the monitor iterates over it.
MinedTxsLeavePending ==
  \A h \in Hashes :
    (h \in pending /\ chain[h] = "mined" /\ running)
      ~> (h \notin pending \/ ~running)

\* Receipt tracking ends (spec 4.9: the watch stops once the transaction is
\* included or its target block is past): every tracked hash eventually
\* leaves pending_transactions; here, one the node dropped (no receipt ever).
DroppedTxsLeavePending ==
  \A h \in Hashes :
    (h \in pending /\ chain[h] = "dropped" /\ running)
      ~> (h \notin pending \/ ~running)

\* Stop (spec section 6, cancellation): a task surfaces through at most one
\* I/O wait before observing the stop signal, so no transaction is sent
\* once stop() has run; here, a strategy whose execute() was awaited when
\* stop() ran.
NoSendAfterStop ==
  sentAtStop # -1 => Len(subs) = sentAtStop

=============================================================================
