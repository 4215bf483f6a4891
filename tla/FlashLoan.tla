------------------------------ MODULE FlashLoan ------------------------------
(***************************************************************************)
(* Flash-loan provider selection: the two FlashLoanManager classes.       *)
(*                                                                         *)
(* core/flashloan.py (used by bot.py) keeps a snapshot of each provider's  *)
(* liquidity, refreshed by _monitor_providers (one gathered update per     *)
(* provider, then a sleep), and selects from it in prepare_loan (cheapest *)
(* sufficient provider) and optimize_flash_loan (most profitable).         *)
(*                                                                         *)
(* core/flash_loan.py (used by the JIT strategies) reads fee and liquidity *)
(* of each of its four providers in turn in get_optimal_provider.          *)
(*                                                                         *)
(* Fees are integers per 10 000 of the amount (fee_percentage 0.0009 is    *)
(* 9); liquidity and amounts are small levels.  _estimate_gas_cost,        *)
(* _estimate_profit and _simulate_arbitrage_profit are placeholders        *)
(* returning 0.                                                            *)
(***************************************************************************)
EXTENDS Integers, Sequences, SequencesExt

CONSTANTS
  Levels,        \* liquidity levels a pool can have
  Amounts,       \* loan amounts requested
  TestMode,      \* config['test_mode']
  AsyncWeb3,     \* whether awaiting a contract call's result is possible
  Contracts,     \* flash_loan.py providers whose contract was initialised
  LiqB,          \* on-chain liquidity of the flash_loan.py providers
  RpcFailures    \* whether node calls may raise

\* core/flashloan.py: provider order of the providers dict, and fees.
Order == IF TestMode THEN <<"balancer", "aave">> ELSE <<"aave", "balancer">>
Venues == {"aave", "balancer"}
Fee == [v \in Venues |-> IF v = "aave" THEN 9 ELSE 1]

\* core/flash_loan.py: AAVE_V3, DYDX, BALANCER, UNISWAP_V3 and their fees.
OrderB == <<"aave_v3", "dydx", "balancer_b", "uniswap_v3">>
VenuesB == ToSet(OrderB)
FeeB == ("aave_v3" :> 9 @@ "dydx" :> 0 @@ "balancer_b" :> 1 @@ "uniswap_v3" :> 5)

None == "none"

VARIABLES
  liq,       \* on-chain liquidity of the flashloan.py providers
  snap,      \* their current_liquidity snapshots
  mon,       \* _monitor_providers: "gather" or "sleep"
  inflight,  \* providers whose _update_provider_status awaits the node
  loan,      \* last prepare_loan: [amount, provider, seen] (seen: snapshots)
  opt,       \* last optimize_flash_loan result: a provider or None
  jit        \* get_optimal_provider: [phase, i, best, lowest, amount]

vars == <<liq, snap, mon, inflight, loan, opt, jit>>

MaxLevel == CHOOSE l \in Levels : \A k \in Levels : k <= l
NoFee == 100   \* float('inf'): above every fee

Init ==
  /\ liq \in [Venues -> Levels]
  \* __init__: int(1e20) in test mode, 0 otherwise
  /\ snap = [v \in Venues |-> IF TestMode THEN MaxLevel ELSE 0]
  /\ mon = "gather" /\ inflight = Venues  \* start_monitoring's first pass
  /\ loan = [amount |-> 0, provider |-> None, seen |-> snap]
  /\ opt = None
  /\ jit = [phase |-> "idle", i |-> 1, best |-> None, lowest |-> NoFee,
            amount |-> 0]

ASSUME LiqB \in [VenuesB -> Levels]
ASSUME 0 \notin Amounts   \* amount 0 in `loan` marks "not called yet"

-----------------------------------------------------------------------------
(* The chain.                                                              *)

\* A pool's liquidity changes.  The flash_loan.py pools are the constant
\* LiqB, so that get_optimal_provider's scan sees one state.
ChainChange(v, l) ==
  /\ liq[v] # l
  /\ liq' = [liq EXCEPT ![v] = l]
  /\ UNCHANGED <<snap, mon, inflight, loan, opt, jit>>

-----------------------------------------------------------------------------
(* core/flashloan.py: _monitor_providers and _update_provider_status      *)

\* The provider's read returned: Balancer's sum(balances) or Aave's
\* reserve_data[0] becomes current_liquidity.  In test mode the update
\* returns before reading anything.  The read is `await ...call()`, which
\* raises TypeError unless call() returns an awaitable (AsyncWeb3).
\* Mutant: the read is added to the snapshot instead of replacing it.
UpdateReturnsAccumulate(v) ==
  /\ mon = "gather" /\ v \in inflight
  /\ inflight' = inflight \ {v}
  /\ snap' = IF TestMode THEN snap ELSE [snap EXCEPT ![v] = @ + liq[v]]
  /\ UNCHANGED <<liq, mon, loan, opt, jit>>

UpdateReturns(v) ==
  /\ mon = "gather" /\ v \in inflight /\ (TestMode \/ AsyncWeb3)
  /\ inflight' = inflight \ {v}
  /\ snap' = IF TestMode THEN snap ELSE [snap EXCEPT ![v] = liq[v]]
  /\ UNCHANGED <<liq, mon, loan, opt, jit>>

\* The read raised (node error, or the await of a synchronous call's
\* result): logged, the last snapshot is kept.
UpdateFails(v) ==
  /\ mon = "gather" /\ v \in inflight /\ (RpcFailures \/ ~AsyncWeb3)
  /\ ~TestMode
  /\ inflight' = inflight \ {v}
  /\ UNCHANGED <<liq, snap, mon, loan, opt, jit>>

\* asyncio.gather returned; the loop sleeps provider_update_interval.
GatherDone ==
  /\ mon = "gather" /\ inflight = {}
  /\ mon' = "sleep"
  /\ UNCHANGED <<liq, snap, inflight, loan, opt, jit>>

\* Mutant: the pass updates only the first provider.
SleepDoneFirstOnly ==
  /\ mon = "sleep"
  /\ mon' = "gather" /\ inflight' = {Order[1]}
  /\ UNCHANGED <<liq, snap, loan, opt, jit>>

\* The sleep ended: the next pass gathers one update per provider.
SleepDone ==
  /\ mon = "sleep"
  /\ mon' = "gather" /\ inflight' = Venues
  /\ UNCHANGED <<liq, snap, loan, opt, jit>>

-----------------------------------------------------------------------------
(* core/flashloan.py: prepare_loan and optimize_flash_loan               *)

\* fee + _estimate_gas_cost (0), in units of amount / 10 000.
Cost(v, a) == a * Fee[v]

\* Python's min over a list: the first element of least cost.
FirstCheapest(seq, a) ==
  LET i == CHOOSE i \in DOMAIN seq :
             /\ \A j \in DOMAIN seq : Cost(seq[i], a) <= Cost(seq[j], a)
             /\ \A j \in 1 .. i - 1 : Cost(seq[j], a) > Cost(seq[i], a)
  IN seq[i]

\* Mutant: a provider must hold more than the amount.
PrepareLoanStrict(a) ==
  LET avail == SelectSeq(Order, LAMBDA v : snap[v] > a)
      p == IF TestMode THEN Order[1]
           ELSE IF avail = <<>> THEN None ELSE FirstCheapest(avail, a)
  IN /\ loan' = [amount |-> a, provider |-> p, seen |-> snap]
     /\ UNCHANGED <<liq, snap, mon, inflight, opt, jit>>

\* Test mode returns the first provider; otherwise the providers whose
\* snapshot covers the amount, and the cheapest of them.
PrepareLoan(a) ==
  LET avail == SelectSeq(Order, LAMBDA v : snap[v] >= a)
      p == IF TestMode THEN Order[1]
           ELSE IF avail = <<>> THEN None ELSE FirstCheapest(avail, a)
  IN /\ loan' = [amount |-> a, provider |-> p, seen |-> snap]
     /\ UNCHANGED <<liq, snap, mon, inflight, opt, jit>>

\* Profit of borrowing `amount` from v, per 10 000: 0.2 % minus the fee in
\* test mode, _simulate_arbitrage_profit's 0.0 otherwise.
Profit(v, amount) == IF TestMode THEN amount * 20 - amount * Fee[v] ELSE 0

\* The loop of optimize_flash_loan from position i, with the best so far.
RECURSIVE Optimize(_, _, _, _, _)
Optimize(i, mn, mx, best, maxp) ==
  IF i > Len(Order) THEN best
  ELSE LET v == Order[i]
           amount == IF mx < snap[v] THEN mx ELSE snap[v]
       IN IF snap[v] < mn THEN Optimize(i + 1, mn, mx, best, maxp)
          ELSE IF Profit(v, amount) > maxp
               THEN Optimize(i + 1, mn, mx, v, Profit(v, amount))
               ELSE Optimize(i + 1, mn, mx, best, maxp)

\* bot.py asks for a loan between min_amount and max_amount.
OptimizeFlashLoan(mn, mx) ==
  /\ mn <= mx
  /\ opt' = Optimize(1, mn, mx, None, 0)
  /\ UNCHANGED <<liq, snap, mon, inflight, loan, jit>>

-----------------------------------------------------------------------------
(* core/flash_loan.py: get_optimal_provider                               *)

\* `await contract.functions.X(token).call()[0]` subscripts call()'s result
\* before awaiting it, which raises for AAVE_V3 and BALANCER; DYDX's and
\* UNISWAP_V3's reads can succeed only when call() returns an awaitable.
Readable(v) == AsyncWeb3 /\ v \in {"dydx", "uniswap_v3"}

JitStart(a) ==
  /\ jit.phase \in {"idle", "done"}
  /\ jit' = [phase |-> "scan", i |-> 1, best |-> None, lowest |-> NoFee,
             amount |-> a]
  /\ UNCHANGED <<liq, snap, mon, inflight, loan, opt>>

\* One provider of the loop: skip a missing contract, await fee and
\* liquidity (None when the read raised), skip an insufficient one, keep
\* a strictly lower fee.
JitStep ==
  /\ jit.phase = "scan" /\ jit.i <= Len(OrderB)
  /\ LET v == OrderB[jit.i]
         fee == jit.amount * FeeB[v]
     IN \E ok \in IF RpcFailures THEN BOOLEAN ELSE {TRUE} :
          LET l == IF ok /\ Readable(v) THEN LiqB[v] ELSE -1
          IN jit' = IF v \in Contracts /\ l >= jit.amount /\ fee < jit.lowest
                    THEN [jit EXCEPT !.i = @ + 1, !.best = v, !.lowest = fee]
                    ELSE [jit EXCEPT !.i = @ + 1]
  /\ UNCHANGED <<liq, snap, mon, inflight, loan, opt>>

\* The loop ended: best_provider is returned.
JitDone ==
  /\ jit.phase = "scan" /\ jit.i > Len(OrderB)
  /\ jit' = [jit EXCEPT !.phase = "done"]
  /\ UNCHANGED <<liq, snap, mon, inflight, loan, opt>>

-----------------------------------------------------------------------------

Next ==
  \/ \E v \in Venues : \/ \E l \in Levels : ChainChange(v, l)
                       \/ UpdateReturns(v) \/ UpdateFails(v)
  \/ GatherDone \/ SleepDone
  \/ \E a \in Amounts : PrepareLoan(a) \/ JitStart(a)
  \/ \E mn, mx \in Amounts : OptimizeFlashLoan(mn, mx)
  \/ JitStep \/ JitDone

\* The monitor task loops for ever; a node that fails is not down for
\* ever (a read retried every pass eventually succeeds).
Fairness ==
  /\ WF_vars(GatherDone) /\ WF_vars(SleepDone)
  /\ \A v \in Venues : WF_vars(UpdateReturns(v) \/ UpdateFails(v))
                       /\ SF_vars(UpdateReturns(v))

Spec == Init /\ [][Next]_vars /\ Fairness

-----------------------------------------------------------------------------

TypeOK ==
  /\ liq \in [Venues -> Levels] /\ snap \in [Venues -> Levels]
  /\ mon \in {"gather", "sleep"} /\ inflight \subseteq Venues
  /\ loan \in [amount : Amounts \cup {0}, provider : Venues \cup {None},
               seen : [Venues -> Levels]]
  /\ opt \in Venues \cup {None}
  /\ jit \in [phase : {"idle", "scan", "done"}, i : 1 .. Len(OrderB) + 1,
              best : VenuesB \cup {None}, lowest : Nat,
              amount : Amounts \cup {0}]

\* Provider choice (spec 4.4 select, section 8 invariant 7) for a fee set
\* and liquidity: None exactly when no provider is sufficient, else a
\* sufficient provider of least fee.
CheapestSufficient(choice, venues, fee, liquidity, a) ==
  LET ok == {v \in venues : liquidity[v] >= a}
  IN /\ choice = None <=> ok = {}
     /\ choice # None => choice \in ok /\ \A v \in ok : fee[choice] <= fee[v]

\* prepare_loan, as the bot's FlashLoanManager runs it, returns the
\* cheapest provider whose snapshot covers the amount, whatever the
\* monitor has refreshed meanwhile.
LoanIsCheapest ==
  loan.amount # 0 =>
    CheapestSufficient(loan.provider, Venues, Fee, loan.seen, loan.amount)

\* get_optimal_provider returns the cheapest provider that has the
\* liquidity.
OptimalIsCheapest ==
  jit.phase = "done" =>
    CheapestSufficient(jit.best, Contracts, FeeB, LiqB, jit.amount)

\* Snapshot refresh (spec 4.4): once a pool's liquidity stops changing,
\* the provider's current_liquidity eventually equals it for good,
\* although refreshes fail and race the pool's changes.
SnapshotsConverge ==
  \A v \in Venues, l \in Levels :
    <>[](liq[v] = l) => <>[](snap[v] = l)

=============================================================================
