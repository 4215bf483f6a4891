---------------------------- MODULE FlashLoanExec ----------------------------
(***************************************************************************)
(* Flash-loan execution of core/flash_loan.py: get_optimal_provider,    *)
(* then execute_flash_loan, which builds the transaction in               *)
(* _build_flash_loan_tx (nonce from get_transaction_count, then the fee   *)
(* reads), sends it with eth_sendTransaction and waits for its receipt.   *)
(*                                                                         *)
(* Each caller is a task signing for config['address'].  Only the tests   *)
(* call JITLiquidityStrategy.execute_opportunity, and OptimizedJIT's call *)
(* fails at line 209, so the configuration has one caller that repeats    *)
(* its loans.  The node is modelled by its pool and its mined             *)
(* transactions; the nonce at 'latest' is the number of mined ones.       *)
(*                                                                         *)
(* _get_provider_fee awaits nothing, so `self.total_fees_paid += await    *)
(* ...` does not suspend; the fee total is left out, as is the scan of    *)
(* get_optimal_provider (module FlashLoan): a task starts with one of the *)
(* providers the scan can return.                                         *)
(***************************************************************************)
EXTENDS Integers, Sequences, FiniteSets

CONSTANTS
  Tasks,        \* callers of execute_flash_loan
  Selectable,   \* providers get_optimal_provider can return
  AsyncWeb3,    \* whether the awaited eth calls return awaitables
  RpcFailures,  \* whether node calls may raise
  MaxSends      \* bound on the transactions sent

VARIABLES
  ex,          \* per task: [pc, provider, nonce, tx]
  sent,        \* transactions sent, in order: [nonce, kind] (history)
  pool,        \* indexes into sent of the node's pending transactions
  mined,       \* indexes into sent of the mined ones ...
  status,      \* ... and their receipt status
  totalLoans,       \* FlashLoanManager.total_loans
  successfulLoans   \* FlashLoanManager.successful_loans

vars == <<ex, sent, pool, mined, status, totalLoans, successfulLoans>>

NoTx == 0

\* The transaction _build_flash_loan_tx builds: AAVE_V3 gets `to` and the
\* flashLoan call data; for the other providers the branches are `pass`,
\* so the transaction has neither and creates an empty contract.
Kind(p) == IF p = "aave_v3" THEN "loan" ELSE "create"

\* get_transaction_count(address) at the default block 'latest'.
NonceLatest == Cardinality(mined)

Init ==
  /\ ex = [t \in Tasks |-> [pc |-> "idle", provider |-> "none", nonce |-> 0,
                            tx |-> NoTx]]
  /\ sent = <<>> /\ pool = {} /\ mined = {}
  /\ status = [i \in {} |-> 1]
  /\ totalLoans = 0 /\ successfulLoans = 0

SetPc(t, pc) == ex' = [ex EXCEPT ![t].pc = pc]

-----------------------------------------------------------------------------
(* execute_opportunity and execute_flash_loan                             *)

\* get_optimal_provider returned provider p; execute_flash_loan finds its
\* contract (never None for a provider the scan returned) and enters
\* _build_flash_loan_tx.  A scan returning None ends the strategy's call
\* without state change and is not an action.
ExecStart(t, p) ==
  /\ ex[t].pc = "idle"
  /\ Len(sent) + Cardinality({u \in Tasks : ex[u].pc \in {"build", "send"}})
       < MaxSends
  /\ ex' = [ex EXCEPT ![t] = [pc |-> "build", provider |-> p, nonce |-> 0,
                              tx |-> NoTx]]
  /\ UNCHANGED <<sent, pool, mined, status, totalLoans, successfulLoans>>

\* `await get_transaction_count(...)` returned the nonce at 'latest'; the
\* fee reads (_get_max_fee, _get_priority_fee) follow, each an await that
\* swallows its errors.  The await raises when get_transaction_count is
\* synchronous or the node fails: the builder returns None, the loan False.
Build(t) ==
  /\ ex[t].pc = "build"
  /\ \/ /\ AsyncWeb3
        /\ ex' = [ex EXCEPT ![t].pc = "send", ![t].nonce = NonceLatest]
     \/ /\ ~AsyncWeb3 \/ RpcFailures
        /\ SetPc(t, "done")
  /\ UNCHANGED <<sent, pool, mined, status, totalLoans, successfulLoans>>

\* Pending transactions the node holds with nonce n.
PendingWith(n) == {i \in pool : sent[i].nonce = n}

\* Mutant: a rejected send returns None and the receipt of None is awaited.
SendSwallowed(t) ==
  /\ ex[t].pc = "send"
  /\ LET n == ex[t].nonce
         i == Len(sent) + 1
     IN /\ sent' = Append(sent, [nonce |-> n, kind |-> Kind(ex[t].provider)])
        /\ UNCHANGED <<mined, status, totalLoans, successfulLoans>>
        /\ \/ /\ n = NonceLatest /\ PendingWith(n) = {}
              /\ pool' = pool \cup {i}
              /\ ex' = [ex EXCEPT ![t].pc = "wait", ![t].tx = i]
           \/ /\ n = NonceLatest /\ PendingWith(n) # {}
              /\ pool' = (pool \ PendingWith(n)) \cup {i}
              /\ ex' = [ex EXCEPT ![t].pc = "wait", ![t].tx = i]
           \/ /\ n < NonceLatest \/ PendingWith(n) # {}
              /\ ex' = [ex EXCEPT ![t].pc = "wait", ![t].tx = NoTx]
              /\ UNCHANGED pool
           \/ /\ RpcFailures /\ n = NonceLatest
              /\ pool' = (pool \ PendingWith(n)) \cup {i}
              /\ SetPc(t, "done")

\* `await send_transaction(tx)`.  The node rejects a nonce already mined
\* and, for a nonce already pending, either rejects the transaction
\* (replacement underpriced) or replaces the pending one (when the base
\* fee, hence maxFeePerGas, rose by the replacement margin).  A raising
\* send leaves execute_flash_loan with (False, None), whether or not the
\* node kept the transaction.
Send(t) ==
  /\ ex[t].pc = "send"
  /\ LET n == ex[t].nonce
         i == Len(sent) + 1
     IN /\ sent' = Append(sent, [nonce |-> n, kind |-> Kind(ex[t].provider)])
        /\ UNCHANGED <<mined, status, totalLoans, successfulLoans>>
        /\ \/ /\ n = NonceLatest /\ PendingWith(n) = {}
              /\ pool' = pool \cup {i}
              /\ ex' = [ex EXCEPT ![t].pc = "wait", ![t].tx = i]
           \/ /\ n = NonceLatest /\ PendingWith(n) # {}
              /\ pool' = (pool \ PendingWith(n)) \cup {i}
              /\ ex' = [ex EXCEPT ![t].pc = "wait", ![t].tx = i]
           \/ /\ n < NonceLatest \/ PendingWith(n) # {}
              /\ SetPc(t, "done") /\ UNCHANGED pool
           \/ /\ RpcFailures /\ n = NonceLatest
              /\ pool' = (pool \ PendingWith(n)) \cup {i}
              /\ SetPc(t, "done")

\* wait_for_transaction_receipt returned: a successful receipt counts a
\* successful loan, every receipt a loan.  (The fee read between the two
\* increments does not suspend.)
ReceiptReturns(t) ==
  /\ ex[t].pc = "wait" /\ ex[t].tx \in mined
  /\ successfulLoans' = successfulLoans + (IF status[ex[t].tx] = 1 THEN 1 ELSE 0)
  /\ totalLoans' = totalLoans + 1
  /\ SetPc(t, "done")
  /\ UNCHANGED <<sent, pool, mined, status>>

\* Mutant: a timed-out wait still counts the loan.
ReceiptTimeoutCounted(t) ==
  /\ ex[t].pc = "wait" /\ ex[t].tx \notin mined
  /\ SetPc(t, "done")
  /\ totalLoans' = totalLoans + 1
  /\ UNCHANGED <<sent, pool, mined, status, successfulLoans>>

\* TimeExhausted after the default 120 s without a receipt: caught, the
\* loan returns (False, None) and is not counted; the transaction may
\* still be mined later.
ReceiptTimeout(t) ==
  /\ ex[t].pc = "wait" /\ ex[t].tx \notin mined
  /\ SetPc(t, "done")
  /\ UNCHANGED <<sent, pool, mined, status, totalLoans, successfulLoans>>

\* execute_opportunity returned (its attempt counters, which nothing reads,
\* are left out); the strategy may be executed again.
ExecEnd(t) ==
  /\ ex[t].pc = "done"
  /\ ex' = [ex EXCEPT ![t] = [pc |-> "idle", provider |-> "none", nonce |-> 0,
                              tx |-> NoTx]]
  /\ UNCHANGED <<sent, pool, mined, status, totalLoans, successfulLoans>>

-----------------------------------------------------------------------------
(* The chain                                                               *)

\* The pending transaction with the next nonce is mined; the others with
\* that nonce become invalid and leave the pool.  A flash loan can revert
\* (status 0); an empty contract creation succeeds.
Mine(i) ==
  /\ i \in pool /\ sent[i].nonce = NonceLatest
  /\ \E s \in IF sent[i].kind = "loan" THEN {0, 1} ELSE {1} :
       status' = [j \in mined \cup {i} |-> IF j = i THEN s ELSE status[j]]
  /\ mined' = mined \cup {i}
  /\ pool' = pool \ PendingWith(sent[i].nonce)
  /\ UNCHANGED <<ex, sent, totalLoans, successfulLoans>>

-----------------------------------------------------------------------------

Next ==
  \/ \E t \in Tasks :
       \/ \E p \in Selectable : ExecStart(t, p)
       \/ Build(t) \/ Send(t) \/ ReceiptReturns(t) \/ ReceiptTimeout(t)
       \/ ExecEnd(t)
  \/ \E i \in pool : Mine(i)

\* Every await returns or raises: the node answers, and the receipt wait
\* ends by a receipt or by its timeout.  Strategies need not run again.
Fairness ==
  \A t \in Tasks :
    /\ WF_vars(Build(t)) /\ WF_vars(Send(t))
    /\ WF_vars(ReceiptReturns(t) \/ ReceiptTimeout(t))

Spec == Init /\ [][Next]_vars /\ Fairness

-----------------------------------------------------------------------------

TypeOK ==
  /\ ex \in [Tasks -> [pc : {"idle", "build", "send", "wait", "done"},
                       provider : Selectable \cup {"none"},
                       nonce : 0 .. MaxSends, tx : 0 .. MaxSends]]
  /\ sent \in Seq([nonce : 0 .. MaxSends, kind : {"loan", "create"}])
  /\ Len(sent) <= MaxSends
  /\ pool \subseteq DOMAIN sent /\ mined \subseteq DOMAIN sent
  /\ pool \cap mined = {} /\ status \in [mined -> {0, 1}]
  /\ \A t \in Tasks : ex[t].pc = "wait" => ex[t].tx \in DOMAIN sent
  /\ totalLoans \in Nat /\ successfulLoans \in Nat

\* Receipt accounting: total_loans and successful_loans count distinct
\* mined transactions (successful ones for successful_loans), although
\* waits time out, transactions are replaced and mined after the wait.
LoansCountedWereMined ==
  /\ totalLoans <= Cardinality(mined)
  /\ successfulLoans <= Cardinality({i \in mined : status[i] = 1})

=============================================================================
