-------------------------- MODULE MC_LoopManager ---------------------------
(* Small instance of the loop manager for TLC: two concurrent strategies.  *)
EXTENDS LoopManager, TLC

CONSTANTS C1, C2   \* contract addresses

\* Gas is priced at zero units here: the breaker's gas accounting is
\* checked in MC_CircuitBreaker, and leaving it out keeps the composed
\* state space small.  A good transaction to the whitelisted contract C1
\* and one whose value equals max_position_size.
GoodTx == [value |-> 1, gasPrice |-> 0, profit |-> 1, slip |-> NoPrice, to |-> C1]
MCTxs ==
  { GoodTx, [GoodTx EXCEPT !.value = 2] }
MCPnLAmounts == {}
MCWhitelist == {C1}
\* The two strategies are interchangeable (used for safety runs only).
StrategySymmetry == Permutations(Strategies)
=============================================================================
