------------------------- MODULE MC_CircuitBreaker -------------------------
(* Small instance of the circuit breaker for TLC.                          *)
EXTENDS CircuitBreaker

\* Every combination of the transaction fields the checks tell apart:
\* zero or one unit of value, gas price below/at/above the ceiling,
\* profit below/at the floor, no prices or a slippage above the cap.
MCTxs ==
  [value : {0, 1}, gasPrice : {0, 1, 2}, profit : {0, 1},
   slip : {NoPrice, 2}]
\* A loss and a gain of one unit.
MCPnLAmounts == {-1, 1}
=============================================================================
