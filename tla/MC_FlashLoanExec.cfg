\* One caller repeating its loans (the JIT strategy runs only in tests), an
\* asynchronous Web3, node failures, and three sends: enough for a wait
\* that times out, a later loan that reuses the still pending nonce, and
\* a late mining.
CONSTANTS
  e1 = e1
  Tasks = {e1}
  Selectable <- MCSelectable
  AsyncWeb3 = TRUE
  RpcFailures = TRUE
  MaxSends = 3
SPECIFICATION Spec
INVARIANT TypeOK
INVARIANT LoansCountedWereMined
\* Once the sends are spent and the pool is empty, the caller finds no
\* provider again: the manager idles, which the code allows.
CHECK_DEADLOCK FALSE
