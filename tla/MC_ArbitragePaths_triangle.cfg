\* The default max_path_length of 3 against spec.md's "cycles up to
\* max-length L": a triangle of DEXes trading the token is not returned.
CONSTANTS
  d1 = d1  d2 = d2  d3 = d3  d4 = d4
  t1 = t1  t2 = t2
  Dexes <- MCDexes
  Tokens <- MCTokens
  MaxPathLength = 3
  SimdProfits = TRUE
  Sweep <- MCSweep
SPECIFICATION Spec
CHECK_DEADLOCK FALSE
INVARIANT FindsCyclesUpToL
