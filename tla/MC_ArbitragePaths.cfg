\* Four DEXes and two tokens, every assignment of pairs (the empty one of
\* the _get_dex_pairs TODO among them); paths of up to four entries, so
\* rings of two and three DEXes are returned and rings of four are not.
CONSTANTS
  d1 = d1  d2 = d2  d3 = d3  d4 = d4
  t1 = t1  t2 = t2
  Dexes <- MCDexes
  Tokens <- MCTokens
  MaxPathLength = 4
  SimdProfits = TRUE
  Sweep <- MCSweep
SPECIFICATION Spec
CHECK_DEADLOCK FALSE
INVARIANTS PathsAreShortCycles SelectsMostProfitable
