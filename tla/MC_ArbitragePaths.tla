------------------------- MODULE MC_ArbitragePaths -------------------------
EXTENDS ArbitragePaths

CONSTANTS d1, d2, d3, d4, t1, t2

MCDexes == {d1, d2, d3, d4}
MCTokens == {t1, t2}

\* A profit sweep that varies with the path: the DEX a path starts from
\* and the one it goes to first, with ties and non-positive results.
MCSweep(p) ==
  [idx |-> (Len(p) % 4) + 1,
   profit |-> CASE p[1] = d1 -> 2
              []   p[2] = d1 -> 2
              []   p[2] = d2 -> 1
              []   p[1] = d4 -> -1
              []   OTHER     -> 0]
=============================================================================
