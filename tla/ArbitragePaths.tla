--------------------------- MODULE ArbitragePaths ---------------------------
(***************************************************************************)
(* The path search of ArbitrageStrategy (src/mevbot/strategies/           *)
(* arbitrage.py): the DEX graph __init__ builds from the configured DEXes  *)
(* and their pairs, and the depth-first cycle search analyze_opportunity   *)
(* runs through _find_arbitrage_paths for a token.                         *)
(*                                                                         *)
(* A DEX is a model value and its pairs the set of tokens it trades; the   *)
(* pairs of every DEX are chosen in Init (_get_dex_pairs is a TODO that     *)
(* returns set(), the all-empty choice).  A path is a sequence of DEXes;   *)
(* the search result, a list of distinct paths, is a set.  The DFS is a    *)
(* RECURSIVE operator, checked against a declarative definition of the     *)
(* cycles it should return; the analysis then picks the most profitable    *)
(* path, with the SIMD profit sweep given as the constant operator Sweep.  *)
(***************************************************************************)
EXTENDS Integers, Sequences, Functions, TLC

CONSTANTS
  Dexes,          \* config['dexes'] addresses
  Tokens,         \* tokens the DEXes may trade
  MaxPathLength,  \* config.get('max_path_length', 3)
  SimdProfits,    \* whether SIMDProcessor has calculate_arbitrage_profits
  Sweep(_)        \* its result for a path: the argmax index into the
                  \* amount ladder and the profit there

VARIABLES
  pairs,   \* _get_dex_pairs(d) for each DEX
  graph,   \* self.dex_graph, NoGraph before __init__ builds it
  paths,   \* per token searched so far: the last search result
  params,  \* per token searched so far: the ArbitrageParams returned
  live     \* DEXes whose getReserves answers with non-zero reserves

vars == <<pairs, graph, paths, params, live>>

\* No graph yet: an empty dict (also what a failing _build_dex_graph returns).
NoGraph == [d \in {} |-> [pairs |-> {}, neighbors |-> {}]]

\* Mutant: the `other_dex['address'] != address` test is left out, so a
\* DEX is its own neighbor.
BuildDexGraphSelf(p) ==
  [d \in Dexes |-> [pairs |-> p[d],
                    neighbors |-> {o \in Dexes : p[d] \cap p[o] # {}}]]

\* _build_dex_graph: every DEX gets its pairs and, as neighbors, the other
\* DEXes whose pairs intersect its own.
BuildDexGraph(p) ==
  [d \in Dexes |-> [pairs |-> p[d],
                    neighbors |-> {o \in Dexes \ {d} : p[d] \cap p[o] # {}}]]

\* _find_cycles: a path back at its start is a cycle and is recorded; a
\* path of max_length DEXes ends the search; otherwise every neighbor that
\* is the start or not yet visited, and trades the token, extends the path.
\* (Removing the start from `visited` after it was re-entered changes
\* nothing: the start always passes the `neighbor == start` test.)
RECURSIVE FindCycles(_, _, _, _, _, _)
FindCycles(G, start, current, path, visited, token) ==
  IF Len(path) > 1 /\ current = start THEN {path}
  ELSE IF Len(path) >= MaxPathLength THEN {}
  ELSE UNION {FindCycles(G, start, n, Append(path, n), visited \cup {n}, token) :
                n \in {m \in G[current].neighbors :
                         (m = start \/ m \notin visited) /\ token \in G[m].pairs}}

\* _get_dexes_with_token: the DEXes of the graph whose pairs hold the token.
DexesWithToken(G, token) == {d \in DOMAIN G : token \in G[d].pairs}

\* _find_arbitrage_paths: the cycle search from every DEX with the token.
FindArbitragePaths(G, token) ==
  UNION {FindCycles(G, s, s, <<s>>, {s}, token) : s \in DexesWithToken(G, token)}

\* The amount ladder of _calculate_optimal_amounts (0.1, 1, 2, 5 ETH) in
\* units of 0.1 ETH.
Ladder == <<1, 10, 20, 50>>

NoAmounts == <<>>
NoParams == [path |-> <<>>, amounts |-> NoAmounts, profit |-> 0]

\* _calculate_hop_amounts: the base amount, then one _calculate_output_amount
\* per hop.  np.array(reserves) holds getReserves() results of three fields
\* (reserve0, reserve1, blockTimestampLast): `x, y = reserves` raises, is
\* caught, and every hop after the first gets 0.
HopAmounts(base, n) == [i \in 1 .. n |-> IF i = 1 THEN base ELSE 0]

\* _calculate_optimal_amounts for a path when the DEXes in `readable` answer
\* getReserves with non-zero reserves (the price cache always misses): a
\* DEX that does not gives (None, 0); a missing SIMD method raises and
\* gives (None, 0); a best profit <= 0 gives (None, 0).
OptimalAmounts(path, readable) ==
  IF Range(path) \subseteq readable /\ SimdProfits /\ Sweep(path).profit > 0
  THEN [amounts |-> HopAmounts(Ladder[Sweep(path).idx], Len(path)),
        profit |-> Sweep(path).profit]
  ELSE [amounts |-> NoAmounts, profit |-> 0]

\* Mutant: max_profit is not updated, so every positive path replaces the
\* best one.
RECURSIVE SelectBestStale(_, _, _)
SelectBestStale(ps, readable, best) ==
  IF ps = {} THEN best
  ELSE LET p == CHOOSE q \in ps : TRUE
           r == OptimalAmounts(p, readable)
       IN SelectBestStale(ps \ {p}, readable,
            IF r.profit > 0 THEN [path |-> p, amounts |-> r.amounts,
                                  profit |-> best.profit]
                            ELSE best)

\* The loop of analyze_opportunity over the paths ps not yet visited: a
\* path whose profit exceeds max_profit becomes best_path, with its
\* amounts.  The list order follows Python set iteration in _find_cycles;
\* the order CHOOSE takes is one of them.
RECURSIVE SelectBest(_, _, _)
SelectBest(ps, readable, best) ==
  IF ps = {} THEN best
  ELSE LET p == CHOOSE q \in ps : TRUE
           r == OptimalAmounts(p, readable)
       IN SelectBest(ps \ {p}, readable,
            IF r.profit > best.profit
            THEN [path |-> p, amounts |-> r.amounts, profit |-> r.profit]
            ELSE best)

\* analyze_opportunity: no paths, or no best path, amounts or positive
\* profit, returns None; otherwise the ArbitrageParams of the best path.
AnalyzeOpportunity(P, readable) ==
  LET best == SelectBest(P, readable, NoParams)
  IN IF P = {} \/ best.path = <<>> \/ best.amounts = NoAmounts
        \/ best.profit <= 0
     THEN NoParams ELSE best

Init ==
  /\ pairs \in [Dexes -> SUBSET Tokens]
  /\ graph = NoGraph
  /\ paths = [t \in {} |-> {}]
  /\ params = [t \in {} |-> NoParams]
  /\ live \in SUBSET Dexes

\* ArbitrageStrategy.__init__ builds the graph.
BuildGraph ==
  /\ graph = NoGraph
  /\ graph' = BuildDexGraph(pairs)
  /\ UNCHANGED <<pairs, paths, params, live>>

\* analyze_opportunity(token, ...): the paths of the token, then the best
\* of them.
Scan(t) ==
  /\ graph # NoGraph
  /\ LET P == FindArbitragePaths(graph, t)
     IN /\ paths' = (t :> P) @@ paths
        /\ params' = (t :> AnalyzeOpportunity(P, live)) @@ params
  /\ UNCHANGED <<pairs, graph, live>>

Next == BuildGraph \/ \E t \in Tokens : Scan(t)

Spec == Init /\ [][Next]_vars

-----------------------------------------------------------------------------
(* The cycles a search should return, defined without search              *)

\* The ring of distinct DEXes trading the token, each a neighbor of the
\* next and the last of the first, written from s[1] back to s[1].
Rings(t, k) ==
  {s \in [1 .. k -> {d \in Dexes : t \in pairs[d]}] :
     /\ IsInjective(s)
     /\ \A i \in 1 .. k : s[(i % k) + 1] \in graph[s[i]].neighbors}

\* The rings of 2 to n DEXes, as closed paths.
CyclesOfAtMost(t, n) ==
  {s \o <<s[1]>> : s \in UNION {Rings(t, k) : k \in 2 .. n}}

-----------------------------------------------------------------------------

\* The search of _find_arbitrage_paths returns exactly the simple cycles
\* of the DEX graph through DEXes trading the token whose closed path has
\* at most max_path_length entries, i.e. of at most max_path_length - 1
\* DEXes: no cycle is missed, none revisits a DEX, none is too long.
PathsAreShortCycles ==
  \A t \in DOMAIN paths : paths[t] = CyclesOfAtMost(t, MaxPathLength - 1)

\* Selection (spec: pick the maximum across cycles, decline if max <= 0):
\* an opportunity is returned exactly when some found path has a positive
\* profit, and then for a found path whose profit no other path exceeds,
\* with one amount per entry of the path.
SelectsMostProfitable ==
  \A t \in DOMAIN params :
    LET gain(p) == IF SimdProfits /\ Range(p) \subseteq live
                   THEN Sweep(p).profit ELSE 0
        r == params[t]
    IN /\ (r = NoParams) <=> \A p \in paths[t] : gain(p) <= 0
       /\ r # NoParams =>
            /\ r.path \in paths[t] /\ r.profit = gain(r.path)
            /\ \A p \in paths[t] : gain(p) <= r.profit
            /\ Len(r.amounts) = Len(r.path)

\* What spec.md says of the strategy: the search enumerates the cycles of
\* up to max-length L pools (L = 3 by default, S4: a triangle of pools).
FindsCyclesUpToL ==
  \A t \in DOMAIN paths : paths[t] = CyclesOfAtMost(t, MaxPathLength)

=============================================================================
