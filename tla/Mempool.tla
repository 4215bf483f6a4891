------------------------------- MODULE Mempool -------------------------------
(***************************************************************************)
(* The two pending-transaction stores of core/mempool.py.                 *)
(*                                                                         *)
(* MempoolMonitor (used by bot.py) polls get_pending_transactions once a  *)
(* second, stores every hash it has not stored yet with the current time  *)
(* and evicts entries older than 300 s (TTL here).                        *)
(*                                                                         *)
(* MempoolManager.start_monitoring polls a 'pending' filter, gathers one   *)
(* _process_transaction task per new hash (each awaits get_transaction    *)
(* and stores the transaction stamped with the time it resumed), then runs *)
(* _cleanup_old_transactions.  _remove_transaction deletes the entry and  *)
(* then calls self._remove_from_indexes, which MempoolManager does not    *)
(* define: the AttributeError leaves the cleanup loop after its first     *)
(* removal and is caught by start_monitoring, which sleeps one second.    *)
(*                                                                         *)
(* _identify_protocol and _identify_token return None, so _update_indexes *)
(* and the index removal change no state; _is_relevant_transaction        *)
(* returns False, so no analysis runs.  Both are left out.                *)
(***************************************************************************)
EXTENDS Integers, Sequences, FiniteSets, SequencesExt

CONSTANTS
  Hashes,       \* transaction hashes the node may see
  Threshold,    \* MempoolManager: config tx_cleanup_threshold (default 60 s)
  TTL,          \* MempoolMonitor: the literal 300 s, scaled
  MaxTime,      \* bound on the wall clock
  RpcFailures   \* whether node calls may raise

VARIABLES
  now,      \* wall clock (time.time())
  chain,    \* per hash: "unseen", "pending", "included" or "dropped"
  fresh,    \* hashes the 'pending' filter will report at its next poll
  mkeys,    \* MempoolMonitor.transactions: the stored hashes ...
  mstamp,   \* ... and their timestamps
  phase,    \* start_monitoring: "poll", "gather" or "sleep"
  fetching, \* hashes whose _process_transaction awaits get_transaction
  keys,     \* MempoolManager.pending_txs: hashes in dict insertion order ...
  stamp,    \* ... and their timestamps
  cut       \* history: cutoff of the manager's last cleanup pass

vars == <<now, chain, fresh, mkeys, mstamp, phase, fetching, keys,
          stamp, cut>>

NoCut == -1   \* no cleanup pass has run yet

Init ==
  /\ now = 0
  /\ chain = [h \in Hashes |-> "unseen"]
  /\ fresh = {}
  /\ mkeys = {} /\ mstamp = [h \in Hashes |-> 0]
  /\ phase = "poll" /\ fetching = {}
  /\ keys = <<>> /\ stamp = [h \in Hashes |-> 0] /\ cut = NoCut

-----------------------------------------------------------------------------
(* The node.                                                               *)

\* A transaction enters the node's pool, for the first time or rebroadcast
\* after it was dropped; the filter reports it at its next poll.
Arrive(h) ==
  /\ chain[h] \in {"unseen", "dropped"}
  /\ chain' = [chain EXCEPT ![h] = "pending"]
  /\ fresh' = fresh \cup {h}
  /\ UNCHANGED <<now, mkeys, mstamp, phase, fetching, keys, stamp, cut>>

\* A pending transaction is mined or dropped from the pool.
Leave(h) ==
  /\ chain[h] = "pending"
  /\ \E e \in {"included", "dropped"} : chain' = [chain EXCEPT ![h] = e]
  /\ UNCHANGED <<now, fresh, mkeys, mstamp, phase, fetching, keys,
                 stamp, cut>>

Tick ==
  /\ now < MaxTime
  /\ now' = now + 1
  /\ UNCHANGED <<chain, fresh, mkeys, mstamp, phase, fetching, keys,
                 stamp, cut>>

-----------------------------------------------------------------------------
(* MempoolMonitor._monitor_loop                                           *)

\* Hashes whose entries a pass evicts: older than TTL at time t.
Expired(K, st, t) == {h \in K : t - st[h] > TTL}

\* One iteration after get_pending_transactions returned: store the hashes
\* not stored yet, stamped now, then delete every expired entry.
MonitorPoll ==
  LET new  == {h \in Hashes : chain[h] = "pending" /\ h \notin mkeys}
      st   == [h \in Hashes |-> IF h \in new THEN now ELSE mstamp[h]]
      kept == (mkeys \cup new) \ Expired(mkeys \cup new, st, now)
  IN /\ mkeys' = kept
     /\ mstamp' = st
     /\ UNCHANGED <<now, chain, fresh, phase, fetching, keys, stamp, cut>>
\* (When get_pending_transactions raises, the iteration is logged and
\* skipped, which is a stuttering step.)

-----------------------------------------------------------------------------
(* MempoolManager.start_monitoring                                        *)

\* Mutant: the index removal runs before the deletion, so the
\* AttributeError aborts the pass before anything is removed.
CleanupRaiseFirst(t) ==
  LET old == SelectSeq(keys, LAMBDA k : stamp[k] < t - Threshold)
  IN /\ cut' = t - Threshold
     /\ phase' = IF old = <<>> THEN "poll" ELSE "sleep"
     /\ UNCHANGED <<keys, stamp>>

\* _cleanup_old_transactions at time t: the old hashes in insertion order;
\* _remove_transaction deletes the first from pending_txs, then raises
\* AttributeError at self._remove_from_indexes.  start_monitoring catches
\* it and sleeps.  A pass with no old hash completes and polls again.
Cleanup(t) ==
  LET old == SelectSeq(keys, LAMBDA k : stamp[k] < t - Threshold)
  IN /\ cut' = t - Threshold
     /\ IF old = <<>>
        THEN /\ phase' = "poll" /\ UNCHANGED <<keys, stamp>>
        ELSE /\ keys' = SelectSeq(keys, LAMBDA k : k # Head(old))
             /\ stamp' = [stamp EXCEPT ![Head(old)] = 0]
             /\ phase' = "sleep"

\* get_new_entries returned the hashes reported since the last poll; one
\* _process_transaction task per hash is gathered.  With none, gather
\* returns at once and the cleanup runs in the same step.
Poll ==
  /\ phase = "poll"
  /\ fresh' = {}
  /\ IF fresh = {}
     THEN /\ Cleanup(now) /\ UNCHANGED fetching
     ELSE /\ phase' = "gather" /\ fetching' = fresh
          /\ UNCHANGED <<keys, stamp, cut>>
  /\ UNCHANGED <<now, chain, mkeys, mstamp>>

\* get_new_entries raised: the exception is caught and the loop sleeps;
\* the filter still holds the hashes.
PollFails ==
  /\ phase = "poll" /\ RpcFailures
  /\ phase' = "sleep"
  /\ UNCHANGED <<now, chain, fresh, mkeys, mstamp, fetching, keys,
                 stamp, cut>>

\* Mutant: pending_txs kept as a list, appending a fetched hash again.
FetchReturnsAppend(h) ==
  /\ phase = "gather" /\ h \in fetching
  /\ fetching' = fetching \ {h}
  /\ IF chain[h] \in {"pending", "included"}
     THEN /\ keys' = Append(keys, h)
          /\ stamp' = [stamp EXCEPT ![h] = now]
     ELSE UNCHANGED <<keys, stamp>>
  /\ UNCHANGED <<now, chain, fresh, mkeys, mstamp, phase, cut>>

\* get_transaction(h) returned.  The node returns mined transactions too,
\* and None for a dropped one.  The entry is stored (a dict keeps the
\* position of an existing key) stamped with the time the task resumed.
FetchReturns(h) ==
  /\ phase = "gather" /\ h \in fetching
  /\ fetching' = fetching \ {h}
  /\ IF chain[h] \in {"pending", "included"}
     THEN /\ keys' = IF h \in ToSet(keys) THEN keys ELSE Append(keys, h)
          /\ stamp' = [stamp EXCEPT ![h] = now]
     ELSE UNCHANGED <<keys, stamp>>
  /\ UNCHANGED <<now, chain, fresh, mkeys, mstamp, phase, cut>>

\* get_transaction(h) raised: _process_transaction logs it; the hash is
\* never fetched again.
FetchFails(h) ==
  /\ phase = "gather" /\ h \in fetching /\ RpcFailures
  /\ fetching' = fetching \ {h}
  /\ UNCHANGED <<now, chain, fresh, mkeys, mstamp, phase, keys,
                 stamp, cut>>

\* Every gathered task has finished: the cleanup runs.
GatherDone ==
  /\ phase = "gather" /\ fetching = {}
  /\ Cleanup(now)
  /\ UNCHANGED <<now, chain, fresh, mkeys, mstamp, fetching>>

\* await asyncio.sleep(1) after a caught exception.
SleepDone ==
  /\ phase = "sleep"
  /\ phase' = "poll"
  /\ UNCHANGED <<now, chain, fresh, mkeys, mstamp, fetching, keys,
                 stamp, cut>>

-----------------------------------------------------------------------------

Next ==
  \/ \E h \in Hashes : Arrive(h) \/ Leave(h) \/ FetchReturns(h) \/ FetchFails(h)
  \/ Tick \/ MonitorPoll
  \/ Poll \/ PollFails \/ GatherDone \/ SleepDone

\* Both loops run for ever on the event loop, and every awaited node call
\* returns or raises (web3's HTTP provider has a request timeout).  The
\* node is not down for ever: a poll retried after every failure is
\* eventually answered (strong fairness, as failures disable it).
Fairness ==
  /\ WF_vars(MonitorPoll)
  /\ SF_vars(Poll) /\ WF_vars(GatherDone) /\ WF_vars(SleepDone)
  /\ \A h \in Hashes : WF_vars(FetchReturns(h) \/ FetchFails(h))

Spec == Init /\ [][Next]_vars /\ Fairness

-----------------------------------------------------------------------------

Stored == ToSet(keys)

TypeOK ==
  /\ now \in 0 .. MaxTime
  /\ chain \in [Hashes -> {"unseen", "pending", "included", "dropped"}]
  /\ fresh \subseteq Hashes /\ fetching \subseteq Hashes
  /\ mkeys \subseteq Hashes /\ mstamp \in [Hashes -> 0 .. MaxTime]
  /\ phase \in {"poll", "gather", "sleep"}
  /\ keys \in Seq(Hashes) /\ Len(keys) = Cardinality(Stored)
  /\ stamp \in [Hashes -> 0 .. MaxTime]
  /\ cut \in NoCut - Threshold .. MaxTime

\* TTL eviction (spec 4.2 evict_expired) in MempoolManager: a pass of _cleanup_old_transactions leaves
\* no stored transaction older than its threshold.
CleanupRemovesExpired ==
  \A h \in Stored : stamp[h] >= cut

\* Eviction happens eventually in MempoolManager: a stored transaction
\* older than tx_cleanup_threshold is eventually removed from pending_txs
\* (or restamped, when a rebroadcast is fetched again), although every
\* cleanup pass that removes one aborts with an exception.
ExpiredEventuallyEvicted ==
  \A h \in Hashes :
    (h \in Stored /\ stamp[h] < now - Threshold)
      ~> (h \notin Stored \/ stamp[h] >= now - Threshold)

=============================================================================
