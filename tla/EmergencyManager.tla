--------------------------- MODULE EmergencyManager ---------------------------
(***************************************************************************)
(* Incident handling and the emergency procedure, across crashes:          *)
(*  - SafetyCoordinator.record_incident / _update_risk_level               *)
(*    (src/mevbot/core/safety/coordinator.py), and the coordinator's start *)
(*    and stop with its _monitor_safety task;                              *)
(*  - EmergencyManager (src/mevbot/core/safety/emergency_manager.py):      *)
(*    trigger_shutdown and its concurrent sub-tasks, the state file, its   *)
(*    reload at construction, and the two background tasks.                *)
(*                                                                         *)
(* The process may crash at any point (memory is lost, the file stays) and *)
(* is constructed again, which reloads the file.  `pending_transactions`   *)
(* is a public set that callers fill with the hashes to watch (Track).     *)
(* Notifications and _unwind_positions change no state and are left out.   *)
(***************************************************************************)
EXTENDS Naturals, FiniteSets

CONSTANTS
  Hashes,     \* transaction hashes (model values)
  MaxBoots,   \* bound: constructions of the process
  Crashes,    \* whether the process may die at any point (kill, power loss)
  TornWrites, \* whether a crash can interrupt the non-atomic file write
  NoFile,     \* no state file on disk
  Corrupt,    \* a truncated state file (json.load raises)
  Restarts,   \* whether the coordinator is started again after a stop
  EmailConfigured \* smtp_server and emergency_contacts are configured

Levels == {"INFO", "WARNING", "CRITICAL", "FATAL"}
Weight == [l \in Levels |-> CASE l = "INFO" -> 1 [] l = "WARNING" -> 2
                              [] l = "CRITICAL" -> 3 [] l = "FATAL" -> 4]

VARIABLES
  up,         \* the process is running
  boots,      \* constructions so far
  shutdown,   \* self.shutdown_triggered
  recovery,   \* self.recovery_mode
  pending,    \* self.pending_transactions
  cancelled,  \* self.cancelled_transactions
  file,       \* the state file: a record, NoFile or Corrupt
  proc,       \* trigger_shutdown in progress: [phase, todo, level]
  mon,        \* _monitor_pending_transactions: [phase, todo] of its pass
  risk,       \* coordinator metrics.current_risk_level
  chain,      \* per hash: "none", "pool", "mined", "replaced", "dropped"
  persisted,  \* history: the file has recorded shutdown_triggered = True
  bootAfter,  \* history: the last construction came after such a record
  coord,      \* coordinator tasks: "new" (constructed), "running", "stopped"
  emTasks,    \* the emergency manager's two background tasks are alive
  mail        \* the e-mail alert task: "idle" or "sending"

vars == <<up, boots, shutdown, recovery, pending, cancelled, file, proc,
          mon, risk, chain, persisted, bootAfter, coord, emTasks, mail>>

StateRecord == [shutdown : BOOLEAN, pending : SUBSET Hashes,
                cancelled : SUBSET Hashes]
Idle == [phase |-> "idle", todo |-> {}, level |-> "INFO"]
Asleep == [phase |-> "sleep", todo |-> {}]

\* _preserve_system_state: the in-memory state as written to the file.
Snapshot(sd, p, c) == [shutdown |-> sd, pending |-> p, cancelled |-> c]

\* _load_state: a missing or unreadable file leaves the defaults.
Loaded(f) == IF f \in StateRecord THEN f
             ELSE Snapshot(FALSE, {}, {})

\* Mutant: the incident level itself is stored as the risk level.
RiskOfLevel(l) == l

\* _update_risk_level: the level of the latest incident alone.
RiskOf(l) == IF Weight[l] >= 3 THEN "HIGH"
             ELSE IF Weight[l] = 2 THEN "MEDIUM" ELSE "LOW"

\* _notify_emergency_contacts gathers one task per configured channel.
\* The Discord and Telegram alerts raise NameError at once (aiohttp is not
\* imported) and are logged; the e-mail alert is a coroutine without an
\* await around smtplib, so once it starts it blocks the event loop until
\* the SMTP exchange ends (or fails, which is logged).  The inner gather
\* suspends the notify task, so the e-mail task runs after the other
\* shutdown sub-tasks reached their first await.
Alert == IF EmailConfigured THEN "sending" ELSE "idle"

\* A step of the process: it is up and its event loop is not blocked.
Running == up /\ mail = "idle"

Init ==
  /\ up = FALSE /\ boots = 0
  /\ shutdown = FALSE /\ recovery = FALSE
  /\ pending = {} /\ cancelled = {}
  /\ file = NoFile
  /\ proc = Idle
  /\ mon = Asleep
  /\ risk = "LOW"
  /\ chain = [h \in Hashes |-> "none"]
  /\ persisted = FALSE
  /\ bootAfter = FALSE
  /\ coord = "new" /\ emTasks = FALSE
  /\ mail = "idle"

\* EmergencyManager.__init__ (inside SafetyCoordinator.__init__): defaults,
\* _load_state, and the background tasks, whose first backup runs at once.
Boot ==
  LET st == Loaded(file)
  IN /\ ~up /\ boots < MaxBoots
     /\ up' = TRUE /\ boots' = boots + 1
     /\ shutdown' = FALSE
     /\ recovery' = (file \in StateRecord /\ file.shutdown)
     /\ pending' = st.pending /\ cancelled' = st.cancelled
     /\ proc' = Idle /\ mon' = Asleep /\ risk' = "LOW"
     /\ bootAfter' = persisted
     /\ coord' = "new" /\ emTasks' = TRUE /\ mail' = "idle"
     /\ UNCHANGED <<file, chain, persisted>>

\* The process dies; memory is lost.  A crash during a file write leaves
\* a truncated file when TornWrites holds.
Crash ==
  /\ up /\ Crashes
  /\ up' = FALSE
  /\ shutdown' = FALSE /\ recovery' = FALSE
  /\ pending' = {} /\ cancelled' = {} /\ proc' = Idle /\ mon' = Asleep
  /\ risk' = "LOW" /\ coord' = "new" /\ emTasks' = FALSE /\ mail' = "idle"
  /\ \/ UNCHANGED file
     \/ TornWrites /\ file' = Corrupt
  /\ UNCHANGED <<boots, chain, persisted, bootAfter>>

\* A caller adds the hash of a transaction it sent to pending_transactions.
Track(h) ==
  /\ Running /\ chain[h] = "none"
  /\ chain' = [chain EXCEPT ![h] = "pool"]
  /\ pending' = pending \cup {h}
  /\ UNCHANGED <<mon, up, boots, shutdown, recovery, cancelled, file, proc, risk,
                 persisted, bootAfter, coord, emTasks, mail>>

\* trigger_shutdown: returns at once if already triggered.  Otherwise it
\* sets the flag and suspends in asyncio.gather, which has scheduled its
\* four sub-tasks; tasks that were ready before them run first.
TriggerShutdown(l) ==
  IF shutdown THEN UNCHANGED <<shutdown, proc>>
  ELSE /\ shutdown' = TRUE
       /\ proc' = [phase |-> "gather", todo |-> {}, level |-> l]

\* record_incident: the risk level follows this incident; CRITICAL and
\* FATAL incidents call trigger_shutdown.
RecordIncident(l) ==
  /\ Running
  /\ risk' = RiskOf(l)
  /\ IF Weight[l] >= 3 THEN TriggerShutdown(l)
     ELSE UNCHANGED <<shutdown, proc>>
  /\ UNCHANGED <<up, boots, recovery, pending, cancelled, file, mon, chain,
                 persisted, bootAfter, coord, emTasks, mail>>

\* The gathered sub-tasks run in list order up to their first suspension:
\* the notify task starts the e-mail alert task and waits for it;
\* _unwind_positions ends; _cancel_pending_transactions copies the set and
\* awaits the first lookup; _preserve_system_state never suspends and
\* writes the file.  The e-mail task, scheduled last, runs next.
GatherStart ==
  /\ Running /\ proc.phase = "gather"
  /\ proc' = [proc EXCEPT !.phase = "cancel", !.todo = pending]
  /\ file' = Snapshot(shutdown, pending, cancelled)
  /\ persisted' = TRUE
  /\ mail' = Alert
  /\ UNCHANGED <<up, boots, shutdown, recovery, pending, cancelled, mon, risk,
                 chain, bootAfter, coord, emTasks>>

\* Mutant: a hash stays in the work list until its cancellation is sent.
CancelStepRetry(h, sendOk) ==
  /\ Running /\ proc.phase = "cancel" /\ h \in proc.todo
  /\ IF chain[h] = "pool" /\ sendOk
     THEN /\ proc' = [proc EXCEPT !.todo = @ \ {h}]
          /\ chain' = [chain EXCEPT ![h] = "replaced"]
          /\ cancelled' = cancelled \cup {h}
          /\ pending' = pending \ {h}
     ELSE UNCHANGED <<proc, chain, cancelled, pending>>
  /\ UNCHANGED <<mon, up, boots, shutdown, recovery, file, risk, persisted, bootAfter,
                 coord, emTasks, mail>>

\* One iteration of _cancel_pending_transactions: the node still has the
\* transaction (get_transaction) and a self-payment with its nonce at 150%
\* gas replaces it, unless sending fails; a mined one makes the send fail;
\* an unknown one is skipped.  The hash moves from pending to cancelled
\* (remove raises, after the add, if the monitor removed it meanwhile).
CancelStep(h, sendOk) ==
  /\ Running /\ proc.phase = "cancel" /\ h \in proc.todo
  /\ proc' = [proc EXCEPT !.todo = @ \ {h}]
  /\ IF chain[h] = "pool" /\ sendOk
     THEN /\ chain' = [chain EXCEPT ![h] = "replaced"]
          /\ cancelled' = cancelled \cup {h}
          /\ pending' = pending \ {h}
     ELSE UNCHANGED <<chain, cancelled, pending>>
  /\ UNCHANGED <<mon, up, boots, shutdown, recovery, file, risk, persisted, bootAfter,
                 coord, emTasks, mail>>

\* The gather returns; at FATAL level the process calls os._exit(1).
ShutdownDone ==
  /\ Running /\ proc.phase = "cancel" /\ proc.todo = {}
  /\ IF proc.level = "FATAL"
     THEN /\ up' = FALSE
          /\ shutdown' = FALSE /\ recovery' = FALSE
          /\ pending' = {} /\ cancelled' = {}
          /\ risk' = "LOW" /\ coord' = "new" /\ emTasks' = FALSE
          /\ mon' = Asleep
     ELSE UNCHANGED <<up, shutdown, recovery, pending, cancelled, risk, coord,
                      emTasks, mon>>
  /\ proc' = Idle
  /\ UNCHANGED <<boots, file, chain, persisted, bootAfter, mail>>

\* _send_email_alert returns: the SMTP exchange ended or raised.
EmailDone ==
  /\ up /\ mail = "sending"
  /\ mail' = "idle"
  /\ UNCHANGED <<mon, up, boots, shutdown, recovery, pending, cancelled, file, proc,
                 risk, chain, persisted, bootAfter, coord, emTasks>>

\* _monitor_pending_transactions starts a pass over a copy of the set.
MonitorWake ==
  /\ Running /\ emTasks /\ mon.phase = "sleep"
  /\ mon' = [phase |-> "scan", todo |-> pending]
  /\ UNCHANGED <<up, boots, shutdown, recovery, pending, cancelled, file, proc,
                 risk, chain, persisted, bootAfter, coord, emTasks, mail>>

\* The pass visited every hash of its copy and sleeps for a second.
MonitorPassEnd ==
  /\ Running /\ emTasks /\ mon.phase = "scan" /\ mon.todo = {}
  /\ mon' = Asleep
  /\ UNCHANGED <<up, boots, shutdown, recovery, pending, cancelled, file, proc,
                 risk, chain, persisted, bootAfter, coord, emTasks, mail>>

\* One get_transaction_receipt of the pass, in the set's iteration order.
\* A mined hash is removed.  One try encloses the whole pass: a hash
\* without a receipt (web3 raises TransactionNotFound for a pending,
\* dropped or replaced transaction), or a remove of a hash the cancel task
\* removed meanwhile (KeyError), ends the pass, which sleeps for 5 s.
MonitorPoll(h) ==
  /\ Running /\ emTasks /\ mon.phase = "scan" /\ h \in mon.todo
  /\ IF chain[h] = "mined" /\ h \in pending
     THEN /\ pending' = pending \ {h}
          /\ mon' = [mon EXCEPT !.todo = @ \ {h}]
     ELSE /\ mon' = Asleep
          /\ UNCHANGED pending
  /\ UNCHANGED <<up, boots, shutdown, recovery, cancelled, file, proc, risk,
                 chain, persisted, bootAfter, coord, emTasks, mail>>

\* _periodic_state_backup: every 300 s, and once right after construction.
Backup ==
  /\ Running /\ emTasks
  /\ file' = Snapshot(shutdown, pending, cancelled)
  /\ persisted' = (persisted \/ shutdown)
  /\ UNCHANGED <<mon, up, boots, shutdown, recovery, pending, cancelled, proc, risk,
                 chain, bootAfter, coord, emTasks, mail>>

\* SafetyCoordinator.start: creates the _monitor_safety and _update_metrics
\* tasks, then _initialize_emergency_system, whose recovery branch
\* (_handle_recovery) does nothing.  The emergency manager's own tasks are
\* not created again: only its constructor creates them.
CoordinatorStart ==
  /\ Running
  /\ coord = "new" \/ (Restarts /\ coord = "stopped")
  /\ coord' = "running"
  /\ UNCHANGED <<mon, up, boots, shutdown, recovery, pending, cancelled, file, proc,
                 risk, chain, persisted, bootAfter, emTasks, mail>>

\* EmergencyManager.cleanup: cancels the background tasks and awaits them.
EMCleanup == emTasks' = FALSE /\ mon' = Asleep

\* SafetyCoordinator.stop: cancels its two tasks, then awaits
\* emergency_manager.cleanup().
CoordinatorStop ==
  /\ Running /\ coord = "running"
  /\ coord' = "stopped" /\ EMCleanup
  /\ UNCHANGED <<up, boots, shutdown, recovery, pending, cancelled, file, proc,
                 risk, chain, persisted, bootAfter, mail>>

\* _check_system_resources: CPU, memory and disk each at most 90%; psutil
\* errors count as a failure.  The machine's load is the environment's.
SystemResourcesOutcomes == BOOLEAN

\* _check_network_conditions compares eth.gas_price with max_gas_price_gwei
\* and awaits eth.get_block('latest').  With the synchronous Web3 the await
\* raises TypeError; with an AsyncWeb3, gas_price is a coroutine and the
\* comparison raises.  The exception is caught and False returned.
NetworkConditionsOk == FALSE

\* One iteration of _monitor_safety: each failed check records a WARNING
\* incident (record_incident, which sets the risk level to MEDIUM).
MonitorSafety(resOk) ==
  /\ Running /\ coord = "running"
  /\ risk' = IF resOk /\ NetworkConditionsOk THEN risk ELSE RiskOf("WARNING")
  /\ UNCHANGED <<mon, up, boots, shutdown, recovery, pending, cancelled, file, proc,
                 chain, persisted, bootAfter, coord, emTasks, mail>>

Mine(h) ==
  /\ chain[h] = "pool"
  /\ chain' = [chain EXCEPT ![h] = "mined"]
  /\ UNCHANGED <<mon, up, boots, shutdown, recovery, pending, cancelled, file, proc,
                 risk, persisted, bootAfter, coord, emTasks, mail>>

Drop(h) ==
  /\ chain[h] = "pool"
  /\ chain' = [chain EXCEPT ![h] = "dropped"]
  /\ UNCHANGED <<mon, up, boots, shutdown, recovery, pending, cancelled, file, proc,
                 risk, persisted, bootAfter, coord, emTasks, mail>>

Next ==
  \/ Boot \/ Crash \/ Backup \/ GatherStart \/ ShutdownDone \/ EmailDone
  \/ MonitorWake \/ MonitorPassEnd
  \/ CoordinatorStart \/ CoordinatorStop
  \/ \E ok \in SystemResourcesOutcomes : MonitorSafety(ok)
  \/ \E l \in Levels : RecordIncident(l)
  \/ \E h \in Hashes : \/ Track(h) \/ MonitorPoll(h) \/ Mine(h) \/ Drop(h)
                       \/ \E ok \in BOOLEAN : CancelStep(h, ok)

\* The monitor task loops while the process runs; every awaited node call
\* and the SMTP exchange end (web3's HTTP provider has a request timeout;
\* smtplib has none, which the README discusses); the event loop runs the
\* gathered sub-tasks once scheduled, and the caller of trigger_shutdown
\* resumes once the gather returned.  The order in which a pass visits the
\* hashes is not constrained.
Fairness ==
  /\ \A h \in Hashes : WF_vars(\E ok \in BOOLEAN : CancelStep(h, ok))
  /\ WF_vars(\E h \in Hashes : MonitorPoll(h))
  /\ WF_vars(MonitorWake) /\ WF_vars(MonitorPassEnd)
  /\ WF_vars(GatherStart) /\ WF_vars(EmailDone) /\ WF_vars(ShutdownDone)

Spec == Init /\ [][Next]_vars /\ Fairness

-----------------------------------------------------------------------------
(* Properties                                                              *)

TypeOK ==
  /\ up \in BOOLEAN /\ boots \in 0 .. MaxBoots
  /\ shutdown \in BOOLEAN /\ recovery \in BOOLEAN
  /\ pending \subseteq Hashes /\ cancelled \subseteq Hashes
  /\ file \in StateRecord \cup {NoFile, Corrupt}
  /\ proc \in [phase : {"idle", "gather", "cancel"}, todo : SUBSET Hashes,
               level : Levels]
  /\ mon \in [phase : {"sleep", "scan"}, todo : SUBSET Hashes]
  /\ risk \in {"LOW", "MEDIUM", "HIGH"}
  /\ chain \in [Hashes -> {"none", "pool", "mined", "replaced", "dropped"}]
  /\ persisted \in BOOLEAN /\ bootAfter \in BOOLEAN
  /\ coord \in {"new", "running", "stopped"} /\ emTasks \in BOOLEAN
  /\ mail \in {"idle", "sending"}

\* Watching ends while the safety system runs: a tracked hash whose
\* transaction was mined is eventually no longer in pending_transactions
\* (also when it was reloaded from the file after a crash), unless the
\* coordinator stops first.
MinedTxsLeavePending ==
  \A h \in Hashes :
    (h \in pending /\ chain[h] = "mined" /\ coord = "running")
      ~> (h \notin pending \/ coord # "running")

\* The emergency procedure terminates: once trigger_shutdown has set the
\* flag, its gather eventually returns (or the process dies), whatever the
\* node answers to each cancellation and although the e-mail alert blocks
\* the event loop meanwhile.
ShutdownCompletes ==
  proc.phase # "idle" ~> proc.phase = "idle"

\* Recovery mode (spec 4.8, S5): once the state file recorded a shutdown,
\* every later start is in recovery mode (nothing in the code clears it).
RecoveryPersists ==
  up /\ bootAfter => recovery

=============================================================================
