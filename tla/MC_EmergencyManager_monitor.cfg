\* One construction, no crash: a transaction the node dropped stays in
\* pending_transactions and, when the pass visits it first, keeps every
\* pass from reaching a mined one.  The process stops only by a FATAL exit.
CONSTANTS
  Hashes = {h1, h2}
  MaxBoots = 1
  Crashes = FALSE
  TornWrites = FALSE
  NoFile = NoFile
  Corrupt = Corrupt
  Restarts = FALSE
  EmailConfigured = FALSE
SPECIFICATION Spec
CHECK_DEADLOCK FALSE
PROPERTY MinedTxsLeavePending
