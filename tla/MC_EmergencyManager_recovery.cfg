\* No torn writes: the property fails on the code's normal path.
\* A behaviour ends with the process down once the constructions are used up.
CONSTANTS
  Hashes = {h1, h2}
  MaxBoots = 3
  Crashes = TRUE
  TornWrites = FALSE
  NoFile = NoFile
  Corrupt = Corrupt
  Restarts = FALSE
  EmailConfigured = TRUE
SPECIFICATION Spec
CHECK_DEADLOCK FALSE
INVARIANT RecoveryPersists
