\* Two watched transactions, three constructions of the process, torn writes.
\* A behaviour ends with the process down once the constructions are used up.
CONSTANTS
  Hashes = {h1, h2}
  MaxBoots = 3
  Crashes = TRUE
  TornWrites = TRUE
  NoFile = NoFile
  Corrupt = Corrupt
  Restarts = FALSE
  EmailConfigured = TRUE
SPECIFICATION Spec
CHECK_DEADLOCK FALSE
INVARIANT TypeOK
PROPERTY ShutdownCompletes
