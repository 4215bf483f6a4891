\* Two ids, two passwords and two private keys, so that an operation on one
\* id can disturb the other and an overwrite changes the password.  Crashes
\* between operations and inside a file write (torn writes).  A
\* behaviour ends with the process down once the constructions are used up.
CONSTANTS
  k1 = k1
  k2 = k2
  p1 = p1
  p2 = p2
  v1 = v1
  v2 = v2
  KeyIds <- MCKeyIds
  Passwords <- MCPasswords
  Values <- MCValues
  Invalid = Invalid
  MaxBoots = 3
  Crashes = TRUE
  TornWrites = TRUE
  NoFile = NoFile
  Empty = Empty
SPECIFICATION Spec
CHECK_DEADLOCK FALSE
INVARIANT TypeOK
