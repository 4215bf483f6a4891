\* Two hashes, so that two entries can age together;
\* thresholds of 1 s within a 2 s horizon.
CONSTANTS
  Hashes = {h1, h2}
  Threshold = 1
  TTL = 1
  MaxTime = 2
  RpcFailures = TRUE
SPECIFICATION Spec
INVARIANT TypeOK
PROPERTY ExpiredEventuallyEvicted
