CONSTANTS
  KeyIDs = 3
  MaxAttempts = 4
  MaxFailures = 2
  MaxConnections = 1
  LossyAttempts = 1
  replayWindowSize = 3
  MaxSeq = 1
  MaxWire = 1
  Ordered = TRUE
SPECIFICATION MCSpec
INVARIANT
  BothKeyIDsAccepted
CHECK_DEADLOCK FALSE
