CONSTANTS
  KeyIDs = 3
  MaxAttempts = 4
  MaxFailures = 1
  MaxConnections = 2
  LossyAttempts = 1
  replayWindowSize = 3
  MaxSeq = 8
  MaxWire = 4
  Ordered = TRUE
SPECIFICATION MCFairSpec
INVARIANTS
  SelectsRightEpoch
  PreparedHasTimer
  SendKeyActiveAtServer
  ControlSessionReachable
  DeliveredOnce
PROPERTIES
  ImplementsKeyHandover
  LossyRekeyTakesEffect
CHECK_DEADLOCK FALSE
