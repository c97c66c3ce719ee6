SPECIFICATION ReplaySpec
CONSTANTS
  replayWindowSize = 3
  MaxSeq = 6
  MaxWire = 4
  Ordered = FALSE
INVARIANTS
  DeliveredOnce
CHECK_DEADLOCK FALSE
