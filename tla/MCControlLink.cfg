CONSTANTS
  WindowSize = 3
  First = 1
  MaxID = 5
  Directions <- BothDirections
  BufSize = 1
  ChunkLen = 2
  SegLen = 1
  MaxChunks = 2
SPECIFICATION ControlSpec
INVARIANTS
  LinkInvariant
  AckedIsHeld
PROPERTIES
  ImplementsOrderedDelivery
  ImplementsByteStreams
  EventuallyDelivered
  EventuallyDrained
  ClosedSocketEndsAll
CHECK_DEADLOCK FALSE
