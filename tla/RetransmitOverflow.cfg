SPECIFICATION Spec
CONSTANTS
  RetransmitTimeout = 2
  Cap = 30
  Width = 10
  MaxRetries = 9
PROPERTIES
  SpacedOut
CHECK_DEADLOCK FALSE
