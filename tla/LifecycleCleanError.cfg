CONSTANTS
  Monitors = {m1}
  SSO = TRUE
  PingExit = FALSE
  MaxReconnects = 1
  MaxLogins = 1
  MaxDisconnects = 0
  DisconnectAt = {}
SPECIFICATION FairSpec
PROPERTY
  CleanDisconnectIsNil
CHECK_DEADLOCK FALSE
