CONSTANTS
  Monitors = {m1}
  SSO = TRUE
  PingExit = FALSE
  MaxReconnects = 1
  MaxLogins = 1
  MaxDisconnects = 1
  DisconnectAt = {"dial1", "phase1", "saml", "phase2", "dial2", "exchange2", "tun", "mark", "start", "up"}
SPECIFICATION Spec
INVARIANT
  DoneClosedOnce
CHECK_DEADLOCK FALSE
