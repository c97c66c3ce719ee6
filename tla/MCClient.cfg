CONSTANTS
  Monitors = {m1, m2}
  SSO = TRUE
  PingExit = TRUE
  MaxReconnects = 2
  MaxLogins = 2
  MaxDisconnects = 1
  DisconnectAt = {"idle", "up", "closing", "leaving", "reauth", "reauthWait", "gone"}
  MaxChanges = 2
  MaxFaults = 1
  MaxSessions = 1
SPECIFICATION MCSpec
INVARIANTS
  DoneClosedOnce
  DoneMeansDown
  ExplicitDisconnectClears
  TransientFailureKeeps
  RejectedNotResubmitted
  OneReauthEvent
  NoRouteLeft
  ResolvConfHandedBack
  NoRoutingLoop
PROPERTIES
  ImplementsConnection
  DisconnectCompletes
  OnlyOwnRoutesRemoved
  LostRouteRestored
CHECK_DEADLOCK FALSE
