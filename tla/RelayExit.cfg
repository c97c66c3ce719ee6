SPECIFICATION Spec
CONSTANTS
    Requests = {r1}
    MaxConns = 1
    MaxSessions = 1
    MaxPushes = 2
    ChanSize = 2
    EndpointQuery = TRUE
    MaxPhase2 = 1
INVARIANTS
    ExitAfterCleanup
CHECK_DEADLOCK FALSE
