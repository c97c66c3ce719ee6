SPECIFICATION MCSpec
CONSTANTS
    r1 = r1
    r2 = r2
    Requests = {r1, r2}
    MaxConns = 2
    MaxSessions = 1
    MaxPushes = 2
    ChanSize = 1
    EndpointQuery = TRUE
    MaxPhase2 = 2
INVARIANTS
    LatestOwnsRecord
PROPERTIES
    ImplementsMailbox
    ReleaseStopsAgent
    WriteErrorUnregisters
CHECK_DEADLOCK FALSE
