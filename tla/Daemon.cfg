SPECIFICATION Spec
CONSTANTS
    MaxLogins = 2
    Calls = {x1, x2}
INVARIANTS
    OneConnection
    DirectTunnelOwned
    StatusSettled
    ReleasedOnce
PROPERTIES
    NoVpnSignalAfterDelivering
    CancelFreesDaemon
    PortFreed
CHECK_DEADLOCK FALSE
