SPECIFICATION HostSpec
CONSTANTS
    MaxChanges = 1
    MaxFaults = 0
    MaxSessions = 1
PROPERTY
    LaterChangesPreserved
CHECK_DEADLOCK FALSE
