CONSTANTS
    NumProcs = 2
    Ids <- AllIds
    Plans <- SomePlans
    Attempts = 2
    MaxPolls = 2
    Faults = {"lost", "hang", "wg", "kill", "restart"}
SPECIFICATION Spec
INVARIANT TypeOK
INVARIANT TunnelSound
INVARIANT CleanExit
PROPERTY CommandsEnd
CHECK_DEADLOCK FALSE
