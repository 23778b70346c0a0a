SPECIFICATION Spec
CONSTANTS
    None = None
    h1 = h1
    w1 = w1
    w2 = w2
    Hosts = {h1}
    Workers = {w1, w2}
    Monitors = {w1}
    Cleaner = Cleaner
    Clients = {1, 2, 3}
    RetryAttempts = 2
    FailureThreshold = 2
    HealthCommands <- MCHealthCommands
INVARIANTS TypeOK PoolSound ClosedBelowThreshold
PROPERTIES OpenAdmitsNone CallsEnd
CHECK_DEADLOCK TRUE
