CONSTANTS
    n1 = n1
    n2 = n2
    r1 = r1
    d1 = d1
    d2 = d2
    c1 = c1
    u1 = u1
    stop = stop
    NodeIds <- Two
    Requests <- OneRequest
    NumSubnets = 1
    Destroyers <- OneDestroyer
    Shutdown = stop
    Checkers <- OneChecker
    Cleaners <- Nobody
    CleanupOnFailure = TRUE
    Faults <- SlowCloud
SPECIFICATION FairSpec
PROPERTIES AttemptsEnd DestroyingIsDeleted
CHECK_DEADLOCK FALSE
