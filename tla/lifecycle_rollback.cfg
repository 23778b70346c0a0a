CONSTANTS
    n1 = n1
    n2 = n2
    r1 = r1
    d1 = d1
    d2 = d2
    c1 = c1
    u1 = u1
    stop = stop
    NodeIds <- Two
    Requests <- OneRequest
    NumSubnets = 2
    Destroyers <- TwoDestroyers
    Shutdown = stop
    Checkers <- OneChecker
    Cleaners <- Nobody
    CleanupOnFailure = TRUE
    Faults <- RolledBack
SPECIFICATION Spec
INVARIANTS TypeOK LifecycleInv ServersDisjoint FailedLeavesNothing
SYMMETRY NodeSymmetry
CHECK_DEADLOCK FALSE
