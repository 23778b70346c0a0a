CONSTANTS
    n1 = n1
    n2 = n2
    r1 = r1
    d1 = d1
    d2 = d2
    c1 = c1
    u1 = u1
    stop = stop
    NodeIds <- Two
    Requests <- OneRequest
    NumSubnets = 1
    Destroyers <- Nobody
    Shutdown = stop
    Checkers <- Nobody
    Cleaners <- OneCleaner
    CleanupOnFailure = TRUE
    Faults <- EveryFault
SPECIFICATION Spec
INVARIANTS TrackerAgrees SubnetTableSound
PROPERTIES NoResurrection ImplementsTables
SYMMETRY NodeSymmetry
CHECK_DEADLOCK FALSE
