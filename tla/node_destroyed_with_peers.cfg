CONSTANTS
    n1 = n1
    n2 = n2
    k1 = k1
    k2 = k2
    r1 = r1
    r2 = r2
    r3 = r3
    d1 = d1
    d2 = d2
    c1 = c1
    Nodes <- OneNode
    BusyElsewhere = 2
    Keys <- OneKey
    Requests <- TwoRequests
    NumIPs = 1
    MaxPeers = 2
    Disconnectors <- Nobody
    Cleaners <- Nobody
    FromList = FALSE
    Faults <- OnlyOrphan
SPECIFICATION Spec
PROPERTY DestroyedHaveNoPeers
CHECK_DEADLOCK FALSE
