CONSTANTS
    n1 = n1
    n2 = n2
    k1 = k1
    k2 = k2
    r1 = r1
    r2 = r2
    r3 = r3
    d1 = d1
    d2 = d2
    c1 = c1
    Nodes <- TwoNodes
    BusyElsewhere = 2
    Keys <- TwoKeys
    Requests <- ThreeRequests
    NumIPs = 2
    MaxPeers = 2
    Disconnectors <- OneDisconnector
    Cleaners <- Nobody
    FromList = FALSE
    Faults <- OnlyOrphan
SPECIFICATION Spec
INVARIANTS TypeOK PeerInv ConfiguredHasRow
SYMMETRY Symmetry
CHECK_DEADLOCK FALSE
