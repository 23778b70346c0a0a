CONSTANTS
    n1 = n1
    n2 = n2
    k1 = k1
    k2 = k2
    r1 = r1
    r2 = r2
    r3 = r3
    d1 = d1
    d2 = d2
    c1 = c1
    Nodes <- OneNode
    BusyElsewhere = 2
    Keys <- TwoKeys
    Requests <- TwoRequests
    NumIPs = 2
    MaxPeers = 2
    Disconnectors <- OneDisconnector
    Cleaners <- Nobody
    FromList = FALSE
    Faults <- Remote
SPECIFICATION FairSpec
INVARIANTS ConnectionInv ConnectedIsConfigured FailedLeavesNoRow TrackerAgrees
PROPERTY RequestsAnswered
CHECK_DEADLOCK FALSE
