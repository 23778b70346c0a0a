CONSTANTS
    AddressBits = 6
    BaseNetwork = 32
    BaseMask = 1
    SubnetMask = 3
    Nodes <- AllNodes
    Active <- ActiveNodes
    Peers <- AllPeers
    Home <- AtHome
    Offset <- AtOffset
    Cycles = {"c1"}
    Cleaners = {"k1"}
    Migrations = {"m1", "m2"}
    Route <- Routes
    Disconnects = {"d1"}
    Syncs = {"s1"}
    Callers = {"m1", "m2", "d1", "s1"}
    SyncNode = 1
    Strays = {"p1", "p2", "p3"}
    Scenes <- AllScenes
    Faults = {"ssh", "lost", "db"}
    MaxFaults = 2
    MaxPeers = 2
    MaxRequests = 1
SPECIFICATION Spec
INVARIANT TypeOK
INVARIANT AddressSpaceSound
INVARIANT MigrationSound
INVARIANT InterfaceSound
PROPERTY CallsReturn
CONSTRAINT Few
CHECK_DEADLOCK FALSE
