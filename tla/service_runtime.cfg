SPECIFICATION Spec
CONSTANTS
    c1 = c1
    p1 = p1
    NoOne = NoOne
    NoId = NoId
    Requests = {c1, p1}
    KindOf <- MCKindOf
    rotation = rotation
    CheckKinds = {rotation}
    MaxChecks = 2
    MaxSignals = 1
INVARIANTS TypeOK StopIsSafe TrackersSound
PROPERTIES StopWaitsItOut SignalEndsProcess
CHECK_DEADLOCK TRUE
