SPECIFICATION FairSpec
CONSTANTS
    p1 = p1
    p2 = p2
    r1 = r1
    r2 = r2
    r3 = r3
    Producers <- MCProducers
    Recorders <- MCRecorders
    Route <- MCRoute
    MaxItems = 2
    MaxTargets = 2
    NULL = NULL
    Garbage = Garbage
INVARIANTS
    CtxTypeOK
    BarrierHolds
    NothingGoneInUse
    NothingAcceptedIsLost
PROPERTIES
    UsesDispatcherProperly
    BarrierReached
    AcceptedGetsRecorded
