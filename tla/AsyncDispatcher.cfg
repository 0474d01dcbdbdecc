SPECIFICATION FairDispSpec
CONSTANTS
    p1 = p1
    p2 = p2
    r1 = r1
    r2 = r2
    r3 = r3
    Producers <- MCProducers
    Recorders <- MCRecorders
    Route <- MCRoute
    MaxItems = 2
    MaxTargets = 3
    NULL = NULL
    Garbage = Garbage
INVARIANTS
    BlockUsedInItsLife
    ExitsDrained
    RecordedAsRouted
PROPERTIES
    WrittenIsTaken
    CloseWaitsForWorker
