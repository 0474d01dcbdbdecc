SPECIFICATION Spec
CONSTANTS
    p1 = p1
    p2 = p2
    r1 = r1
    r2 = r2
    r3 = r3
    Producers <- MCProducers
    Recorders <- MCRecorders
    Route <- MCRoute
    MaxItems = 2
    MaxTargets = 2
    NULL = NULL
    Garbage = Garbage
INVARIANT NoCallOutlivesContext
