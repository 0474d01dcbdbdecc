SPECIFICATION Spec
CONSTANTS
    t1 = t1
    t2 = t2
    t3 = t3
    b1 = b1
    b2 = b2
    b3 = b3
    b4 = b4
    b5 = b5
    Acquirers <- TwoThreads
    Releasers <- TwoThreads
    Bufs <- ThreeBufs
    InitCapacity = 2
    Threshold = 50
    Word = 1024
    NULL = NULL
SYMMETRY BufSymmetry
INVARIANT UniqueHandout
