\* The queue with 2 producers, 3 items each, 5 addresses: memory safety, the
\* inductive invariant of the proofs, and the refinement of the FIFO channel.
SPECIFICATION Spec
CONSTANTS
    Producers = {p1, p2}
    MaxItems = 3
    Nodes = {n1, n2, n3, n4, n5}
    NULL = NULL
SYMMETRY NodeSymmetry
INVARIANTS
    NodeLifetimes
    CloseDropsNothing
    QueueInv
PROPERTY ImplementsChannel
