SPECIFICATION Spec
CONSTANTS
    c1 = c1
    c2 = c2
    d1 = d1
    d2 = d2
    r1 = r1
    r2 = r2
    r3 = r3
    f1 = f1
    f2 = f2
    f3 = f3
    m1 = m1
    x = x
    y = y
    Channels = {c1, c2}
    Dispatchers = {d1, d2}
    Recorders = {r1, r2, r3}
    Filters = {f1, f2, f3}
    RecorderId <- MCRecorderId
    FilterType <- MCFilterType
    Priority <- MCPriority
    Modules = {m1}
    Formats = {x, y}
    MaxRetries = 1
    NULL = NULL
SYMMETRY ObjectSymmetry
INVARIANTS
    OneOwner
    RunningIsComplete
    NothingLeftBehind
    FiltersInOrder
CHECK_DEADLOCK FALSE
