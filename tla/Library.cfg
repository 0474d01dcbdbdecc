SPECIFICATION Spec
CONSTANTS
    i1 = i1  i2 = i2  n1 = n1  n2 = n2
    r1 = r1  r2 = r2  r3 = r3  t1 = t1  t2 = t2
    k1 = k1  k2 = k2  k3 = k3  v1 = v1  v2 = v2
    NULL = NULL
    Nodes = {n1, n2}
    Items = {i1, i2}
    Recorders = {r1, r2}
    Routes <- MCRoutes
    MaxLogs = 2
    ErrThreads = {t1, t2}
    MaxErrors = 2
    MaxPuts = 4
    MaxClears = 2
    SplitType = "NUMBER"
    SplitLimit = 2
    MaxItems = 3
    MaxFiles = 4
    MaxCrashes = 1
    TORN = TORN
    NameLength <- MCNameLength
    Cwd <- MCCwd
    MaxSegments = 4
    Sizes = {2, 4, 6, 9}
    MaxTemplate = 6
    ValueSizes = {1, 3}
    BufferSizes = {2, 4}
    Numbers = {0, 1, 7, 9, 10, 31, 59, 99, 100, 365, 999, 1000, 1970, 9999, 123456, 999999, 99999999, 999999999}
    MaxTid = 2147483647
    Years = {1970, 1972, 1999, 2000, 2001, 2024, 2100, 2101}
    Minutes = {0}
    Lines <- MCLines
    Begins <- MCBegins
    MaxLines = 4
    Process = "p"
    MaxRecorders = 2
    UintRange = 16
    Radices = {2, 10, 16}
    MaxMarks = 6
    MaxDigits = 4
    Keys = {k1, k2, k3}
    Values = {v1, v2}
    Hash <- MCHash
    InitBuckets = 1
    EbrThreads = {t1, t2}
    Late = {t2}
    MaxObjects = 3
    Rounds = 2
    Polls = 3
    Users = {t1, t2}
    MaxNodes = 4
    MaxReads = 2
    EMPTY = 0
SYMMETRY ValueSymmetry
CHECK_DEADLOCK FALSE
INVARIANTS
    DirectDispatches
    ErrorsKeptApart
    LogsInOrder
    RestartContinues
    PathsNormalized
    ConfigFound
    LineRead
    FormatRendered
    FieldsRendered
    OwnsItsCopies
    IterationComplete
    GracePeriod
    RetiredFreedOnce
    NodesRetiredOnce
PROPERTIES
    ImplementsMap
    ImplementsFifo
