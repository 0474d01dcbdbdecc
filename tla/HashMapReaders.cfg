SPECIFICATION Spec
CONSTANTS
    Readers = {t1, t2}
    Keys = {k1, k2}
    BUCKET = BUCKET
    NULL = NULL
INVARIANT BucketWhole
CHECK_DEADLOCK FALSE
