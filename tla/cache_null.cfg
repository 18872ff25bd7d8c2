SPECIFICATION Spec
CONSTANTS
    Calls = {c1, c2, c3}
    Keys = {k1, k2}
    nMaxEntries = 1
    Duration = 2
    FreezesStored = FALSE
    MayRemove = FALSE
    MaxConcurrent = 3
    MaxTime = 2
    NULL = NULL
    UNDEFINED = UNDEFINED
    NONE = NONE
    c1 = c1
    c2 = c2
    c3 = c3
    k1 = k1
    k2 = k2
CHECK_DEADLOCK FALSE
SYMMETRY Perms
INVARIANT HitIsPopulated
