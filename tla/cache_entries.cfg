SPECIFICATION Spec
CONSTANTS
    Calls = {c1, c2, c3, c4}
    Keys = {k1, k2, k3}
    nMaxEntries = 1
    Duration = 1
    FreezesStored = TRUE
    MayRemove = TRUE
    MaxConcurrent = 2
    MaxTime = 2
    NULL = NULL
    UNDEFINED = UNDEFINED
    NONE = NONE
    c1 = c1
    c2 = c2
    c3 = c3
    c4 = c4
    k1 = k1
    k2 = k2
    k3 = k3
CHECK_DEADLOCK FALSE
SYMMETRY Perms
INVARIANTS TypeOK NotExpiredBeforeCall OvershootBounded Genuine
