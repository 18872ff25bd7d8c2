SPECIFICATION Spec
CONSTANTS
    Workers = {w1, w2}
    PersistentIDs = {p0}
    MaxFailures = 1
    MayExit = FALSE
    NONE = NONE
    w1 = w1
    w2 = w2
    p0 = p0
CHECK_DEADLOCK FALSE
SYMMETRY Perms
INVARIANT MasterSurvives
