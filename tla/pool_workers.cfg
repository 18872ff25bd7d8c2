SPECIFICATION FairSpec
CONSTANTS
    Workers = {w1, w2, w3, w4}
    PersistentIDs = {p0, p1}
    MaxFailures = 2
    MayExit = TRUE
    NONE = NONE
    w1 = w1
    w2 = w2
    w3 = w3
    w4 = w4
    p0 = p0
    p1 = p1
CHECK_DEADLOCK FALSE
INVARIANTS TypeOK OneWorkerPerPersistentID ReadyHasClient
PROPERTIES NoForkAtExit SlotRefilled ExitEnds
