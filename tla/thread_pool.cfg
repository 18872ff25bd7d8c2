SPECIFICATION FairSpec
CONSTANTS
    MaxThreads = 3
    PoolSize = 2
    MaxFailures = 1
    MaxTries = 1
    bThrowOnError = TRUE
    NONE = NONE
CHECK_DEADLOCK FALSE
INVARIANTS TypeOK OneThreadPerPersistentID
PROPERTIES NoStartAtExit ExitEnds BroadcastThrowsOrResolves RpcWorkerSettles
