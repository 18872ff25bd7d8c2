SPECIFICATION Spec
CONSTANTS
    Sockets = {s1, s2}
    Timeout = 5
    nInterval = NONE
    MaxInterval = 3
    Latency = 1
    LotsOfLatency = 3
    RetryPackets = 2
    PromptClose = TRUE
    NONE = NONE
CHECK_DEADLOCK FALSE
INVARIANTS SilentIsClosed ClosedHasNoTimers
PROPERTY HealthyIsKept
