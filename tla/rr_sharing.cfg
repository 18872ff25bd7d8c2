SPECIFICATION Spec
CONSTANTS
    MaxWorkers = 3
    MaxCalls = 4
CHECK_DEADLOCK FALSE
INVARIANTS NeverOlder FreshnessReached EvenLoad
