SPECIFICATION FairSpec
CONSTANTS
    Requests = {r1, r2}
    Decoded = {r1}
    Unknown = {r2}
    Nameless = {r2}
    Notifying = {r1}
    MaxDisturbances = 1
    r1 = r1
    r2 = r2
CHECK_DEADLOCK FALSE
INVARIANTS TypeOK CalledOnlyIfAuthorized NotAnsweredTwice CountsRunning
PROPERTY EveryRequestEnds
