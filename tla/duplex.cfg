SPECIFICATION FairSpec
CONSTANTS
    Kinds = {"websocket", "rtc", "cluster", "thread", "electron"}
    MainCalls = {m1, m2}
    OtherCalls = {o1}
    Hello = hello
    Notifications = {m2}
    MaxFaults = 1
    NONE = NONE
    m1 = m1
    m2 = m2
    o1 = o1
    hello = hello
CHECK_DEADLOCK FALSE
INVARIANTS TypeOK NoneLeftBehind AnswersMatch HeardWhenSent
PROPERTIES Refines EveryCallSettles
