SPECIFICATION FairSpec
CONSTANTS
    Calls = {c1, c2, l1}
    SkipCalls = {l1}
    Notifications = {c2}
    TimedCalls = {c1}
    Sockets = {s1, s2}
    AutoReconnect = {TRUE, FALSE}
    HasOnConnected = TRUE
    MayDispose = TRUE
    PromptClose = FALSE
    NONE = NONE
    c1 = c1
    c2 = c2
    l1 = l1
    s1 = s1
    s2 = s2
CHECK_DEADLOCK FALSE
INVARIANTS TypeOK OnlyCurrentLive
PROPERTIES Refines EveryCallSettles SentAfterLogin
