SPECIFICATION Spec
CONSTANTS
    Calls = {c1, c2, c3}
    SkipCalls = {}
    Notifications = {}
    TimedCalls = {c1}
    Sockets = {s1, s2}
    AutoReconnect = {TRUE, FALSE}
    HasOnConnected = FALSE
    MayDispose = TRUE
    PromptClose = TRUE
    NONE = NONE
    c1 = c1
    c2 = c2
    c3 = c3
    s1 = s1
    s2 = s2
CHECK_DEADLOCK FALSE
SYMMETRY Perms
INVARIANT AnswersMatch
PROPERTY RejectedWithItsSocket
