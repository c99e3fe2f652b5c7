SPECIFICATION FairSpec
CONSTANTS
    Ready = ready
    NoPresence = nopresence
    NoValue = novalue
    Presences = {p1, p2}
    Values = {v1}
    Sent = {}
    InitialHandlers = {"ready", "disconnected"}
    HandlerChoices = {}
    Replies = FALSE
    Threaded = TRUE
    QueueSize = 8
    MaxInbox = 1
    MaxSessions = 2
    MaxCalls = 2
INVARIANTS
    PresenceInSync
PROPERTIES
    PresenceIsShown
