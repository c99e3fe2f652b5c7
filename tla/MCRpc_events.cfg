SPECIFICATION FairSpec
CONSTANTS
    Ready = ready
    NoPresence = nopresence
    NoValue = novalue
    Presences = {}
    Values = {v1, v2}
    Sent = {"joinGame"}
    InitialHandlers = {"joinGame"}
    HandlerChoices = {{"spectateGame"}}
    Replies = FALSE
    Threaded = TRUE
    QueueSize = 8
    MaxInbox = 1
    MaxSessions = 1
    MaxCalls = 2
INVARIANTS
    NoDeafHandler
PROPERTIES
    LatestIsHeard
