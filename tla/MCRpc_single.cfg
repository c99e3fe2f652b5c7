SPECIFICATION FairSpec
CONSTANTS
    Ready = ready
    NoPresence = nopresence
    NoValue = novalue
    Presences = {}
    Values = {v1}
    Sent = {"joinGame", "joinRequest"}
    InitialHandlers = {"ready", "disconnected", "joinGame", "joinRequest"}
    HandlerChoices = {}
    Replies = TRUE
    Threaded = FALSE
    QueueSize = 3
    MaxInbox = 1
    MaxSessions = 2
    MaxCalls = 2
INVARIANTS
    TypeOK
    BookEnded
    NoStaleReply
PROPERTIES
    ToldTheTruth
