SPECIFICATION Spec
CONSTANTS
    Ready = ready
    NoPresence = nopresence
    NoValue = novalue
    Presences = {}
    Values = {v1}
    Sent = {"joinGame"}
    InitialHandlers = {"ready", "disconnected", "joinGame", "joinRequest"}
    HandlerChoices = {}
    Replies = FALSE
    Threaded = TRUE
    QueueSize = 8
    MaxInbox = 1
    MaxSessions = 1
    MaxCalls = 2
INVARIANTS
    BookEnded
