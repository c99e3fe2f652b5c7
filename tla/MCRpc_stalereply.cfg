SPECIFICATION Spec
CONSTANTS
    Ready = ready
    NoPresence = nopresence
    NoValue = novalue
    Presences = {}
    Values = {v1}
    Sent = {}
    InitialHandlers = {"ready", "disconnected"}
    HandlerChoices = {}
    Replies = TRUE
    Threaded = TRUE
    QueueSize = 8
    MaxInbox = 1
    MaxSessions = 2
    MaxCalls = 2
INVARIANTS
    NoStaleReply
