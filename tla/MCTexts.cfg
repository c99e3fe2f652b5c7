SPECIFICATION MCSpec
CONSTANTS
    IntMax = 127
    Null = null
    Presences <- MCPresences
    BufferSize = 4
    Fields <- MCFields
    Required = {"username"}
    Cleared = {"avatar"}
    AlwaysRaised = TRUE
    Length = 3
    Messages <- MCMessages
INVARIANTS
    TypeOK
    ReaderStaysInside
    NonceReadsBack
    PresenceReadsBack
    SectionsHaveMembers
    AllocatorServes
PROPERTIES
    HeardAsSent
    LatestIsRead
