SPECIFICATION MCSpec
CONSTANTS
    QueueSize = 3
    CounterRange = 6
    Items = {m1, m2}
    Junk = Junk
    Producers = {io}
    Droppers = {}
INVARIANTS
    TypeOK
    NoOverwriteInUse
    RequestsFit
PROPERTIES
    IsQueue
    CommittedIsRead
