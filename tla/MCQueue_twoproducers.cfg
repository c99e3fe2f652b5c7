SPECIFICATION Spec
CONSTANTS
    QueueSize = 3
    CounterRange = 6
    Items = {m1, m2}
    Junk = Junk
    Producers = {io, game}
    Droppers = {}
PROPERTIES
    IsQueue
