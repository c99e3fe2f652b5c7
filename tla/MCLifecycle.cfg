SPECIFICATION FairSpec
CONSTANTS
    MaxLives = 3
    Twice = FALSE
    Nested = {"presence"}
INVARIANTS
    TypeOK
    NoUseAfterDestroy
    OneServes
    NullCallOnlyAtShutdown
PROPERTIES
    CallsReturn
    SignalIsServed
