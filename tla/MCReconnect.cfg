SPECIFICATION FairSpec
CONSTANTS
    MinDelay = 2
    MaxDelay = 13
    Jumps <- MCJumps
    MaxJumps = 2
    MaxWaited = 34
INVARIANTS
    TypeOK
    DueInTime
PROPERTIES
    NotTooFast
    BacksOff
    KeepsTrying
