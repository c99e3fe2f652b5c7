SPECIFICATION FairSpec
CONSTANTS
    Events = {join, request}
    Ready = ready
    Blank = blank
    NoPayload = nopayload
    Kinds <- MCKinds
    LastName = 2
    Nowhere = nowhere
    MaxPieces = 8
INVARIANTS
    TypeOK
    SocketMatchesState
    Aligned
PROPERTIES
    IsSession
    SearchMissesNobody
    SearchEnds
    EndIsNoticed
    ReadyIsNoticed
