CONSTANTS
    Callers = {c1, c2}
    Kinds <- AllKinds
    MaxCalls = 4
    MaxPieces = 1
    MaxMembers = 2
    Shared = FALSE
    MayDrop = TRUE
SPECIFICATION FairSpec
INVARIANTS
    TypeOK
    OwnReply
    InStep
PROPERTIES
    ImplementsRemoteCall
    SingleLineReturns
CHECK_DEADLOCK FALSE
