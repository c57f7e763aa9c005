CONSTANTS
    Callers = {c1}
    Kinds = {"write", "list"}
    MaxCalls = 2
    MaxPieces = 1
    MaxMembers = 2
    Shared = FALSE
    MayDrop = FALSE
SPECIFICATION FairSpec
PROPERTY ListsReturn
CHECK_DEADLOCK FALSE
