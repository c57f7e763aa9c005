CONSTANTS
    h = h
    b = b
    Nodes = {h, b}
    Host = h
    Asks <- MCAsks
    CloseWakes = FALSE
    Patient = TRUE
    MaxEnables = 3
SPECIFICATION FairSpec
INVARIANTS
    TypeOK
    JoinedIsGone
    DiesOnlyByRace
PROPERTIES
    StopsReturn
    SlaveServed
CHECK_DEADLOCK FALSE
