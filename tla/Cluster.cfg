CONSTANTS
    Nodes = {a, b}
    Mute = {}
    CloseWakes = FALSE
    MaxEnables = 3
    MaxEdits = 2
    MaxFaults = 1
SPECIFICATION FairSpec
INVARIANTS
    TypeOK
PROPERTIES
    HealthConverges
    CallsReturn
CHECK_DEADLOCK FALSE
