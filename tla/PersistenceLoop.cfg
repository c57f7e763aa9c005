CONSTANTS
    Keys <- TwoKeys
    Texts <- AllTexts
    Values <- TwoValues
    Deadlines = {1}
    Reads <- FirstEquals
    Odd = {}
    Saves = {s1, s2}
    MaxTime = 2
    MaxWrites = 2
    MaxTimeouts = 1
    MaxCrashes = 1
    Cut = "cut"
    NoSave = NoSave
SPECIFICATION FairSpec
INVARIANTS
    TypeOK
    SavesInTurn
    FileIsOneSave
PROPERTIES
    EventuallySaved
CHECK_DEADLOCK FALSE
