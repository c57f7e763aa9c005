CONSTANTS
    Players = {p1, p2}
    Threads = {t1, t2}
    Conns = {c1, c2}
    Amounts <- SomeAmounts
    Settings <- SomeSettings
    NotANumber = NotANumber
    MaxAmount = 2
    MayBreak = TRUE
    MaxCommands = 5
    NoConn = NoConn
SPECIFICATION Spec
PROPERTY ZeroMeansNoRecord
CHECK_DEADLOCK FALSE
