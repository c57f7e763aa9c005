CONSTANTS
    Threads = {t1, t2, t3}
    Conns = {c1, c2, c3}
    Max = 2
    ConnectMayFail = TRUE
    Closing = "quiet"
    NoConn = NoConn
SPECIFICATION FairSpec
INVARIANTS
    TypeOK
    OneHolder
    PermitsBounded
    AtMostMax
    CountsOpen
PROPERTIES
    ClosingRestores
    GetReturns
CHECK_DEADLOCK FALSE
