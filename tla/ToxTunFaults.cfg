SPECIFICATION Spec
CONSTANTS
    Conns = {a}
    NoConn = NoConn
    Convs = {1, 2}
    MaxChan = 2
    MaxData = 1
    RetryLimit = 1
    SndLimit = 1
    MaxDowns = 2
    MaxMsgs = 2
    LossyOvertakes = TRUE
    DialMayFail = TRUE
INVARIANTS
    TypeOK
    ConnOwnedOnce
    NothingInvented
    ClosesAsPromised
PROPERTIES
    NeverRevived
CHECK_DEADLOCK FALSE
