SPECIFICATION Spec
CONSTANTS
    Conns = {a}
    NoConn = NoConn
    Convs = {1}
    MaxChan = 1
    MaxData = 1
    RetryLimit = 1
    SndLimit = 1
    MaxDowns = 0
    MaxMsgs = 2
    LossyOvertakes = FALSE
    DialMayFail = FALSE
INVARIANTS
    ClosedOnceByClient
CHECK_DEADLOCK FALSE
