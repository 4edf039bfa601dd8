SPECIFICATION FairSpec
CONSTANTS
    Conns = {a}
    NoConn = NoConn
    Convs = {1}
    MaxChan = 1
    MaxData = 1
    RetryLimit = 1
    SndLimit = 1
    MaxDowns = 1
    MaxMsgs = 2
    LossyOvertakes = FALSE
    DialMayFail = TRUE
PROPERTIES
    AttemptSettled
    ClosedIsReleased
CHECK_DEADLOCK FALSE
