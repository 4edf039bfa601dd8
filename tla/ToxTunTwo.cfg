SPECIFICATION Spec
CONSTANTS
    Conns = {a, b}
    NoConn = NoConn
    Convs = {1, 2}
    MaxChan = 2
    MaxData = 0
    RetryLimit = 1
    SndLimit = 1
    MaxDowns = 0
    MaxMsgs = 2
    LossyOvertakes = FALSE
    DialMayFail = FALSE
SYMMETRY ConnSymmetry
INVARIANTS
    EndsAgree
    ClientPoolsAgree
    ServerPoolsAgree
    NotAbandoned
CHECK_DEADLOCK FALSE
