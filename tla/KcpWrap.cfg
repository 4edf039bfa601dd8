SPECIFICATION Spec
CONSTANTS
    SnModulus = 6
    SndWnd = 1
    RcvWnd = 1
    FastResend = 0
    NoCwnd = TRUE
    MaxFrag = 1
    MaxWait = 1
    MaxSend <- OneWay7
    MaxNet <- OneTwo
    MaxLag = 1
    MayCalm = TRUE
INVARIANTS
    TypeOK
    NothingForgotten
PROPERTIES
    ImplementsStream
CHECK_DEADLOCK FALSE
