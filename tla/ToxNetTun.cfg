SPECIFICATION FairSpec
CONSTANTS
    BufSize = 1
    WinSize = 2
    RcvBatch = 1
    MaxDown = 2
    MaxUp = 1
    MaxDowns = 1
    MaxNet = 1
INVARIANTS
    TypeOK
    StreamsIntact
    FinAfterAll
    NoHandlerRaises
PROPERTIES
    EndsWell
CHECK_DEADLOCK FALSE
