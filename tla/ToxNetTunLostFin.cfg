SPECIFICATION FairSpec
CONSTANTS
    BufSize = 1
    WinSize = 2
    RcvBatch = 2
    MaxDown = 0
    MaxUp = 0
    MaxDowns = 1
    MaxNet = 1
PROPERTIES
    CloseIsRepeated
CHECK_DEADLOCK FALSE
