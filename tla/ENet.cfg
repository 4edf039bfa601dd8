SPECIFICATION MCSpec
CONSTANTS
    Scripts <- MixScripts
    Windows = 6
    FreeWindows = 3
    WindowSize = 2
    Start = 10
    UnseqWindow = 2
    FreeUnseq = 2
    UnreliableLimit = 2
    MaxTransit = 4
    MaxWaiting = 3
    MaxBacklog = 1
    NetCap = 2
    AckCap = 1
INVARIANTS
    TypesOK
    CountsAgree
    InOrder
    NothingOfAnother
    NoneStuck
PROPERTY ImplementsStream
\* An ENet host that has nothing left to do stops, within the bounds.
CHECK_DEADLOCK FALSE
