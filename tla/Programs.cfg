\* Each program does a bounded number of things and then really stops.
SPECIFICATION Spec
INVARIANTS
    StreamsIntact
    WindowsHold
    MessagesRight
    AllBeforeClose
    NoAssertFails
    SessionsHold
CHECK_DEADLOCK FALSE
