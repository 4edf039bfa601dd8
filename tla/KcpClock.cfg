SPECIFICATION Spec
CONSTANTS
    TimeModulus = 42
    Modes <- SlowServerFastClient
    BigSlap = 4
    MinWait = 1
    ClientWait = 3
    MinRto = 2
    MaxRto = 3
    DefRto = 2
    MaxSegRto = 5
    MaxRtt = 4
    MaxJump = 5
    MaxJumps = 2
    Jumps <- ForwardAndBack
INVARIANTS
    FlushCadence
    ResendAhead
