SPECIFICATION Spec
CONSTANTS
    UnlockTime = 4
    PollInterval = 1
    PollDelay = 1
    MaxPollFailures = 1
    ClockSkew = 1
    Amounts = {1, 2}
    Fee = 1
    MaxBalance = 2
    MaxPool = 1
    MaxQueue = 2
    MaxBlocks = 4
    MaxTime = 7
INVARIANTS
    TypeOK
    SeenInTime
    OnlyKnownWindows
CHECK_DEADLOCK FALSE
