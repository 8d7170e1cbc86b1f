SPECIFICATION Spec
CONSTANTS
    Users = {u1}
    Handlers = {h1}
    NumBlocks = 3
    Poller = poller
    None = None
    MinBlockInterval = 2
    BlocksOverlap = TRUE
    PreVerification = TRUE
    VerifiersChange = TRUE
    QueueFills = TRUE
    SubmissionFails = TRUE
SYMMETRY TaskSymmetry
INVARIANT TypeOK
INVARIANT OneBatchAtATime
PROPERTY IntervalRespected
CHECK_DEADLOCK FALSE
