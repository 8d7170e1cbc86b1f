SPECIFICATION FairSpec
CONSTANTS
    Users = {u1, u2}
    Handlers = {h1}
    NumBlocks = 1
    Poller = poller
    None = None
    MinBlockInterval = 1
    BlocksOverlap = FALSE
    PreVerification = TRUE
    VerifiersChange = FALSE
    QueueFills = FALSE
    SubmissionFails = TRUE
INVARIANT NoDeadlock
PROPERTY PostingEnds
PROPERTY BlocksHandled
