SPECIFICATION FairSpec
CONSTANTS
    Batches = {1, 2}
    GasPrices = {10, 13}
    MaxRetries = 1
    BumpMaxRetries = 2
INVARIANTS
    TypeOK
    OverridesOutbid
PROPERTIES
    EveryTaskDecided
    ImplementsTaskSubmission
