SPECIFICATION FairSpec
CONSTANTS
    ProofsPerChunk = 2
    FieldElements = 4
    Batches <- MixedBatches
    Limit = 3
    MaxBlock = 2
    MaxFaults = 2
INVARIANTS
    TypeOK
    NothingSteppedOver
    RootsAgree
    StatusIsTrue
    PathHoldsOnChain
PROPERTIES
    NoRunRefused
    EveryProofHandled
CHECK_DEADLOCK FALSE
