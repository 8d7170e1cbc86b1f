SPECIFICATION Spec
CONSTANTS
    u1 = u1
    u2 = u2
    None = None
    Users = {u1, u2}
    Handlers = {u1, u2}
    Serves <- OwnConnection
    Fees = {20, 30}
    Sizes = {1}
    GasPrices = {1}
    MaxNonce = 3
    MaxQueueSize = 6
    MinBumpPercentage = 10
    Deposit = 70
    NonPaying = None
    Unlimited = 1000
    UsizeModulus = 16
    Arcs = {1, 2, 3, 4, 5}
    SubmissionFaults = {}
    Unlockers = {}
    UnlockQueryFails = FALSE
    VerifiersChange = FALSE
    MaxBatchByteSize = 100
    MaxBatchProofQty = 3
    ConstantGasCost = 20
    AdditionalGasPerProof = 10
    CborOverhead = 1
SYMMETRY UserSymmetry
INVARIANTS
    NoncesContiguous
    FeesFollowNonces
    StateMatchesQueue
