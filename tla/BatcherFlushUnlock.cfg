SPECIFICATION Spec
CONSTANTS
    u1 = u1
    None = None
    Users = {u1}
    Handlers = {u1}
    Serves <- OwnConnection
    Fees = {30}
    Sizes = {1}
    GasPrices = {1}
    MaxNonce = 2
    MaxQueueSize = 5
    MinBumpPercentage = 10
    Deposit = 60
    NonPaying = u1
    Unlimited = 1000
    UsizeModulus = 16
    Arcs = {1, 2, 3}
    SubmissionFaults = {"error", "late"}
    Unlockers = {u1}
    UnlockQueryFails = TRUE
    VerifiersChange = TRUE
    MaxBatchByteSize = 100
    MaxBatchProofQty = 3
    ConstantGasCost = 20
    AdditionalGasPerProof = 10
    CborOverhead = 1
PROPERTIES
    NoSilentLoss
