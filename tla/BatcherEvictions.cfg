SPECIFICATION Spec
CONSTANTS
    h = h
    u1 = u1
    u2 = u2
    None = None
    Users = {u1, u2}
    Handlers = {u1, h}
    Serves <- SecondConnection
    Fees = {20, 30}
    Sizes = {1}
    GasPrices = {1}
    MaxNonce = 2
    MaxQueueSize = 2
    MinBumpPercentage = 100
    Deposit = 40
    NonPaying = None
    Unlimited = 1000
    UsizeModulus = 16
    Arcs = {1, 2, 3, 4, 5}
    SubmissionFaults = {"error"}
    Unlockers = {}
    UnlockQueryFails = FALSE
    VerifiersChange = FALSE
    MaxBatchByteSize = 100
    MaxBatchProofQty = 3
    ConstantGasCost = 30
    AdditionalGasPerProof = 5
    CborOverhead = 1
CHECK_DEADLOCK FALSE
INVARIANTS
    TypeOK
    QueueOK
