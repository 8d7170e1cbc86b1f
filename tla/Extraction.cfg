SPECIFICATION Spec
CONSTANTS
    Users = {u1, u2}
    Fees = {10, 12, 15, 30}
    Sizes = {1, 3}
    GasPrices = {1, 2}
    MaxNonce = 3
    MaxQueueSize = 4
    MaxBatchByteSize = 8
    MaxBatchProofQty = 3
    ConstantGasCost = 20
    AdditionalGasPerProof = 4
    CborOverhead = 1
SYMMETRY UserSymmetry
INVARIANTS
    BatchMayBePosted
    BatchIsBiggest
    NoncesLeaveInOrder
