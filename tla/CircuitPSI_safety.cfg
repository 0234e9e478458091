SPECIFICATION TerminatingSpec
CONSTANTS
    a = a
    b = b
    c = c
    Keys <- MCKeys
    Calls <- Rich
    Params <- Various
    HintMayFail = TRUE
    Randoms = {1, 2}
    Modulus = 4
    MaxCalls = 2
    Capacity = 1
INVARIANTS
    TypeOK
    WireSync
    ReadyForNext
    SharesCorrect
    ThrowAgreement
    CircuitInv
    SharesInv
