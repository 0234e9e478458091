SPECIFICATION TerminatingSpec
CONSTANTS
    a = a
    b = b
    c = c
    Keys <- MCKeys
    Inputs <- Repeating
    Epsilons <- MCEpsilons
    FunNums = {1, 2}
    ObtainResult <- SameFlag
    MaxCalls = 2
    Capacity = 1
INVARIANTS
    TypeOK
    WireSync
    ReadyForNext
    ResultCorrect
    ThrowAgreement
    KkrtInv
