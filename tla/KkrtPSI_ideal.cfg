SPECIFICATION FairSpec
CONSTANTS
    a = a
    b = b
    c = c
    Keys <- MCKeys
    Inputs <- Distinct
    Epsilons <- MCEpsilons
    FunNums = {1, 2}
    ObtainResult <- SameFlag
    MaxCalls = 2
    Capacity = 2
PROPERTY
    ImplementsIdeal
CHECK_DEADLOCK FALSE
