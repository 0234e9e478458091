SPECIFICATION Spec
CONSTANTS
    a = a
    b = b
    c = c
    Keys <- MCKeys
    Inputs <- Distinct
    Epsilons <- MCEpsilons
    FunNums = {2}
    ObtainResult <- AnyFlags
    MaxCalls = 2
    Capacity = 2
INVARIANT
    CountIsCardinality
CHECK_DEADLOCK FALSE
