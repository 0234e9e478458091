SPECIFICATION FairSpec
CONSTANTS
    a = a
    b = b
    c = c
    Keys <- MCKeys
    Calls <- Plain
    Params <- Various
    HintMayFail = FALSE
    Randoms = {1}
    Modulus = 4
    MaxCalls = 2
    Capacity = 1
PROPERTY
    ImplementsIdeal
CHECK_DEADLOCK FALSE
