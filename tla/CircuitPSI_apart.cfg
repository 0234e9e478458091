SPECIFICATION TerminatingSpec
CONSTANTS
    a = a
    b = b
    c = c
    Keys <- MCKeys
    Calls <- Plain
    Params <- Single
    HintMayFail = TRUE
    Randoms = {1}
    Modulus = 4
    MaxCalls = 2
    Capacity = 2
INVARIANT
    SharesAlwaysCorrect
