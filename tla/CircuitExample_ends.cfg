SPECIFICATION ExampleSpec
CONSTANTS
    a = a
    b = b
    c = c
    Keys <- MCKeys
    Calls <- MCCalls
    Params <- MCParams
    HintMayFail = TRUE
    Randoms = {1, 2}
    Modulus = 4
    MaxCalls = 1
    Capacity = 3
    Counts = {5, 7}
INVARIANTS
    OpenedIsJoin
    TotalsAgree
PROPERTY
    ExampleEnds
