SPECIFICATION TerminatingSpec
CONSTANTS
    a = a
    b = b
    c = c
    x448 = x448
    other = other
    Keys <- MCKeys
    Curves <- MCCurves
    SupportedCurve = x448
    Inputs <- WithEmpty
    MaxCalls = 2
    Capacity = 1
INVARIANTS
    TypeOK
    WireSync
    NothingUnread
    ResultCorrect
    OnlyEntitledReceive
    ThrowAgreement
    IInv
