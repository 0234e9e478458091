SPECIFICATION FairSpec
CONSTANTS
    a = a
    b = b
    c = c
    x448 = x448
    other = other
    Keys <- MCKeys
    Curves <- MCCurves
    SupportedCurve = x448
    Inputs <- NonEmpty
    MaxCalls = 2
    Capacity = 1
PROPERTIES
    ImplementsIdeal
    CallsReturn
    InitEnds
CHECK_DEADLOCK FALSE
