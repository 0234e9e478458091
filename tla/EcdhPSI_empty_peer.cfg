SPECIFICATION TerminatingSpec
CONSTANTS
    a = a
    b = b
    c = c
    x448 = x448
    other = other
    Keys <- MCKeys
    Curves <- MCCurves
    SupportedCurve = x448
    Inputs <- WithEmpty
    MaxCalls = 1
    Capacity = 1
INVARIANT
    KeysAreIntersection
