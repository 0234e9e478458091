SPECIFICATION TerminatingSpec
CONSTANTS
    x = x
    y = y
    NUL = NUL
    Char = {x, y, NUL}
    KeyVectors <- Plain
    MaxCalls = 3
INVARIANTS
    KeysArrive
    InBounds
    IInv
