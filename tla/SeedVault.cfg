SPECIFICATION Spec
SYMMETRY MCSymmetry
CONSTANTS
    Screens = {first, second}
    Passwords = {blank, typed}
    None = None
    MinMem = 2
    MaxMem = 4
    MaxIters = 2
    MaxLanes = 2
    DefaultParams <- MCDefaultParams
    MaxStored = 2
INVARIANTS Inv UnlockFailsClosed
