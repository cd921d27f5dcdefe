CONSTANTS
    Admins = {a1, a2}
    Calls = {}
    Apis = {x, y}
    Expiries <- SoonOrNever
    MaxTime = 1
    MaxKeys = 4
SPECIFICATION Spec
SYMMETRY Symmetry
PROPERTY Implements
CHECK_DEADLOCK FALSE
