CONSTANTS
    Admins = {a1}
    Calls = {c1}
    Apis = {x, y}
    Expiries <- SoonOrNever
    MaxTime = 1
    MaxKeys = 4
SPECIFICATION Spec
INVARIANT GrantedOnlyIfHeld
CHECK_DEADLOCK FALSE
