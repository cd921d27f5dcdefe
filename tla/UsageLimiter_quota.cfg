CONSTANTS
    Principals = {p1}
    Calls = {c1, c2, c3}
    Requests <- MeteredRequests
    LimitChoices <- MeteredLimits
    MinutesPerDay = 1
    MaxSession = 1
    Overshoot = 1
    MaxMinute = 1
    MaxRestarts = 1
    StoreFails = FALSE
SPECIFICATION Spec
SYMMETRY Symmetry
INVARIANTS TypeOK OverrunBound CoversLog RpmCapInOrder
