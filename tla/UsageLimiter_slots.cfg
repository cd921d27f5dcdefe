CONSTANTS
    Principals = {p1}
    Calls = {c1, c2, c3}
    Requests <- SlotRequests
    LimitChoices <- SlotLimits
    MinutesPerDay = 1
    MaxSession = 1
    Overshoot = 1
    MaxMinute = 0
    MaxRestarts = 1
    StoreFails = TRUE
SPECIFICATION FairSpec
INVARIANTS SlotConservation AdmittedUnderCap
PROPERTY SlotsComeBack
