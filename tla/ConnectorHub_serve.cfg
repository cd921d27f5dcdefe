CONSTANTS
    Sessions = {s1, s2}
    Admins = {a1}
    Slots = {x, y}
    SlotSets <- AllOrOne
    Ops <- Lifecycle
    MaxTokens = 4
SPECIFICATION FairSpec
INVARIANTS TypeOK LiveSessionsAreCurrent PickFindsLive RoundRobin
PROPERTY DisabledDrains
CHECK_DEADLOCK FALSE
