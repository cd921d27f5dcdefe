CONSTANTS
    Calls = {c1, c2}
    Kids = {k0, k1}
    Tokens <- AllTokens
    MinRefresh = 2
    MaxAge = 2
    MaxFetch = 1
    MaxTime = 4
    NoCall = NoCall
SPECIFICATION FairSpec
PROPERTIES NoFlood KnownKeyAccepted NewKeySoon StaleOnlyAfterFailure FetchMuReleased
CHECK_DEADLOCK FALSE
