SPECIFICATION TestbenchSpec
CONSTANTS
    Calls = {c1, c2}
    Editors = {e1, e2}
    Docs <- MCDocs
    Builtin <- MCBuiltin
    NoDoc = NoDoc
    MaxServed = 3
    MaxSide = 1
    MaxSessions = 2
    MaxInodes = 2
    MaxChanges = 3
    MaxTime = 1
    Messages <- MCMessages
    Paces <- MCPaces
    MaxFiller = 2
SYMMETRY Symmetry
INVARIANTS TestbenchTypeOK ScenarioIntact SeqExact ReplayCurrent ScriptFollowed AdaptsBothWays NothingMadeUp
CHECK_DEADLOCK FALSE
