CONSTANTS
    Apis = {x}
    McpServers = {m}
    Bundles = {b}
    Credentials = {k, l}
    Connectors = {}
    Admins = {a1, a2}
    NoObject = NoObject
SPECIFICATION ObjectSpec
SYMMETRY Symmetry
INVARIANT ObjectTypeOK
PROPERTY Implements
CHECK_DEADLOCK FALSE
