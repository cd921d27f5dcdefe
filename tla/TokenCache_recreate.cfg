CONSTANTS
    Calls = {c1, c2}
    Impatient = {}
    CertCreds = {}
    SecretCreds = {s1}
    Configs = {g, h}
    Admins = {a1}
    Ops <- Lifecycle
    Delays <- DelayOne
    MaxVersion = 1
    MaxTime = 0
    NoOne = NoOne
SPECIFICATION Spec
INVARIANT ServedAsConfigured
CHECK_DEADLOCK FALSE
