CONSTANTS
    Calls = {c1, c2}
    Impatient = {}
    CertCreds = {k1}
    SecretCreds = {s1}
    Configs = {g, h}
    Admins = {a1}
    Ops <- Lifecycle
    Delays <- DelayOne
    MaxVersion = 2
    MaxTime = 0
    NoOne = NoOne
SPECIFICATION Spec
SYMMETRY Symmetry
INVARIANTS OneMintPerBurst CertServedAsConfigured ForgottenForGood
CHECK_DEADLOCK FALSE
