CONSTANTS
    Calls = {c1, c2, c3}
    Impatient = {c1, c2}
    CertCreds = {k1}
    SecretCreds = {s1}
    Configs = {g}
    Admins = {a1}
    Ops <- NoOps
    Delays <- SomeDelays
    MaxVersion = 1
    MaxTime = 1
    NoOne = NoOne
SPECIFICATION FairSpec
INVARIANTS TypeOK OnlyOwnCancellation
PROPERTY WaitersReturn
CHECK_DEADLOCK FALSE
