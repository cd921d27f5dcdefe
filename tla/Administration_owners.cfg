CONSTANTS
    c1 = c1
    c2 = c2
    m1 = m1
    ann = ann
    bob = bob
    Nil = Nil
    Nobody = Nobody
    Commands = {c1, c2}
    Requests = {c1, c2}
    Machines = {m1}
    Accounts = {ann, bob}
    Subs = {ann, bob}
    Realm = {bob}
    MaxTokens = 3
SPECIFICATION AdminFair
INVARIANTS AdminTypeOK RecordKept LoginKept
PROPERTIES OwnersImplement HandlersEnd
CHECK_DEADLOCK FALSE
