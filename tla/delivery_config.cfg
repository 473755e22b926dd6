SPECIFICATION Spec
CONSTANTS
    email = email
    sms = sms
    good = good
    other = other
    k1 = k1
    k2 = k2
    k3 = k3
    Providers = {email}
    Configs = {good, other}
    NoConfig = NoConfig
    Requests <- Contended
    Workers = {w1, w2}
    NoWorker = NoWorker
    MaxRevision = 4
INVARIANTS TypeOK ActiveWasProven StageNeverCollides
PROPERTY AppliedOnce
