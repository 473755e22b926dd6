SPECIFICATION Spec
CONSTANTS
    email = email
    sms = sms
    good = good
    other = other
    k1 = k1
    k2 = k2
    k3 = k3
    w1 = w1
    w2 = w2
    Providers = {email, sms}
    Configs = {good, other}
    NoConfig = NoConfig
    Requests <- Shared
    Workers = {w1}
    NoWorker = NoWorker
    MaxRevision = 8
INVARIANT SlotsResolve
PROPERTY ChannelsKeepSlots
