SPECIFICATION Spec
CONSTANTS
    old = old
    new = new
    k1 = k1
    k2 = k2
    k3 = k3
    w1 = w1
    w2 = w2
    Configs = {old, new}
    NoConfig = NoConfig
    LegacyTargets = {old, NoConfig}
    Requests <- Mixed
    Workers = {w1, w2}
    MaxRevision = 7
INVARIANTS ServedWasReady StageNeverCollides
PROPERTY KeepsSlots
