SPECIFICATION FairSpec
CONSTANTS
    d1 = d1
    d2 = d2
    Events = {1, 2}
    Drains = {d1, d2}
    NoDrain = NoDrain
    ClaimLimit = 2
    BatchRows = 2
    LeaseTicks = 1
    MaxDelay = 1
    MaxRetries = 0
    MaxReplays = 1
    MaxFaults = 1
INVARIANTS QueuedWasSent NothingLost
PROPERTIES EventuallyDelivered ClaimsRespected
CHECK_DEADLOCK FALSE
