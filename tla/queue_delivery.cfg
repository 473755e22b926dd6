SPECIFICATION FairSpec
CONSTANTS
    m1 = m1
    m2 = m2
    Messages = {m1, m2}
    MaxRetries = 2
    MaxFaults = 2
INVARIANTS CopiesCostFaults AckedWasSent
CHECK_DEADLOCK FALSE
PROPERTY EventuallySettled
