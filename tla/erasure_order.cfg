SPECIFICATION FairSpec
CONSTANTS
    u1 = u1
    u2 = u2
    s1 = s1
    s2 = s2
    c1 = c1
    c2 = c2
    done = done
    Calls = {c1, c2}
    NoCall = NoCall
    TargetIds <- Ids
    SqlRank <- BinaryRank
    Urls = {u1, u2}
    Subjects = {s1}
    Requests <- OneClashing
    Attestations = {done}
    Legacy = FALSE
    LeaseTicks = 4
    TargetTicks = 2
    HashTicks = 1
    MaxCrashes = 1
PROPERTY RetryCompletes
