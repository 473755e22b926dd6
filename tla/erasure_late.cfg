SPECIFICATION Spec
CONSTANTS
    Calls = {c1, c2}
    NoCall = NoCall
    TargetIds <- Ids
    SqlRank <- BinaryRank
    u1 = u1
    u2 = u2
    s1 = s1
    s2 = s2
    Urls = {u1, u2}
    Subjects = {s1, s2}
    Requests <- MixedRequests
    Attestations = {done, none_held}
    Legacy = TRUE
    LeaseTicks = 2
    TargetTicks = 1
    HashTicks = 2
    MaxCrashes = 1
SYMMETRY CallSymmetry
INVARIANTS TypeOK EvidenceAgrees CompletedCoversTargets
PROPERTIES LeaseEndsWithHolder KeepsPromise
