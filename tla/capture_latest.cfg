SPECIFICATION Spec
CONSTANTS
    u1 = u1
    u2 = u2
    v1 = v1
    v2 = v2
    e1 = e1
    e2 = e2
    b1 = b1
    b2 = b2
    Orgs = {1}
    Users = {u1}
    i1 = i1
    i2 = i2
    MemberIds = {i1}
    Values = {v1, v2}
    Gone = Gone
    Emails = {e1, e2}
    NoEmail = NoEmail
    NoUser = NoUser
    Backends = {b1, b2}
    MaxTime = 4
INVARIANT LatestDescribesRow
