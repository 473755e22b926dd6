SPECIFICATION MCSpec
CONSTANTS
    a = a
    b = b
    c = c
    q1 = q1
    q2 = q2
    q3 = q3
    Users = {a, b, c}
    Requests = {q1, q2, q3}
    NoRequest = NoRequest
    Workloads <- Mixed
    Processors = 2
    MaxLost = 1
    Plans = {2, 13}
    Unlimited = 13
    FirstPlan = 13
    Founders = {a}
INVARIANTS SuperAdminRemains StableErrors ReceiptTrue NoStandstill
PROPERTIES LastAdminSpared SeatsKept EventuallyAnswered
CHECK_DEADLOCK FALSE
