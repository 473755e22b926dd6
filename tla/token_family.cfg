SPECIFICATION Spec
CONSTANTS
    c1 = c1
    c2 = c2
    q1 = q1
    q2 = q2
    q3 = q3
    Codes = {c1}
    Requests = {q1, q2}
    Reuse = TRUE
    MaxRows = 3
    MaxFaults = 1
SYMMETRY Alike
INVARIANTS TypeOK OneLiveToken SameAnswer RevokedMintsNothing RevokedGrantsNothing
CHECK_DEADLOCK FALSE
