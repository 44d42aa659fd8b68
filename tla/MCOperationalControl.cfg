SPECIFICATION Spec
CONSTANTS
    c1 = c1
    c2 = c2
    o1 = o1
    o2 = o2
    o3 = o3
    o4 = o4
    Caller = {c1, c2}
    OperatorKey = {o1, o2, o3, o4}
    BreakerKey = {b1}
    Offered = {"drain", "flatten"}
    MaxBlockers = 2
    MaxTime = 1
    MaxHistory = 5
    MaxShared = 4
SYMMETRY CallSymmetry
CHECK_DEADLOCK FALSE
INVARIANT HistoryIsSound
INVARIANT RearmIsEarned
