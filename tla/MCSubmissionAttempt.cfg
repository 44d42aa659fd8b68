SPECIFICATION MCSpec
CONSTANTS
    a1 = a1
    a2 = a2
    w1 = w1
    w2 = w2
    o1 = o1
    t = t
    u = u
    NoOwner = NoOwner
    Auth = {a1, a2}
    Worker = {w1, w2}
    Owner = {o1}
    MaxAttempts = 2
    MaxGeneration = 2
    MaxDeliveries = 4
    MaxCancelTime = 2
    MaxRetries = 2
    MaxWatermark = 3
SYMMETRY Symmetry
CHECK_DEADLOCK FALSE
INVARIANT AtMostOnePlace
INVARIANT NothingIsWrittenOff
PROPERTY UnknownFencesParent
PROPERTY PlaceOnlyAfterDurableDispatch
INVARIANT HistoryIsCanonical
INVARIANT SnapshotIsFound
