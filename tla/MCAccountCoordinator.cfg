CONSTANTS
    p1 = p1
    p2 = p2
    p3 = p3
    o1 = o1
    o2 = o2
    Proc = {p1, p2, p3}
    Owner = {o1, o2}
    OwnerOf <- MCOwnerOf
    LeaseTtl = 2
    MaxInstant = 4
    MaxGeneration = 2
SPECIFICATION Spec
INVARIANT HistoryVerifies
INVARIANT EffectHoldsCurrentFence
PROPERTY EvidenceIsPermanent
PROPERTY ImplementsFencedOwnership
