SPECIFICATION MCSpec
CONSTANTS
    Slow = Slow
    Quick = Quick
    Live = Live
    k1 = k1
    k2 = k2
    k3 = k3
    k4 = k4
    p1 = p1
    p2 = p2
    c1 = c1
    c2 = c2
    PolicyId = {Slow, Quick, Live}
    Policy <- Policies
    Demand <- Demands
    MaxTime = 7
    Inactivity = 1
    Life = 2
    MaxFingerprints = 5
    MaxClock = 3
    MaxEvents = 9
    MaxShared = 4
SYMMETRY Symmetry
CHECK_DEADLOCK FALSE
INVARIANT LimitsHold
INVARIANT OnlyCapacityRefuses
INVARIANT JournalAuthenticates
INVARIANT SignedOnce
