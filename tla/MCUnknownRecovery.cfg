SPECIFICATION FairSpec
CONSTANTS
    Offsets <- FirstOffsets
    Horizon=5
    TTL=3
    MaxTime=5
    Worker={w1,w2}
    Delays={2}
    MaxTroubles=1
INVARIANT HistoryVerifies
INVARIANT NoCatchUpBurst
 
