SPECIFICATION FairSpec
CONSTANTS
    w1=w1
    w2=w2
    a1=a1
    Worker <- TwoWorkers
    Skew <- SecondAhead
    MaxTime=1
    Of <- SameAttempt
    MaxLookups=2
    MaxTroubles=1
    Answers={"not_found","undecodable"}
INVARIANT PrefixIsSound
PROPERTY EveryObservationDecided
