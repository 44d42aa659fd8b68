SPECIFICATION FairSpec
CONSTANTS
    h1=h1
    h2=h2
    j1=j1
    k1=k1
    Job={j1}
    Host={h1,h2}
    Key={k1}
    Lease=1
    MaxAttempts=2
    MaxEvents=40
    MaxRenewals=1
    MaxTroubles=1
INVARIANT ClaimsAreExclusive
PROPERTY KeepsPromise
PROPERTY EveryJobEnds
