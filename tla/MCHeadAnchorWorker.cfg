SPECIFICATION FairSpec
CONSTANTS
    Interval=3
    Retry=2
    Window=3
    MaxVersions=3
    MaxDemands=1
    MaxFailures=2
INVARIANT OrderIsKept
 
PROPERTY ShutdownIsOrderly
