SPECIFICATION FairSpec
CONSTANTS
    s1=s1
    s2=s2
    i1=i1
    Supervisor <- TwoSupervisors
    Invocation <- OneInvocation
    StartWindow=1
    DecisionWindow=1
    CleanupWindow=1
    LeaseTtl=4
    MaxTime=5
    MaxGeneration=2
    MaxCrashes=1
    MaxCommands=1
CHECK_DEADLOCK FALSE
INVARIANT AtMostOneChild
PROPERTY ResultsStand
 
