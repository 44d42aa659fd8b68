SPECIFICATION FairSpec
CONSTANTS
    w1=w1
    w2=w2
    PrimaryBudget=1
    EscalationBudget=2
    Incident={1}
    Worker={w1,w2}
    MaxTime=2
    MaxCrashes=1
    MaxCommands=1
CHECK_DEADLOCK FALSE
INVARIANT SendsAreClaimed
PROPERTY FailureIsEarned
 
