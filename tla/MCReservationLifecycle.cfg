SPECIFICATION Spec
CONSTANTS
    a1 = a1
    a2 = a2
    x1 = x1
    x2 = x2
    Auth = {a1, a2}
    Execution = {x1, x2}
    Quantity = 2
    Fee = 1
    Lag = 0
    MaxEvents = 3
    MaxTime = 2
SYMMETRY Symmetry
CHECK_DEADLOCK FALSE
 
INVARIANT AccountsAgree
PROPERTY FreezeBlocksRelease
