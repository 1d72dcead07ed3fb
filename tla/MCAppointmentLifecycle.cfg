SPECIFICATION AdvancingSpec
CONSTANTS
    Requests = {p1, p2, p3}
    StartTime = 1
    MaxNow = 3
    MaxSkew = 1
SYMMETRY Symmetry
INVARIANTS LifecycleInv EventsTellHistory
PROPERTY LifecyclePromise
CHECK_DEADLOCK FALSE
