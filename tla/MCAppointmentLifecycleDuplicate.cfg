SPECIFICATION Spec
CONSTANTS
    Requests = {p1, p2, p3}
    StartTime = 1
    MaxNow = 2
    MaxSkew = 1
SYMMETRY Symmetry
INVARIANT NoDuplicateCancellation
