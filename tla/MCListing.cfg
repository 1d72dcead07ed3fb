SPECIFICATION Spec
CONSTANTS
    Rows <- FiveRows
    Filters <- AllOrEarly
    AskedLimits = {0, 2, 5}
    MaxLimit = 3
    NoCursor = NoCursor
    Unreadable = Unreadable
INVARIANTS TypeOK WalkInv InOrder MissesNothing
