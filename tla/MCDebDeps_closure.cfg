SPECIFICATION FairSpec
CONSTANTS
    a = a
    b = b
    c = c
    Pkg = {a, b, c}
    Absent = {x}
INVARIANTS
    ReturnsTheNeeded
    RaisesForAbsent
    CacheIsNeverUsed
PROPERTIES
    Terminates
CHECK_DEADLOCK FALSE
