SPECIFICATION Spec
CONSTANTS
    r1 = r1
    r2 = r2
    r3 = r3
    r4 = r4
    r5 = r5
    Requests = {r1, r2, r3, r4, r5}
    Threads = 2
    Limit = 2
    Window = 2
    Slack = 2
    Stall = 1
    MaxClock = 6
SYMMETRY MCSymmetry
CHECK_DEADLOCK FALSE
INVARIANTS Counted RateBound TtlCovers
PROPERTY WindowLimitSpec
