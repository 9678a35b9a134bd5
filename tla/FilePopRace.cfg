SPECIFICATION Spec
CONSTANTS
    Keys = {k1}
    Values = {v1}
    Procs = {p1, p2}
    TTLs = {1}
    Timeouts = {1}
    None = None
    Torn = Torn
    Faults = FALSE
    MaxTime = 2
INVARIANT PopOnce
CHECK_DEADLOCK FALSE
