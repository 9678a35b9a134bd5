SPECIFICATION Spec
CONSTANTS
    Keys = {k1}
    Values = {v1}
    Procs = {p1, p2, p3}
    TTLs = {1}
    Timeouts = {1}
    None = None
    Torn = Torn
    Faults = FALSE
    MaxTime = 3
PROPERTY SignalNotLost
CHECK_DEADLOCK FALSE
