SPECIFICATION Spec
CONSTANTS
    Keys = {k1}
    Values = {v1}
    Procs = {p1, p2}
    TTLs = {1}
    Timeouts = {1}
    None = None
    Torn = Torn
    Faults = TRUE
    MaxTime = 2
INVARIANTS TypeOK RecordsAreWhole
PROPERTIES SignalKeptWithinTTL WaitReturns
CHECK_DEADLOCK FALSE
