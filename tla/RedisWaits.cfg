SPECIFICATION Spec
CONSTANTS
    Keys = {k1}
    Metas = {m1}
    Results = {r1, r2}
    Waiters = {w1, w2}
    None = None
    CreateTTLs = {1}
    ResultTTLs = {0, 1}
    DefaultTTL = 2
    Timeouts = {1}
    MaxTime = 3
INVARIANTS TypeOK HandedOutOnce
PROPERTIES ImplementsContract WaitReturns
CHECK_DEADLOCK FALSE
