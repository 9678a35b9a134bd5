SPECIFICATION Spec
CONSTANTS
    Keys = {k1}
    Metas = {m1}
    Results = {r1, r2}
    Waiters = {w1, w2}
    TTLs = {1}
    Timeouts = {1}
    None = None
    Entries = {e1, e2, e3}
    MaxTime = 2
INVARIANTS TypeOK SendNeverBlocks ConsumesOwnEntry SentResultIsReachable UnfiredWaiterIsRegistered
PROPERTIES ImplementsContract WaitReturns
CHECK_DEADLOCK FALSE
