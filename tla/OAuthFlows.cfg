SPECIFICATION Spec
CONSTANTS
    Calls = {c1, c2}
    FailFastCalls = {}
    Callbacks = {h1, h2}
    Subs = {s1, s2}
    States = {k1, k2}
    Responses <- MCLasting
    None = None
    Second = 1
    TokenTimeout = 1
    PendingSlack = 1
    ResultTTL = 1
    ExpiryBuffer = 1
    HasRefreshFn = FALSE
    Faults = FALSE
    MaxTime = 1
SYMMETRY Symmetry
INVARIANTS TypeOK TokenOwnership StateUsedOnce SignalAfterStore DeclinedFlowIsDead SessionsMatchFlows
