SPECIFICATION Spec
CONSTANTS
    Calls = {c1, c2}
    FailFastCalls = {c1}
    Callbacks = {h1}
    Subs = {s1}
    States = {k1}
    Responses <- MCResponses
    None = None
    Second = 2
    TokenTimeout = 1
    PendingSlack = 2
    ResultTTL = 1
    ExpiryBuffer = 1
    HasRefreshFn = TRUE
    Faults = TRUE
    MaxTime = 4
INVARIANT LinkOutlivesWait
PROPERTIES WaitEnds RefreshKeepsRefreshToken
