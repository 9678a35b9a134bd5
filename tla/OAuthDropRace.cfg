SPECIFICATION Spec
CONSTANTS
    Calls = {c1, c2, c3}
    FailFastCalls = {c1}
    Callbacks = {h1}
    Subs = {s1}
    States = {k1}
    Responses <- MCResponses
    None = None
    Second = 1
    TokenTimeout = 1
    PendingSlack = 1
    ResultTTL = 1
    ExpiryBuffer = 1
    HasRefreshFn = TRUE
    Faults = FALSE
    MaxTime = 2
PROPERTY DropsOnlyStaleEntry
