SPECIFICATION Spec
CONSTANTS
    Calls = {c1, c2}
    FailFastCalls = {c2}
    Requests = {h1, h2}
    Subs = {s1, s2}
    Links = {k1}
    None = None
    Second = 1
    TokenTimeout = 1
    ResultTTL = 1
    Faults = TRUE
    MaxTime = 2
INVARIANTS TypeOK CredentialsOwnership SignalAfterStore DeclinedLinkIsDead
PROPERTIES LateFormIsRefused SubmitStoresOnce WaitEnds
