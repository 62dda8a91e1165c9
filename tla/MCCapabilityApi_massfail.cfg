\* A mass revocation whose epoch cannot be persisted.
CONSTANTS
    Ids = {r1, r2}
    Sessions = {s1}
    Creators = {c1}
    RequestTokens = {t1, t2}
    NoToken = NoToken
    Unused = Unused
    Evicted = Evicted
    Unminted = Unminted
    NoRequest = NoRequest
    NoSession = NoSession
    MaxRequests = 3
    MaxPerSession = 3
    Timeout = 1
    MaxTime = 2
    Shells = {p1}
    MaxEpoch = 0
    MaxFaults = 1
SPECIFICATION Spec
SYMMETRY Interchangeable
CHECK_DEADLOCK FALSE
INVARIANTS
    SuccessfulRevocationsEnd
