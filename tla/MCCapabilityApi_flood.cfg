\* Creations against a store that is full, with sweeps, and one shell handler.
CONSTANTS
    Ids = {r1, r2, r3}
    Sessions = {s1, s2}
    Creators = {c1, c2}
    RequestTokens = {t1}
    NoToken = NoToken
    Unused = Unused
    Evicted = Evicted
    Unminted = Unminted
    NoRequest = NoRequest
    NoSession = NoSession
    MaxRequests = 2
    MaxPerSession = 1
    Timeout = 1
    MaxTime = 2
    Shells = {p1}
    MaxEpoch = 0
    MaxFaults = 0
SPECIFICATION Spec
SYMMETRY Interchangeable
CHECK_DEADLOCK FALSE
INVARIANTS
    CapacityBound
    IndexComplete
PROPERTIES
    DecisionsStand
