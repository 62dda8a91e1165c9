\* One administrator at a time, with write faults and a crash, two validations.
CONSTANTS
    Tokens = {t1}
    Admins = {a1}
    Validators = {v1, v2}
    capsule = capsule
    narrow = narrow
    wide = wide
    Capsules <- MCCapsules
    Scopes <- MCScopes
    Within <- MCWithin
    Grants <- MCAllGrants
    Unlimited = Unlimited
    Never = Never
    NoToken = NoToken
    Unissued = Unissued
    MaxEpoch = 1
    MaxTime = 1
    MaxFaults = 1
    MaxCrashes = 1
SPECIFICATION Spec
SYMMETRY Interchangeable
CHECK_DEADLOCK FALSE
INVARIANTS
    TypeOK
    NoMassRevokedAcceptance
    NoAckedRevocationRevives
    UseLimitBetweenRestarts
    RevocationsDurable
PROPERTIES
    KeepsPromise
