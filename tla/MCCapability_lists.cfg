\* Two overlapping revocations and a crash between two file operations.
CONSTANTS
    Tokens = {t1, t2}
    Admins = {a1, a2}
    Validators = {v1}
    capsule = capsule
    narrow = narrow
    wide = wide
    Capsules <- MCCapsules
    Scopes <- MCScopes
    Within <- MCWithin
    Grants <- MCShellGrants
    Unlimited = Unlimited
    Never = Never
    NoToken = NoToken
    Unissued = Unissued
    MaxEpoch = 0
    MaxTime = 0
    MaxFaults = 0
    MaxCrashes = 1
SPECIFICATION Spec
SYMMETRY Interchangeable
CHECK_DEADLOCK FALSE
INVARIANTS
    RevocationsDurable
