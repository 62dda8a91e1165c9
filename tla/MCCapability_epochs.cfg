\* Two overlapping mass revocations and a third call: the epoch goes back.
CONSTANTS
    Tokens = {t1}
    Admins = {a1, a2}
    Validators = {v1}
    capsule = capsule
    narrow = narrow
    wide = wide
    Capsules <- MCCapsules
    Scopes <- MCScopes
    Within <- MCWithin
    Grants <- MCShellGrants
    Unlimited = Unlimited
    Never = Never
    NoToken = NoToken
    Unissued = Unissued
    MaxEpoch = 2
    MaxTime = 0
    MaxFaults = 0
    MaxCrashes = 0
SPECIFICATION Spec
SYMMETRY Interchangeable
CHECK_DEADLOCK FALSE
INVARIANTS
    NoMassRevokedAcceptance
