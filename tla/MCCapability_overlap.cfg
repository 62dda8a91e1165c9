\* Two administrators whose calls overlap, and delegations between two tokens.
CONSTANTS
    Tokens = {t1, t2}
    Admins = {a1, a2}
    Validators = {v1}
    capsule = capsule
    narrow = narrow
    wide = wide
    Capsules <- MCCapsules
    Scopes <- MCScopes
    Within <- MCWithin
    Grants <- MCDelegableGrants
    Unlimited = Unlimited
    Never = Never
    NoToken = NoToken
    Unissued = Unissued
    MaxEpoch = 1
    MaxTime = 0
    MaxFaults = 0
    MaxCrashes = 0
SPECIFICATION Spec
SYMMETRY Interchangeable
CHECK_DEADLOCK FALSE
INVARIANTS
    NoRevokedAcceptance
    RevocationsDurableAtRest
PROPERTIES
    DelegationAttenuates
