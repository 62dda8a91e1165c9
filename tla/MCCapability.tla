----------------------------- MODULE MCCapability -----------------------------
(* Small instances of CapabilityManager. *)
EXTENDS CapabilityManager, TLC

CONSTANTS capsule, narrow, wide

MCCapsules == {capsule}
MCScopes == {narrow, wide}
MCWithin == {<<narrow, narrow>>, <<wide, wide>>, <<narrow, wide>>}

\* What the shell grants for "once" and for "session" (capability.rs:334).
OnceGrant == [capsule |-> capsule, scope |-> narrow, delegatable |-> FALSE,
              max |-> 1, expiry |-> Never]
SessionGrant == [OnceGrant EXCEPT !.max = Unlimited]
\* What a control request may ask for besides (request_handler.rs:329).
ExpiringGrant == [OnceGrant EXCEPT !.delegatable = TRUE, !.expiry = 1]

MCDelegableGrants == {ExpiringGrant}
MCAllGrants == {ExpiringGrant, SessionGrant}
MCShellGrants == {OnceGrant, SessionGrant}

Interchangeable == Permutations(Admins) \cup Permutations(Validators)
=============================================================================
