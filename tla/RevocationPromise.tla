-------------------------- MODULE RevocationPromise --------------------------
(***************************************************************************)
(* What the capability authority promises, with no epochs, files, counters *)
(* or locks in it: a dead token stays dead, and no check that BEGAN after  *)
(* its death accepts it.  A check already under way when the token died    *)
(* may end either way.                                                     *)
(***************************************************************************)
CONSTANTS Tokens, Validators

VARIABLES dead,      \* tokens revoked (singly or in mass) or expired
          outcome    \* what each check has come to

promiseVars == <<dead, outcome>>

PromiseInit == dead = {} /\ outcome = [v \in Validators |-> "none"]

\* Time, a revocation or a mass revocation kills tokens, for good.
Kill == \E S \in SUBSET Tokens :
    /\ dead \subseteq S
    /\ dead' = S
    /\ UNCHANGED outcome

Begin(v, t) ==
    /\ outcome[v] = "none"
    /\ outcome' = [outcome EXCEPT ![v] = IF t \in dead THEN "doomed" ELSE "open"]
    /\ UNCHANGED dead

Accept(v) ==
    /\ outcome[v] = "open"
    /\ outcome' = [outcome EXCEPT ![v] = "accepted"]
    /\ UNCHANGED dead

\* Checks are refused, answered, or die with their process.  (A delegation may
\* answer with a token that its parent's expiry has killed already.)
Leave == \E S \in SUBSET Validators, D \in SUBSET Tokens :
    /\ outcome' = [v \in Validators |-> IF v \in S THEN "none" ELSE outcome[v]]
    /\ dead \subseteq D /\ dead' = D

PromiseNext == \/ Kill \/ Leave
               \/ \E v \in Validators : Accept(v) \/ \E t \in Tokens : Begin(v, t)

PromiseSpec == PromiseInit /\ [][PromiseNext]_promiseVars
=============================================================================
