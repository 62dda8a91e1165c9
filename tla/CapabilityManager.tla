-------------------------- MODULE CapabilityManager --------------------------
(***************************************************************************)
(* elastos-runtime/src/capability/manager.rs over the store: grant, the    *)
(* validation pipeline, delegate, revoke and revoke_all.  Validation reads *)
(* the epoch, then awaits the revocation lock, then the clock, then awaits *)
(* the use-counter lock, so each of these is a step of its own and calls   *)
(* of the administrators fall between them.                                *)
(*                                                                         *)
(* Tokens are bearer objects: they outlive the process, and so does the    *)
(* signing key.  The wall clock is taken not to run backwards.             *)
(***************************************************************************)
EXTENDS CapabilityStore

CONSTANTS Validators,   \* concurrent validate / delegate calls
          Capsules,     \* callers a token can be bound to
          Scopes,       \* (resource, action) pairs a token can name
          Within,       \* <<s, p>>: a request for s is covered by a grant of p
          Grants,       \* what grant is asked for: the records of GrantRecord
          Unlimited,    \* max_uses: None
          Never,        \* expiry: None
          MaxTime,      \* bound on the clock
          Unissued      \* a token id not minted yet

GrantRecord ==
    [capsule : Capsules, scope : Scopes, delegatable : BOOLEAN,
     max : Nat \cup {Unlimited}, expiry : Nat \cup {Never}]

Token == [capsule : Capsules, scope : Scopes, delegatable : BOOLEAN,
          max : Nat \cup {Unlimited}, expiry : Nat \cup {Never}, epoch : Nat]

ASSUME GrantsAssumption == Grants \subseteq GrantRecord
ASSUME OptionsAssumption == Unlimited \notin Nat /\ Never \notin Nat
ASSUME TimeAssumption == MaxTime \in Nat
ASSUME UnissuedAssumption == Unissued \notin Token

VARIABLES
    token,      \* what each minted token says
    now,        \* SecureTimestamp::now().unix_secs
    vpc,        \* where each validation is
    vtok,       \* the token it checks
    delegating, \* is it the first half of delegate?
    vdead,      \* why the token was already dead when the call began
    spent       \* validations that ever accepted the token

checks  == <<vpc, vtok, delegating, vdead>>
managerVars == <<token, now, checks, spent>>
vars == <<storeVars, managerVars>>

Issued == {t \in Tokens : token[t] # Unissued}

Expired(t) == token[t].expiry # Never /\ token[t].expiry <= now

\* Everything that had ended t's life before this instant.
DeadBecause(t) ==
    {r \in {"returned", "acked", "mass", "expired"} :
        \/ r = "returned" /\ t \in returned
        \/ r = "acked" /\ t \in acked
        \/ r = "mass" /\ token[t].epoch < floor
        \/ r = "expired" /\ Expired(t)}

ManagerTypeOK ==
    /\ token \in [Tokens -> Token \cup {Unissued}]
    /\ now \in Nat
    /\ vpc \in [Validators -> {"idle", "epoch", "revoked", "expiry", "use",
                               "mint", "accepted"}]
    /\ vtok \in [Validators -> Tokens \cup {NoToken}]
    /\ delegating \in [Validators -> BOOLEAN]
    /\ vdead \in [Validators -> SUBSET {"returned", "acked", "mass", "expired"}]
    /\ spent \in [Tokens -> Nat]
    /\ \A v \in Validators : vpc[v] # "idle" => vtok[v] \in Issued

TypeOK == StoreTypeOK /\ ManagerTypeOK

Init ==
    /\ StoreInit
    /\ token = [t \in Tokens |-> Unissued]
    /\ now = 0
    /\ vpc = [v \in Validators |-> "idle"]
    /\ vtok = [v \in Validators |-> NoToken]
    /\ delegating = [v \in Validators |-> FALSE]
    /\ vdead = [v \in Validators |-> {}]
    /\ spent = [t \in Tokens |-> 0]

-----------------------------------------------------------------------------
(* grant *)

\* The token is stamped with the current epoch unless the caller asked for a
\* later one, which none does.
Mint(t, capsule, scope, delegatable, max, expiry, atLeast) ==
    token' = [token EXCEPT ![t] =
        [capsule |-> capsule, scope |-> scope, delegatable |-> delegatable,
         max |-> max, expiry |-> expiry,
         epoch |-> IF atLeast < epoch THEN epoch ELSE atLeast]]

Grant(t, g) ==
    /\ t \notin Issued
    /\ Mint(t, g.capsule, g.scope, g.delegatable, g.max, g.expiry, 0)
    /\ UNCHANGED <<storeVars, now, checks, spent>>

-----------------------------------------------------------------------------
(* validate: checks 1 to 6, then 7, 8, 9-10 and 12 *)

\* Version, signature, issuer, capsule, action and resource depend on the token
\* and the request alone.  (So does the classification ceiling, check 11, whose
\* failures end a call the same way.)
StaticChecks(t, caller, wanted) ==
    token[t].capsule = caller /\ <<wanted, token[t].scope>> \in Within

\* Mutant: straight to the expiry check.
BeginValidate_short(v, t, caller, wanted, isDelegation) ==
    /\ vpc[v] = "idle" /\ t \in Issued
    /\ StaticChecks(t, caller, wanted)
    /\ vpc' = [vpc EXCEPT ![v] = "expiry"]
    /\ vtok' = [vtok EXCEPT ![v] = t]
    /\ delegating' = [delegating EXCEPT ![v] = isDelegation]
    /\ vdead' = [vdead EXCEPT ![v] = DeadBecause(t)]
    /\ UNCHANGED <<storeVars, token, now, spent>>

BeginValidate(v, t, caller, wanted, isDelegation) ==
    /\ vpc[v] = "idle" /\ t \in Issued
    /\ StaticChecks(t, caller, wanted)
    /\ vpc' = [vpc EXCEPT ![v] = "epoch"]
    /\ vtok' = [vtok EXCEPT ![v] = t]
    /\ delegating' = [delegating EXCEPT ![v] = isDelegation]
    /\ vdead' = [vdead EXCEPT ![v] = DeadBecause(t)]
    /\ UNCHANGED <<storeVars, token, now, spent>>

\* The call ends, refused or answered.
Leave(v) == /\ vpc' = [vpc EXCEPT ![v] = "idle"]
            /\ vtok' = [vtok EXCEPT ![v] = NoToken]
            /\ delegating' = [delegating EXCEPT ![v] = FALSE]
            /\ vdead' = [vdead EXCEPT ![v] = {}]

Proceed(v, to) == /\ vpc' = [vpc EXCEPT ![v] = to]
                  /\ UNCHANGED <<vtok, delegating, vdead>>

\* One check: on to the next if it holds, an error to the caller if not.
Check(v, at, holds, next) ==
    /\ vpc[v] = at
    /\ IF holds THEN Proceed(v, next) ELSE Leave(v)
    /\ UNCHANGED <<storeVars, token, now, spent>>

CheckEpoch(v) == Check(v, "epoch", IsEpochValid(token[vtok[v]].epoch), "revoked")

\* Mutant: the list on disk is consulted, not the one in memory.
CheckRevoked_disk(v) == Check(v, "revoked", vtok[v] \notin revokedFile, "expiry")

CheckRevoked(v) == Check(v, "revoked", vtok[v] \notin revoked, "expiry")

CheckExpiry(v) == Check(v, "expiry", ~Expired(vtok[v]), "use")

Outcome(v) == IF delegating[v] THEN "mint" ELSE "accepted"

\* Check 12.  A limited token is counted in the same critical section that
\* compares the count; an unlimited one is not counted.
UncountedUse(v) ==
    /\ vpc[v] = "use" /\ token[vtok[v]].max = Unlimited
    /\ Proceed(v, Outcome(v))
    /\ UNCHANGED <<storeVars, token, now, spent>>

CountedUse(v) ==
    LET t == vtok[v]
    IN  /\ vpc[v] = "use" /\ token[t].max # Unlimited
        /\ IF MayUse(t, token[t].max)
             THEN /\ Proceed(v, Outcome(v)) /\ CountUse(t)
                  /\ spent' = [spent EXCEPT ![t] = @ + 1]
             ELSE /\ Leave(v)
                  /\ UNCHANGED <<useCount, spent>>
        /\ UNCHANGED <<epoch, revoked, files, callers, faults, crashes, history,
                       token, now>>

\* The caller has its answer.
Finish(v) ==
    /\ vpc[v] = "accepted"
    /\ Leave(v)
    /\ UNCHANGED <<storeVars, token, now, spent>>

-----------------------------------------------------------------------------
(* delegate: validate the parent, then grant a narrower child *)

\* Mutant: the child gets the expiry it asks for.
Earlier_asked(a, b) == b

Earlier(a, b) == IF a = Never THEN b ELSE IF b = Never THEN a
                 ELSE IF a < b THEN a ELSE b

MintChild(v, c, capsule, scope, expiry) ==
    LET parent == token[vtok[v]]
    IN  /\ vpc[v] = "mint" /\ c \notin Issued
        /\ parent.delegatable /\ <<scope, parent.scope>> \in Within
        /\ Mint(c, capsule, scope, FALSE, parent.max,
                Earlier(parent.expiry, expiry), parent.epoch)
        /\ Leave(v)
        /\ UNCHANGED <<storeVars, now, spent>>

\* Not delegatable, or a wider scope asked for: the use already counted stays.
RefuseChild(v) ==
    /\ vpc[v] = "mint"
    /\ \/ ~token[vtok[v]].delegatable
       \/ \E s \in Scopes : <<s, token[vtok[v]].scope>> \notin Within
    /\ Leave(v)
    /\ UNCHANGED <<storeVars, token, now, spent>>

-----------------------------------------------------------------------------
Tick ==
    /\ now < MaxTime
    /\ now' = now + 1
    /\ UNCHANGED <<storeVars, token, checks, spent>>

AdminStep == /\ \E a \in Admins : CallerStep(a)
             /\ UNCHANGED managerVars

\* Calls in flight die; issued tokens stay in their holders' hands.
Restart ==
    /\ Crash
    /\ vpc' = [v \in Validators |-> "idle"]
    /\ vtok' = [v \in Validators |-> NoToken]
    /\ delegating' = [v \in Validators |-> FALSE]
    /\ vdead' = [v \in Validators |-> {}]
    /\ UNCHANGED <<token, now, spent>>

Next ==
    \/ AdminStep
    \/ \E t \in Tokens, g \in Grants : Grant(t, g)
    \/ \E v \in Validators :
        \/ \E t \in Tokens, caller \in Capsules, wanted \in Scopes, d \in BOOLEAN :
                BeginValidate(v, t, caller, wanted, d)
        \/ CheckEpoch(v) \/ CheckRevoked(v) \/ CheckExpiry(v) \/ UncountedUse(v) \/ CountedUse(v)
        \/ \E c \in Tokens, capsule \in Capsules, s \in Scopes,
              e \in {Never} \cup {g.expiry : g \in Grants} :
                MintChild(v, c, capsule, s, e)
        \/ RefuseChild(v) \/ Finish(v)
    \/ Tick
    \/ Restart

Spec == Init /\ [][Next]_vars

-----------------------------------------------------------------------------
(* Properties *)

Passed(v) == vpc[v] \in {"mint", "accepted"}

\* A validation that began after revoke() had returned is never accepted, for
\* as long as the process lives -- even when persisting the list failed, and
\* however many calls overlap (manager.rs:441, "Individual revocation check").
NoRevokedAcceptance == \A v \in Validators : Passed(v) => "returned" \notin vdead[v]

\* A validation that began after revoke_all() returned a new epoch is never
\* accepted for a token of an earlier epoch ("All tokens with epoch < new_epoch
\* will be rejected", manager.rs:592), restarts included.
NoMassRevokedAcceptance == \A v \in Validators : Passed(v) => "mass" \notin vdead[v]

\* A revocation acknowledged without a persist error binds every validation
\* that begins later, in this process or the ones after it.
NoAckedRevocationRevives == \A v \in Validators : Passed(v) => "acked" \notin vdead[v]

\* A validation that began after the expiry is never accepted, although the
\* clock is read only after two awaits (manager.rs:453).
NoExpiredAcceptance == \A v \in Validators : Passed(v) => "expired" \notin vdead[v]

\* A token granted for n uses is accepted at most n times ("Valid for one use
\* only", pending.rs:75): concurrent validations may not both take the last use.
UseLimit == \A t \in Issued : token[t].max # Unlimited => spent[t] <= token[t].max

\* ... which the code keeps for as long as the process lives: use_counts is
\* in memory only.
UseLimitBetweenRestarts == crashes = 0 => UseLimit

\* A delegated token expires no later than the token it comes from and cannot be
\* delegated on ("depth=1 only, no chaining", manager.rs:515), although time and
\* other grants pass between the parent's validation and the child's grant.
DelegationAttenuates ==
    [][\A v \in Validators, c \in Tokens :
        (vpc[v] = "mint" /\ c \notin Issued /\ token'[c] # Unissued /\ vpc'[v] = "idle")
          => /\ ~token'[c].delegatable
             /\ token[vtok[v]].expiry # Never =>
                   token'[c].expiry # Never /\ token'[c].expiry <= token[vtok[v]].expiry]_vars

-----------------------------------------------------------------------------
(* Why they hold: the inductive invariants *)

\* A revocation is in memory before its call returns; a token once found dead
\* is still dead; and a call that began on a dead token is still short of the
\* check that will find it so.
RevocationInv ==
    /\ returned \subseteq revoked
    /\ \A a \in Admins : pc[a] \in Revoking => target[a] \in revoked
    /\ \A v \in Validators : "returned" \in vdead[v] =>
          vtok[v] \in revoked /\ vpc[v] \in {"epoch", "revoked"}

ExpiryInv ==
    \A v \in Validators : "expired" \in vdead[v] =>
        vtok[v] \in Issued /\ Expired(vtok[v]) /\ vpc[v] \in {"epoch", "revoked", "expiry"}

\* Until the first crash the counters have forgotten nothing.
UseInv ==
    /\ crashes = 0 => spent = useCount
    /\ \A t \in Issued : token[t].max # Unlimited => useCount[t] <= token[t].max
    /\ \A t \in Tokens \ Issued : useCount[t] = 0

\* With calls that do not overlap, the files never fall behind what was promised.
OneAdmin == \A a, b \in Admins : a = b

StoreSerial ==
    /\ floor <= epoch /\ epoch <= epochFile
    /\ acked \subseteq revoked /\ acked \subseteq revokedFile
    /\ \A a \in Admins :
        /\ pc[a] \in Advancing => newEpoch[a] = epoch + 1
        /\ pc[a] \in {"e_write", "r_write"} => fd[a] = "tmp"
        /\ pc[a] = "e_rename" => epochTmp = newEpoch[a]
        /\ pc[a] = "e_store" => epochFile = newEpoch[a]
        /\ pc[a] \in Revoking => target[a] \in revoked
        /\ pc[a] = "r_rename" => revokedTmp = revoked

SerialInv ==
    /\ StoreSerial
    /\ \A v \in Validators :
        /\ "mass" \in vdead[v] => token[vtok[v]].epoch < epoch /\ vpc[v] = "epoch"
        /\ "acked" \in vdead[v] => vtok[v] \in revoked /\ vpc[v] \in {"epoch", "revoked"}

-----------------------------------------------------------------------------
\* The abstract promise counts revocations that were acknowledged.
Dead == {t \in Issued : DeadBecause(t) \ {"returned"} # {}}
OutcomeOf(v) == IF vpc[v] = "idle" THEN "none"
                ELSE IF Passed(v) THEN "accepted"
                ELSE IF vdead[v] \ {"returned"} # {} THEN "doomed" ELSE "open"

Promise == INSTANCE RevocationPromise WITH
    dead <- Dead, outcome <- [v \in Validators |-> OutcomeOf(v)]

\* The pipeline, the epoch and the revocation list implement that promise.
KeepsPromise == Promise!PromiseSpec
=============================================================================
