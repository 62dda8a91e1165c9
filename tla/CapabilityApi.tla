---------------------------- MODULE CapabilityApi ----------------------------
(***************************************************************************)
(* elastos-server/src/api/handlers/capability.rs: the shell approves,      *)
(* denies and revokes requests; every handler touches the pending store    *)
(* and the capability manager one after the other, with nothing that makes *)
(* the two changes one.                                                    *)
(*                                                                         *)
(* The manager is seen through three of its operations (grant, revoke,     *)
(* revoke_all), each one step: how they are made of smaller ones is        *)
(* CapabilityManager's subject.  A handler that answers with an error and  *)
(* changes nothing is no step.                                             *)
(***************************************************************************)
EXTENDS PendingRequests

CONSTANTS Shells,      \* concurrent shell-only handler calls
          Unminted,    \* a token not minted
          MaxEpoch,    \* bound on mass revocations
          MaxFaults    \* bound on advance_epoch calls that fail to persist

ASSUME ApiBoundsAssumption == MaxEpoch \in Nat /\ MaxFaults \in Nat
ASSUME UnmintedAssumption == Unminted \notin Nat

VARIABLES
    epoch,       \* the manager's current epoch
    minted,      \* the epoch each token was minted at
    revoked,     \* the manager's revoked tokens
    spc, sreq, stok,   \* where each handler is, its request and its token
    faults,
    handed,      \* <<request, token>> pairs answered as granted
    denials,     \* requests whose denial was answered as successful
    ended,       \* tokens a revocation answered as successful should have ended
    atMass,      \* tokens handed out before each mass revocation in progress
    crossed      \* requests granted across a mass revocation

authority == <<epoch, minted, revoked>>
handlers == <<spc, sreq, stok>>
answers == <<handed, denials, ended, atMass, crossed>>
apiVars == <<authority, handlers, faults, answers>>
vars == <<pendingVars, apiVars>>

Live(t) == minted[t] # Unminted /\ minted[t] >= epoch /\ t \notin revoked

Init ==
    /\ PendingInit
    /\ epoch = 0 /\ revoked = {}
    /\ minted = [t \in RequestTokens |-> Unminted]
    /\ spc = [p \in Shells |-> "idle"]
    /\ sreq = [p \in Shells |-> NoRequest]
    /\ stok = [p \in Shells |-> NoToken]
    /\ faults = 0
    /\ handed = {} /\ denials = {} /\ ended = {} /\ crossed = {}
    /\ atMass = [p \in Shells |-> {}]

TypeOK ==
    /\ PendingTypeOK
    /\ epoch \in Nat /\ revoked \in SUBSET RequestTokens
    /\ minted \in [RequestTokens -> Nat \cup {Unminted}]
    /\ spc \in [Shells -> {"idle", "record", "revoke", "mark", "massmark"}]
    /\ sreq \in [Shells -> Ids \cup {NoRequest}]
    /\ stok \in [Shells -> RequestTokens \cup {NoToken}]
    /\ faults \in Nat
    /\ handed \in SUBSET (Ids \X RequestTokens)
    /\ denials \in SUBSET Ids /\ ended \in SUBSET RequestTokens
    /\ atMass \in [Shells -> SUBSET RequestTokens]
    /\ crossed \in SUBSET Ids
    /\ \A p \in Shells : spc[p] \in {"record", "revoke", "mark"} =>
          sreq[p] \in Ids /\ stok[p] \in RequestTokens

Enter(p, at, i, t) == /\ spc' = [spc EXCEPT ![p] = at]
                      /\ sreq' = [sreq EXCEPT ![p] = i]
                      /\ stok' = [stok EXCEPT ![p] = t]
Answer(p) == Enter(p, "idle", NoRequest, NoToken)

-----------------------------------------------------------------------------
(* grant_request: look, mint, record *)

\* The request is looked at and the token minted with no lock held; a look that
\* is outdated by the time of the mint is one whose record will fail.
ApproveMint(p, i, t) ==
    /\ spc[p] = "idle" /\ i \in Stored /\ IsPending(i)
    /\ minted[t] = Unminted
    /\ minted' = [minted EXCEPT ![t] = epoch]
    /\ Enter(p, "record", i, t)
    /\ crossed' = IF \E q \in Shells : spc[q] = "massmark" THEN crossed \cup {i} ELSE crossed
    /\ UNCHANGED <<pendingVars, epoch, revoked, faults, handed, denials, ended, atMass>>

ApproveRecord(p) ==
    /\ spc[p] = "record"
    /\ GrantRequest(sreq[p], stok[p])
    /\ handed' = IF MayGrant(sreq[p]) THEN handed \cup {<<sreq[p], stok[p]>>} ELSE handed
    /\ Answer(p)
    /\ UNCHANGED <<index, now, creation, authority, faults, denials, ended, atMass, crossed>>

-----------------------------------------------------------------------------
(* deny_request, revoke_capability, revoke_all_capabilities *)

Deny(p, i) ==
    /\ spc[p] = "idle"
    /\ DenyRequest(i)
    /\ denials' = denials \cup {i}
    /\ UNCHANGED <<index, now, creation, authority, handlers, faults, handed, ended,
                   atMass, crossed>>

RevokeLook(p, i) ==
    /\ spc[p] = "idle" /\ i \in Stored /\ IsGranted(i)
    /\ Enter(p, "revoke", i, requests[i].token)
    /\ UNCHANGED <<pendingVars, authority, faults, answers>>

\* Mutant: the record is marked, the token not revoked.
RevokeToken_none(p) ==
    /\ spc[p] = "revoke"
    /\ Enter(p, "mark", sreq[p], stok[p])
    /\ UNCHANGED <<pendingVars, authority, faults, answers>>

RevokeToken(p) ==
    /\ spc[p] = "revoke"
    /\ revoked' = revoked \cup {stok[p]}
    /\ Enter(p, "mark", sreq[p], stok[p])
    /\ UNCHANGED <<pendingVars, epoch, minted, faults, answers>>

RevokeMark(p) ==
    /\ spc[p] = "mark"
    /\ RevokeRequest(sreq[p])
    /\ ended' = ended \cup {x[2] : x \in {y \in handed : y[1] = sreq[p]}}
    /\ Answer(p)
    /\ UNCHANGED <<index, now, creation, authority, faults, handed, denials, atMass, crossed>>

\* The epoch advances, unless it cannot be persisted: then it stays, and the
\* handler goes on all the same.
MassAdvance(p, persisted) ==
    /\ spc[p] = "idle"
    /\ IF persisted
         THEN epoch < MaxEpoch /\ epoch' = epoch + 1 /\ UNCHANGED faults
         ELSE faults < MaxFaults /\ faults' = faults + 1 /\ UNCHANGED epoch
    /\ Enter(p, "massmark", NoRequest, NoToken)
    /\ atMass' = [atMass EXCEPT ![p] = {x[2] : x \in handed}]
    /\ crossed' = crossed \cup {sreq[q] : q \in {r \in Shells : spc[r] = "record"}}
    /\ UNCHANGED <<pendingVars, minted, revoked, handed, denials, ended>>

MassMark(p) ==
    /\ spc[p] = "massmark"
    /\ RevokeAllGranted
    /\ ended' = ended \cup atMass[p]
    /\ atMass' = [atMass EXCEPT ![p] = {}]
    /\ Answer(p)
    /\ UNCHANGED <<index, now, creation, authority, faults, handed, denials, crossed>>

-----------------------------------------------------------------------------
Create == \E c \in Creators : CreateStep(c) /\ UNCHANGED apiVars

Tick == /\ now < MaxTime
        /\ now' = now + 1
        /\ UNCHANGED <<requests, index, creation, apiVars>>

ShellStep(p) ==
    \/ \E i \in Ids, t \in RequestTokens : ApproveMint(p, i, t)
    \/ ApproveRecord(p)
    \/ \E i \in Ids : Deny(p, i) \/ RevokeLook(p, i)
    \/ RevokeToken(p) \/ RevokeMark(p)
    \/ \E persisted \in BOOLEAN : MassAdvance(p, persisted)
    \/ MassMark(p)

Next == Create \/ Tick \/ \E p \in Shells : ShellStep(p)

Spec == Init /\ [][Next]_vars

-----------------------------------------------------------------------------
(* Properties *)

\* request_status, for the session the request belongs to.
StatusAnswer(i) == IF Expired(i) THEN "expired" ELSE requests[i].status

\* Two approvals of one request race to the record: each has minted a token,
\* one token is handed out (pending.rs:368).
OneTokenPerRequest ==
    \A x, y \in handed : x[1] = y[1] => x = y

\* A request is denied or granted, never both answered as done: an approval
\* that has minted its token loses to a denial that comes first.
DeniedNotHanded == \A x \in handed : x[1] \notin denials

\* After a revocation was answered as successful, what it was to end is dead.
\* Of mass revocations this holds when the epoch could be persisted.
RevokedIsDead == faults = 0 => \A t \in ended : ~Live(t)

\* ... and of all of them it is what the shell was told ("better to fail the
\* revocation than to have in-memory and on-disk diverge", store.rs:93).
SuccessfulRevocationsEnd == \A t \in ended : ~Live(t)

AtRest == \A p \in Shells : spc[p] = "idle"

\* With no handler under way, a stored request is listed as granted exactly if
\* its token is accepted -- unless it was granted while a mass revocation was
\* between the epoch and the records, or the epoch could not be persisted.
ListedIsActive ==
    (AtRest /\ faults = 0) =>
        \A x \in handed : x[1] \in Stored \ crossed => (IsGranted(x[1]) <=> Live(x[2]))

RefusalKept ==
    \A i \in Stored :
        StatusAnswer(i) \in {"denied", "expired"} /\ requests'[i] # Evicted
            => StatusAnswer(i)' # "granted"

\* What a session was told stays: after "denied" or "expired" it is not told
\* "granted", although the answer is computed from the clock and from statuses
\* that overwrite each other (capability.rs:187).
RefusalIsFinal == [][RefusalKept]_vars
=============================================================================
