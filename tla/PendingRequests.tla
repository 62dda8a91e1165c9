--------------------------- MODULE PendingRequests ---------------------------
(***************************************************************************)
(* elastos-runtime/src/capability/pending.rs: capability requests that     *)
(* wait for the shell's decision.  The requests and the per-session index  *)
(* are behind two locks; creating a request takes and releases them up to  *)
(* eight times, so a creation is a process of its own, one step per        *)
(* critical section.  The other operations hold one lock throughout and    *)
(* are operators that a handler uses in one step.                          *)
(*                                                                         *)
(* The store lives in memory only.  Request ids are fresh (UUIDs).         *)
(***************************************************************************)
EXTENDS Naturals, FiniteSets

CONSTANTS Ids,            \* request ids
          Sessions,
          Creators,       \* concurrent create_request calls
          RequestTokens,  \* tokens a grant can attach
          NoToken,
          NoRequest, NoSession,
          Unused, Evicted,     \* an id not created yet, a request removed
          MaxRequests,    \* MAX_PENDING_REQUESTS
          MaxPerSession,  \* MAX_PENDING_PER_SESSION
          Timeout,        \* timeout_secs
          MaxTime         \* bound on the clock

ASSUME LimitsAssumption ==
    /\ MaxRequests \in Nat \ {0} /\ MaxPerSession \in Nat \ {0}
    /\ Timeout \in Nat /\ MaxTime \in Nat
\* However many calls are served at once, they are finitely many.
ASSUME CreatorsAssumption == IsFiniteSet(Creators)
ASSUME NothingAssumption ==
    NoToken \notin RequestTokens /\ NoRequest \notin Ids /\ NoSession \notin Sessions
\* The id of a request and its session never change.
Request == [session : Sessions, at : Nat,
            status : {"pending", "granted", "denied", "expired"},
            token : RequestTokens \cup {NoToken}]
ASSUME MarkersAssumption ==
    Unused \notin Request /\ Evicted \notin Request /\ Unused # Evicted

VARIABLES
    requests,   \* PendingRequestStore.requests
    index,      \* PendingRequestStore.session_requests
    now,
    cpc,        \* where each creation is
    csession,   \* for whom
    cid,        \* the id it inserted
    cnow,       \* the time it last read
    swept       \* expired_ids, then removed

creation == <<cpc, csession, cid, cnow, swept>>
pendingVars == <<requests, index, now, creation>>

Stored == {i \in Ids : requests[i] \notin {Unused, Evicted}}
PendingIds == {i \in Stored : requests[i].status = "pending"}

PendingTypeOK ==
    /\ requests \in [Ids -> Request \cup {Unused, Evicted}]
    /\ index \in [Sessions -> SUBSET Ids]
    /\ now \in Nat
    /\ cpc \in [Creators -> {"idle", "find", "expire", "old", "unindex", "recheck",
                             "session", "insert", "index"}]
    /\ csession \in [Creators -> Sessions \cup {NoSession}]
    /\ cid \in [Creators -> Ids \cup {NoRequest}]
    /\ cnow \in [Creators -> Nat]
    /\ swept \in [Creators -> SUBSET Ids]
    /\ \A i \in Stored : requests[i].status = "granted" => requests[i].token # NoToken

PendingInit ==
    /\ requests = [i \in Ids |-> Unused]
    /\ index = [s \in Sessions |-> {}]
    /\ now = 0
    /\ cpc = [c \in Creators |-> "idle"]
    /\ csession = [c \in Creators |-> NoSession]
    /\ cid = [c \in Creators |-> NoRequest]
    /\ cnow = [c \in Creators |-> 0]
    /\ swept = [c \in Creators |-> {}]

\* is_expired: at the very second of expires_at it is.
Expired(i) == requests[i].at + Timeout <= now
IsPending(i) == requests[i].status = "pending" /\ ~Expired(i)
IsGranted(i) == requests[i].status = "granted"

WithStatus(S, status) ==
    [i \in Ids |-> IF i \in S THEN [requests[i] EXCEPT !.status = status] ELSE requests[i]]

-----------------------------------------------------------------------------
(* create_request_with_reason *)

Full == Cardinality(Stored) >= MaxRequests

GoOn(c, to) == /\ cpc' = [cpc EXCEPT ![c] = to]
               /\ UNCHANGED <<csession, cid>>

\* The creation ends; its locals are gone.
EndCreation(c) == /\ cpc' = [cpc EXCEPT ![c] = "idle"]
                  /\ csession' = [csession EXCEPT ![c] = NoSession]
                  /\ cid' = [cid EXCEPT ![c] = NoRequest]
                  /\ cnow' = [cnow EXCEPT ![c] = 0]
                  /\ swept' = [swept EXCEPT ![c] = {}]

BeginCreate(c, s) ==
    /\ cpc[c] = "idle"
    /\ cpc' = [cpc EXCEPT ![c] = IF Full THEN "find" ELSE "recheck"]
    /\ csession' = [csession EXCEPT ![c] = s]
    /\ UNCHANGED <<requests, index, now, cid, cnow, swept>>

\* cleanup_expired: find under the read lock, mark under the write lock.  The
\* mark does not look at the status again.  cleanup_old(0) then reads the clock.
FindExpired(c) ==
    /\ cpc[c] = "find"
    /\ swept' = [swept EXCEPT ![c] = {i \in PendingIds : Expired(i)}]
    /\ GoOn(c, "expire")
    /\ UNCHANGED <<requests, index, now, cnow>>

MarkExpired(c) ==
    /\ cpc[c] = "expire"
    /\ requests' = WithStatus(swept[c] \cap Stored, "expired")
    /\ cnow' = [cnow EXCEPT ![c] = now]
    /\ swept' = [swept EXCEPT ![c] = {}]
    /\ GoOn(c, "old")
    /\ UNCHANGED <<index, now>>

\* cleanup_old(0): every request with a decision, granted ones too, that is at
\* least a second old.
EvictOld(c) ==
    LET removed == {i \in Stored \ PendingIds : cnow[c] > requests[i].at}
    IN  /\ cpc[c] = "old"
        /\ requests' = [i \in Ids |-> IF i \in removed THEN Evicted ELSE requests[i]]
        /\ swept' = [swept EXCEPT ![c] = removed]
        /\ cnow' = [cnow EXCEPT ![c] = 0]
        /\ GoOn(c, IF removed = {} THEN "recheck" ELSE "unindex")
        /\ UNCHANGED <<index, now>>

\* Mutant: a session's whole entry goes when one of its requests does.
Unindex_entry(c) ==
    /\ cpc[c] = "unindex"
    /\ index' = [s \in Sessions |-> IF index[s] \cap swept[c] = {} THEN index[s] ELSE {}]
    /\ swept' = [swept EXCEPT ![c] = {}]
    /\ GoOn(c, "recheck")
    /\ UNCHANGED <<requests, now, cnow>>

Unindex(c) ==
    /\ cpc[c] = "unindex"
    /\ index' = [s \in Sessions |-> index[s] \ swept[c]]
    /\ swept' = [swept EXCEPT ![c] = {}]
    /\ GoOn(c, "recheck")
    /\ UNCHANGED <<requests, now, cnow>>

\* Mutant: no second look after the sweep.
Recheck_none(c) ==
    /\ cpc[c] = "recheck"
    /\ GoOn(c, "session")
    /\ UNCHANGED <<requests, index, now, cnow, swept>>

Recheck(c) ==
    /\ cpc[c] = "recheck"
    /\ IF Full THEN EndCreation(c) ELSE GoOn(c, "session") /\ UNCHANGED <<cnow, swept>>
    /\ UNCHANGED <<requests, index, now>>

\* The per-session limit counts what is not decided, expired or not.  The
\* request is then built (its clock read) before the write lock is awaited.
SessionCheck(c) ==
    /\ cpc[c] = "session"
    /\ IF Cardinality(index[csession[c]] \cap PendingIds) >= MaxPerSession
         THEN EndCreation(c)
         ELSE /\ GoOn(c, "insert")
              /\ cnow' = [cnow EXCEPT ![c] = now]
              /\ UNCHANGED swept
    /\ UNCHANGED <<requests, index, now>>

Insert(c, i) ==
    /\ cpc[c] = "insert" /\ requests[i] = Unused
    /\ requests' = [requests EXCEPT ![i] =
            [session |-> csession[c], at |-> cnow[c], status |-> "pending", token |-> NoToken]]
    /\ cpc' = [cpc EXCEPT ![c] = "index"]
    /\ cid' = [cid EXCEPT ![c] = i]
    /\ cnow' = [cnow EXCEPT ![c] = 0]
    /\ UNCHANGED <<index, now, csession, swept>>

PushIndex(c) ==
    /\ cpc[c] = "index"
    /\ index' = [index EXCEPT ![csession[c]] = @ \cup {cid[c]}]
    /\ EndCreation(c)
    /\ UNCHANGED <<requests, now>>

CreateStep(c) ==
    \/ \E s \in Sessions : BeginCreate(c, s)
    \/ FindExpired(c) \/ MarkExpired(c) \/ EvictOld(c) \/ Unindex(c)
    \/ Recheck(c) \/ SessionCheck(c)
    \/ \E i \in Ids : Insert(c, i)
    \/ PushIndex(c)

-----------------------------------------------------------------------------
(* Operations under one lock *)

\* Mutant: the clock is not looked at again.
MayGrant_late(i) == i \in PendingIds

\* Mutant: the status is not looked at again.
MayGrant_decided(i) == i \in Stored /\ ~Expired(i)

\* grant_request: the status and the clock are looked at again under the lock.
MayGrant(i) == i \in Stored /\ IsPending(i)

\* Mutant: the token is not kept.
GrantRequest_bare(i, t) ==
    requests' = IF MayGrant(i) THEN WithStatus({i}, "granted")
                ELSE WithStatus({i} \cap PendingIds, "expired")

GrantRequest(i, t) ==
    requests' = IF MayGrant(i)
                  THEN [requests EXCEPT ![i].status = "granted", ![i].token = t]
                  ELSE WithStatus({i} \cap PendingIds, "expired")

\* deny_request: an expired request can still be denied.
DenyRequest(i) == i \in PendingIds /\ requests' = WithStatus({i}, "denied")

\* Mutant: the records are left alone.
RevokeAllGranted_none == requests' = requests

\* revoke_request and revoke_all_granted.
RevokeRequest(i) == requests' = WithStatus({j \in Stored : j = i /\ IsGranted(j)}, "denied")
RevokeAllGranted == requests' = WithStatus({j \in Stored : IsGranted(j)}, "denied")

-----------------------------------------------------------------------------
(* Properties of the store *)

Beyond(c) == cpc[c] \in {"session", "insert"}

PendingOf(s) == {i \in PendingIds : requests[i].session = s}
Passed(s) == {c \in Creators : cpc[c] = "insert" /\ csession[c] = s}

StoreBound ==
    Cardinality(Stored) + Cardinality({c \in Creators : Beyond(c)})
        <= MaxRequests + Cardinality(Creators) - 1
SessionBound ==
    \A s \in Sessions : Cardinality(PendingOf(s)) + Cardinality(Passed(s))
        <= MaxPerSession + Cardinality(Creators) - 1

\* The guards and the insertion are apart, and so are the insertion and the index
\* that the second guard counts: calls that overlap can exceed the store's limit
\* and a session's (pending.rs:268, 287) -- by no more than all but one of them.
CapacityBound == StoreBound /\ SessionBound

\* Every undecided request whose creation has returned is in its session's
\* index, whatever sweeps ran meanwhile: the limit and the listing miss none.
IndexComplete ==
    \A i \in PendingIds :
        \/ i \in index[requests[i].session]
        \/ \E c \in Creators : cpc[c] = "index" /\ cid[c] = i

DecisionKept ==
    \A i \in Stored :
        /\ IsGranted(i) => requests'[i] = Evicted \/ requests'[i].status \in {"granted", "denied"}
        /\ i \notin PendingIds => requests'[i] = Evicted \/ requests'[i].status # "pending"
        /\ requests[i].status = "expired" =>
              requests'[i] = Evicted \/ requests'[i].status = "expired"

\* A grant stands against a sweep that was already under way when it was made
\* (pending.rs:456 overwrites without looking): it ends by revocation or by
\* eviction, never by expiring, and nothing that has a decision is open again.
DecisionsStand == [][DecisionKept]_pendingVars
=============================================================================
