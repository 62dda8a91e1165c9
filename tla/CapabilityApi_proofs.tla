------------------------ MODULE CapabilityApi_proofs ------------------------
(***************************************************************************)
(* What holds of the approvals, denials and revocations of the shell for   *)
(* any number of requests, sessions, tokens, creations and handlers.       *)
(***************************************************************************)
EXTENDS CapabilityApi, FiniteSetTheorems, TLAPS

-----------------------------------------------------------------------------
(* The pending store *)

\* What no step undoes: a created request stays created (if only as evicted),
\* and one that is decided is never open again.
Forward ==
    \A i \in Ids :
        /\ requests[i] # Unused => requests'[i] # Unused
        /\ (requests[i] # Unused /\ i \notin PendingIds) => i \notin PendingIds'

\* No request becomes granted, and a granted one keeps its token.
NoGrant ==
    \A i \in Ids : i \in Stored' /\ requests'[i].status = "granted" =>
        i \in Stored /\ requests[i].status = "granted" /\ requests'[i].token = requests[i].token

RequestsTyped ==
    /\ requests \in [Ids -> Request \cup {Unused, Evicted}]
    /\ \A i \in Stored : requests[i].status = "granted" => requests[i].token # NoToken

LEMMA StoredIsRequest ==
    ASSUME RequestsTyped, NEW i \in Stored
    PROVE  i \in Ids /\ requests[i] \in Request
BY DEF Stored, RequestsTyped

LEMMA StatusStep ==
    ASSUME RequestsTyped, NEW S, S \subseteq Stored, NEW st \in {"denied", "expired"},
           requests' = WithStatus(S, st)
    PROVE  RequestsTyped' /\ Forward /\ NoGrant
<1>1. \A i \in Ids : i \notin S => requests'[i] = requests[i]
  BY DEF WithStatus
<1>2. ASSUME NEW i \in S
      PROVE  /\ i \in Ids /\ requests[i] \in Request /\ requests'[i] \in Request
             /\ requests'[i].status = st
  <2>1. i \in Ids /\ requests[i] \in Request
    BY <1>2, StoredIsRequest
  <2>2. requests'[i] = [requests[i] EXCEPT !.status = st]
    BY <2>1 DEF WithStatus
  <2> QED BY <2>1, <2>2 DEF Request
<1>3. requests' \in [Ids -> Request \cup {Unused, Evicted}]
  BY <1>1, <1>2 DEF WithStatus, RequestsTyped
<1>4. \A i \in Ids : i \in S => i \in Stored /\ i \in Stored'
  BY <1>2, MarkersAssumption DEF Stored
<1>5. \A i \in Ids : i \notin S => (i \in Stored' <=> i \in Stored)
  BY <1>1 DEF Stored
<1>6. RequestsTyped'
  <2> SUFFICES ASSUME NEW i \in Stored', requests'[i].status = "granted"
               PROVE  requests'[i].token # NoToken
    BY <1>3 DEF RequestsTyped
  <2>1. i \in Ids
    BY DEF Stored
  <2>2. i \notin S
    BY <1>2
  <2> QED BY <1>1, <1>5, <2>1, <2>2 DEF RequestsTyped
<1>7. Forward
  BY <1>1, <1>2, <1>4, <1>5, MarkersAssumption DEF Forward, PendingIds
<1>8. NoGrant
  BY <1>1, <1>2, <1>4, <1>5 DEF NoGrant
<1> QED BY <1>6, <1>7, <1>8

LEMMA SameRequests ==
    ASSUME RequestsTyped, UNCHANGED requests
    PROVE  RequestsTyped' /\ Forward /\ NoGrant
BY DEF RequestsTyped, Forward, NoGrant, Stored, PendingIds

LEMMA EvictStep ==
    ASSUME RequestsTyped, NEW S,
           requests' = [i \in Ids |-> IF i \in S THEN Evicted ELSE requests[i]]
    PROVE  RequestsTyped' /\ Forward /\ NoGrant
<1>1. \A i \in Ids : i \notin S => requests'[i] = requests[i]
  OBVIOUS
<1>2. \A i \in Ids : i \in S => requests'[i] = Evicted
  OBVIOUS
<1>3. \A i \in Ids : i \in Stored' => i \notin S /\ i \in Stored
  BY <1>1, <1>2 DEF Stored
<1>4. requests' \in [Ids -> Request \cup {Unused, Evicted}]
  BY DEF RequestsTyped
<1>5. Forward
  BY <1>1, <1>2, <1>3, MarkersAssumption DEF Forward, PendingIds, Stored
<1> QED BY <1>1, <1>3, <1>4, <1>5 DEF RequestsTyped, NoGrant, Stored

LEMMA InsertStep ==
    ASSUME RequestsTyped, NEW i \in Ids, requests[i] = Unused,
           NEW r \in Request, r.status = "pending",
           requests' = [requests EXCEPT ![i] = r]
    PROVE  RequestsTyped' /\ Forward /\ NoGrant
<1>1. requests' \in [Ids -> Request \cup {Unused, Evicted}]
  BY DEF RequestsTyped
<1>2. requests'[i] = r /\ \A j \in Ids : j # i => requests'[j] = requests[j]
  BY DEF RequestsTyped
<1>3. \A j \in Ids : j # i => (j \in Stored' <=> j \in Stored)
  BY <1>2 DEF Stored
<1>4. RequestsTyped'
  BY <1>1, <1>2, <1>3 DEF RequestsTyped, Stored
<1>5. Forward
  BY <1>2, <1>3, MarkersAssumption DEF Forward, PendingIds
<1> QED BY <1>2, <1>3, <1>4, <1>5 DEF NoGrant

LEMMA GrantStep ==
    ASSUME RequestsTyped, NEW i \in Ids, NEW t \in RequestTokens, GrantRequest(i, t)
    PROVE  /\ RequestsTyped' /\ Forward
           /\ MayGrant(i) =>
                 /\ i \in PendingIds /\ requests'[i].token = t
                 /\ \A j \in Ids \ {i} : requests'[j] = requests[j]
           /\ ~MayGrant(i) => NoGrant
<1>1. CASE MayGrant(i)
  <2>1. i \in Stored /\ requests[i] \in Request /\ requests[i].status = "pending"
    BY <1>1, StoredIsRequest DEF MayGrant, IsPending
  <2>2. requests' = [requests EXCEPT ![i].status = "granted", ![i].token = t]
    BY <1>1 DEF GrantRequest
  <2>3. /\ requests'[i] \in Request /\ requests'[i].status = "granted"
        /\ requests'[i].token = t
        /\ \A j \in Ids \ {i} : requests'[j] = requests[j]
    BY <2>1, <2>2 DEF RequestsTyped, Request
  <2>4. requests' \in [Ids -> Request \cup {Unused, Evicted}]
    BY <2>2, <2>3 DEF RequestsTyped
  <2>5. i \in Stored' /\ \A j \in Ids \ {i} : j \in Stored' <=> j \in Stored
    BY <2>3, MarkersAssumption DEF Stored
  <2>6. RequestsTyped'
    BY <2>3, <2>4, <2>5, NothingAssumption DEF RequestsTyped, Stored
  <2>7. Forward
    BY <2>3, <2>5, MarkersAssumption DEF Forward, PendingIds
  <2> QED BY <1>1, <2>1, <2>3, <2>6, <2>7 DEF PendingIds
<1>2. CASE ~MayGrant(i)
  <2>1. requests' = WithStatus({i} \cap PendingIds, "expired")
    BY <1>2 DEF GrantRequest
  <2>2. {i} \cap PendingIds \subseteq Stored
    BY DEF PendingIds
  <2> QED BY <1>2, <2>1, <2>2, StatusStep
<1> QED BY <1>1, <1>2

\* Every other change of the requests grants none.
LEMMA OtherSteps ==
    ASSUME RequestsTyped,
           \/ \E i \in Ids : DenyRequest(i) \/ RevokeRequest(i)
           \/ RevokeAllGranted
    PROVE  RequestsTyped' /\ Forward /\ NoGrant
<1>1. ASSUME NEW i \in Ids, DenyRequest(i)
      PROVE  {i} \subseteq Stored /\ requests' = WithStatus({i}, "denied")
  BY <1>1 DEF DenyRequest, PendingIds
<1>2. CASE \E i \in Ids : RevokeRequest(i)
  <2>1. PICK i \in Ids : RevokeRequest(i)
    BY <1>2
  <2>2. {j \in Stored : j = i /\ IsGranted(j)} \subseteq Stored
    OBVIOUS
  <2> QED BY <2>1, <2>2, StatusStep DEF RevokeRequest
<1>3. CASE RevokeAllGranted
  <2>1. {j \in Stored : IsGranted(j)} \subseteq Stored
    OBVIOUS
  <2> QED BY <1>3, <2>1, StatusStep DEF RevokeAllGranted
<1> QED BY <1>1, <1>2, <1>3, StatusStep

\* A creation under way knows its session, and the id it inserted until that
\* is in the index.
CreatorsKnow ==
    \A c \in Creators : /\ cpc[c] # "idle" => csession[c] \in Sessions
                        /\ cpc[c] = "index" => cid[c] \in Ids

LEMMA CreatorsKnowStep ==
    ASSUME PendingTypeOK, CreatorsKnow, NEW c \in Creators, CreateStep(c)
    PROVE  CreatorsKnow'
<1> SUFFICES ASSUME NEW d \in Creators
             PROVE  /\ cpc'[d] # "idle" => csession'[d] \in Sessions
                    /\ cpc'[d] = "index" => cid'[d] \in Ids
  BY DEF CreatorsKnow
<1>1. /\ cpc[d] # "idle" => csession[d] \in Sessions
      /\ cpc[d] = "index" => cid[d] \in Ids
  BY DEF CreatorsKnow
<1> USE DEF PendingTypeOK
<1>2. CASE \E s \in Sessions : BeginCreate(c, s)
  BY <1>1, <1>2 DEF BeginCreate
<1>3. CASE FindExpired(c) \/ MarkExpired(c) \/ EvictOld(c) \/ Unindex(c)
  BY <1>1, <1>3 DEF FindExpired, MarkExpired, EvictOld, Unindex, GoOn
<1>4. CASE Recheck(c) \/ SessionCheck(c)
  BY <1>1, <1>4 DEF Recheck, SessionCheck, GoOn, EndCreation
<1>5. CASE \E i \in Ids : Insert(c, i)
  BY <1>1, <1>5 DEF Insert
<1>6. CASE PushIndex(c)
  BY <1>1, <1>6 DEF PushIndex, EndCreation
<1> QED BY <1>2, <1>3, <1>4, <1>5, <1>6 DEF CreateStep

LEMMA CreationTyped ==
    ASSUME PendingTypeOK, CreatorsKnow, NEW c \in Creators, CreateStep(c)
    PROVE  PendingTypeOK' /\ Forward /\ NoGrant
<1>0. RequestsTyped
  BY DEF PendingTypeOK, RequestsTyped
<1> DEFINE Locals == /\ cpc' \in [Creators -> {"idle", "find", "expire", "old", "unindex",
                                     "recheck", "session", "insert", "index"}]
                     /\ csession' \in [Creators -> Sessions \cup {NoSession}]
                     /\ cid' \in [Creators -> Ids \cup {NoRequest}]
                     /\ cnow' \in [Creators -> Nat]
                     /\ swept' \in [Creators -> SUBSET Ids]
                     /\ now' \in Nat
<1>same. ASSUME UNCHANGED requests, Locals, index' \in [Sessions -> SUBSET Ids]
         PROVE  PendingTypeOK' /\ Forward /\ NoGrant
  BY <1>0, <1>same, SameRequests DEF PendingTypeOK, RequestsTyped
<1>new. ASSUME RequestsTyped' /\ Forward /\ NoGrant, Locals, index' \in [Sessions -> SUBSET Ids]
        PROVE  PendingTypeOK' /\ Forward /\ NoGrant
  BY <1>new DEF PendingTypeOK, RequestsTyped
<1>1. ASSUME NEW s \in Sessions, BeginCreate(c, s)
      PROVE  PendingTypeOK' /\ Forward /\ NoGrant
  BY <1>1, <1>same DEF BeginCreate, PendingTypeOK
<1>2. CASE FindExpired(c)
  <2>1. {i \in PendingIds : Expired(i)} \subseteq Ids
    BY DEF PendingIds, Stored
  <2> QED BY <1>2, <2>1, <1>same DEF FindExpired, GoOn, PendingTypeOK
<1>3. CASE MarkExpired(c)
  <2>1. RequestsTyped' /\ Forward /\ NoGrant
    BY <1>0, <1>3, StatusStep DEF MarkExpired
  <2>2. Locals /\ index' \in [Sessions -> SUBSET Ids]
    BY <1>3 DEF MarkExpired, GoOn, PendingTypeOK
  <2> QED BY <2>1, <2>2, <1>new
<1>4. CASE EvictOld(c)
  <2>1. RequestsTyped' /\ Forward /\ NoGrant
    BY <1>0, <1>4, EvictStep DEF EvictOld
  <2>2. {i \in Stored \ PendingIds : cnow[c] > requests[i].at} \subseteq Ids
    BY DEF Stored
  <2>3. Locals /\ index' \in [Sessions -> SUBSET Ids]
    BY <1>4, <2>2 DEF EvictOld, GoOn, PendingTypeOK
  <2> QED BY <2>1, <2>3, <1>new
<1>5. CASE Unindex(c)
  BY <1>5, <1>same DEF Unindex, GoOn, PendingTypeOK
<1>6. CASE Recheck(c)
  BY <1>6, <1>same DEF Recheck, GoOn, EndCreation, PendingTypeOK
<1>7. CASE SessionCheck(c)
  BY <1>7, <1>same DEF SessionCheck, GoOn, EndCreation, PendingTypeOK
<1>8. ASSUME NEW i \in Ids, Insert(c, i)
      PROVE  PendingTypeOK' /\ Forward /\ NoGrant
  <2> DEFINE r == [session |-> csession[c], at |-> cnow[c], status |-> "pending",
                   token |-> NoToken]
  <2>1. r \in Request /\ r.status = "pending"
    BY <1>8 DEF Insert, CreatorsKnow, Request, PendingTypeOK
  <2>2. requests[i] = Unused /\ requests' = [requests EXCEPT ![i] = r]
    BY <1>8 DEF Insert
  <2>3. RequestsTyped' /\ Forward /\ NoGrant
    <3> HIDE DEF r
    <3> QED BY <1>0, <2>1, <2>2, InsertStep
  <2>4. Locals /\ index' \in [Sessions -> SUBSET Ids]
    BY <1>8 DEF Insert, PendingTypeOK
  <2> QED BY <2>3, <2>4, <1>new
<1>9. CASE PushIndex(c)
  <2>1. csession[c] \in Sessions /\ cid[c] \in Ids
    BY <1>9 DEF PushIndex, CreatorsKnow
  <2> QED BY <1>9, <2>1, <1>same DEF PushIndex, EndCreation, PendingTypeOK
<1> QED BY <1>1, <1>2, <1>3, <1>4, <1>5, <1>6, <1>7, <1>8, <1>9 DEF CreateStep

-----------------------------------------------------------------------------
(* The inductive invariant *)

\* What was answered about a request was decided, once.
DecidedOnce ==
    /\ \A i \in denials : requests[i] # Unused /\ i \notin PendingIds
    /\ \A x \in handed : requests[x[1]] # Unused /\ x[1] \notin PendingIds

\* A token is handed out with the grant that attaches it, after it was minted.
GrantsHanded ==
    /\ \A i \in Stored : IsGranted(i) => <<i, requests[i].token>> \in handed
    /\ \A x \in handed : minted[x[2]] # Unminted
    /\ \A t \in RequestTokens : minted[t] # Unminted => minted[t] \in Nat /\ minted[t] <= epoch

\* What a handler remembers is what it did.
HandlersKnow ==
    \A p \in Shells :
        /\ spc[p] = "record" => minted[stok[p]] # Unminted
        /\ spc[p] \in {"revoke", "mark"} => <<sreq[p], stok[p]>> \in handed
        /\ spc[p] = "mark" => stok[p] \in revoked

\* Tokens die at the epoch or at their revocation, before the answer.
Dead(t) == minted[t] # Unminted /\ ~Live(t)
EndedDead ==
    faults = 0 => \A t \in RequestTokens :
                     (t \in ended \/ \E p \in Shells : t \in atMass[p]) => Dead(t)

IInv == /\ TypeOK /\ CreatorsKnow
        /\ DecidedOnce /\ OneTokenPerRequest /\ DeniedNotHanded
        /\ GrantsHanded /\ HandlersKnow /\ EndedDead

LEMMA InitIInv == Init => IInv
<1> SUFFICES ASSUME Init PROVE IInv
  OBVIOUS
<1>1. Stored = {}
  BY DEF Init, PendingInit, Stored
<1>2. TypeOK
  BY <1>1 DEF Init, PendingInit, TypeOK, PendingTypeOK
<1>3. CreatorsKnow
  BY DEF Init, PendingInit, CreatorsKnow
<1> QED
  BY <1>1, <1>2, <1>3 DEF Init, IInv, DecidedOnce, OneTokenPerRequest, DeniedNotHanded,
     GrantsHanded, HandlersKnow, EndedDead

-----------------------------------------------------------------------------
(* Steps that hand nothing out and leave the authority alone or let it kill *)

\* What every step but a grant's record does to the answers and the requests
\* keeps what was decided decided.
LEMMA DecidedKept ==
    ASSUME TypeOK, DecidedOnce, OneTokenPerRequest, DeniedNotHanded, Forward,
           UNCHANGED <<handed, denials>>
    PROVE  DecidedOnce' /\ OneTokenPerRequest' /\ DeniedNotHanded'
<1>1. denials \subseteq Ids /\ \A x \in handed : x[1] \in Ids
  BY DEF TypeOK
<1>2. DecidedOnce'
  BY <1>1 DEF DecidedOnce, Forward
<1> QED BY <1>2 DEF OneTokenPerRequest, DeniedNotHanded

LEMMA GrantsKept ==
    ASSUME GrantsHanded, NoGrant, UNCHANGED <<handed, minted, epoch>>
    PROVE  GrantsHanded'
<1>1. ASSUME NEW i \in Stored', IsGranted(i)'
      PROVE  <<i, requests'[i].token>> \in handed'
  <2>1. i \in Ids
    BY DEF Stored
  <2> QED BY <1>1, <2>1 DEF IsGranted, NoGrant, GrantsHanded
<1> QED BY <1>1 DEF GrantsHanded

LEMMA PendingStep ==
    ASSUME IInv, PendingTypeOK', CreatorsKnow', Forward, NoGrant, UNCHANGED apiVars
    PROVE  IInv'
<1> USE DEF apiVars, authority, handlers, answers, IInv
<1>1. TypeOK'
  BY DEF TypeOK
<1>2. HandlersKnow'
  BY DEF HandlersKnow
<1>3. EndedDead'
  BY DEF EndedDead, Dead, Live
<1> QED BY <1>1, <1>2, <1>3, DecidedKept, GrantsKept

LEMMA CreateIInv == ASSUME IInv, Create PROVE IInv'
<1>1. PICK c \in Creators : CreateStep(c) /\ UNCHANGED apiVars
  BY DEF Create
<1>2. PendingTypeOK /\ CreatorsKnow
  BY DEF IInv, TypeOK
<1> QED BY <1>1, <1>2, CreationTyped, CreatorsKnowStep, PendingStep

\* PendingTypeOK and its companions when the creations do not move.
LEMMA RequestsOnly ==
    ASSUME PendingTypeOK, CreatorsKnow, RequestsTyped', UNCHANGED <<index, creation>>, now' \in Nat
    PROVE  PendingTypeOK' /\ CreatorsKnow'
BY DEF PendingTypeOK, CreatorsKnow, RequestsTyped, creation

LEMMA Typed == TypeOK => RequestsTyped /\ PendingTypeOK
BY DEF TypeOK, PendingTypeOK, RequestsTyped

LEMMA SameIInv ==
    ASSUME IInv, UNCHANGED <<requests, index, creation, apiVars>>, now' \in Nat
    PROVE  IInv'
<1>1. RequestsTyped' /\ Forward /\ NoGrant
  BY Typed, SameRequests DEF IInv
<1>2. PendingTypeOK' /\ CreatorsKnow'
  BY <1>1, Typed, RequestsOnly DEF IInv
<1> QED BY <1>1, <1>2, PendingStep

LEMMA TickIInv == ASSUME IInv, Tick PROVE IInv'
<1>1. now' \in Nat
  BY DEF Tick, IInv, TypeOK, PendingTypeOK
<1> QED BY <1>1, SameIInv DEF Tick

LEMMA StutterIInv == ASSUME IInv, UNCHANGED vars PROVE IInv'
<1>1. now' \in Nat
  BY DEF vars, pendingVars, IInv, TypeOK, PendingTypeOK
<1> QED BY <1>1, SameIInv DEF vars, pendingVars

-----------------------------------------------------------------------------
(* The handlers *)

\* The pending side of a handler's step.
LEMMA PendingSide ==
    ASSUME IInv, RequestsTyped', UNCHANGED <<index, now, creation>>
    PROVE  PendingTypeOK' /\ CreatorsKnow'
<1>1. PendingTypeOK /\ CreatorsKnow /\ now' \in Nat
  BY DEF IInv, TypeOK, PendingTypeOK
<1> QED BY <1>1, RequestsOnly

LEMMA DeadStays ==
    ASSUME TypeOK, epoch' \in Nat, epoch' >= epoch, revoked \subseteq revoked',
           NEW t \in RequestTokens, minted'[t] = minted[t], Dead(t)
    PROVE  Dead(t)'
<1>1. minted[t] \in Nat /\ epoch \in Nat
  BY DEF TypeOK, Dead
<1> QED BY <1>1 DEF Dead, Live

LEMMA ApproveMintIInv ==
    ASSUME IInv, NEW p \in Shells, NEW i \in Ids, NEW t \in RequestTokens, ApproveMint(p, i, t)
    PROVE  IInv'
<1> USE DEF IInv
<1>1. /\ minted[t] = Unminted /\ minted' = [minted EXCEPT ![t] = epoch]
      /\ UNCHANGED <<pendingVars, epoch, revoked, faults, handed, denials, ended, atMass>>
      /\ Enter(p, "record", i, t)
  BY DEF ApproveMint
<1>2. minted'[t] = epoch /\ \A u \in RequestTokens \ {t} : minted'[u] = minted[u]
  BY <1>1 DEF TypeOK
<1>3. RequestsTyped' /\ Forward /\ NoGrant
  BY <1>1, Typed, SameRequests DEF pendingVars
<1>4. PendingTypeOK' /\ CreatorsKnow'
  BY <1>1, <1>3, PendingSide DEF pendingVars
<1>5. TypeOK'
  <2>1. crossed' \in SUBSET Ids
    BY DEF ApproveMint, TypeOK
  <2> QED BY <1>1, <1>4, <2>1 DEF TypeOK, Enter
<1>6. DecidedOnce' /\ OneTokenPerRequest' /\ DeniedNotHanded'
  BY <1>1, <1>3, DecidedKept
<1>7. \A x \in handed : x[2] \in RequestTokens /\ x[2] # t
  BY <1>1 DEF GrantsHanded, TypeOK
<1>8. GrantsHanded'
  <2>1. \A j \in Stored' : IsGranted(j)' => <<j, requests'[j].token>> \in handed'
    BY <1>1 DEF GrantsHanded, Stored, IsGranted, pendingVars
  <2>2. \A x \in handed' : minted'[x[2]] # Unminted
    BY <1>1, <1>2, <1>7 DEF GrantsHanded
  <2>3. \A u \in RequestTokens : minted'[u] # Unminted => minted'[u] \in Nat /\ minted'[u] <= epoch'
    BY <1>1, <1>2 DEF GrantsHanded, TypeOK
  <2> QED BY <2>1, <2>2, <2>3 DEF GrantsHanded
<1>9. HandlersKnow'
  <2> SUFFICES ASSUME NEW q \in Shells
               PROVE  /\ spc'[q] = "record" => minted'[stok'[q]] # Unminted
                      /\ spc'[q] \in {"revoke", "mark"} => <<sreq'[q], stok'[q]>> \in handed'
                      /\ spc'[q] = "mark" => stok'[q] \in revoked'
    BY DEF HandlersKnow
  <2>1. CASE q = p
    BY <1>1, <1>2, <2>1, UnmintedAssumption DEF Enter, TypeOK
  <2>2. CASE q # p
    <3>1. spc'[q] = spc[q] /\ sreq'[q] = sreq[q] /\ stok'[q] = stok[q]
      BY <1>1, <2>2 DEF Enter, TypeOK
    <3>2. spc[q] = "record" => stok[q] \in RequestTokens /\ stok[q] # t
      BY <1>1 DEF HandlersKnow, TypeOK
    <3> QED BY <1>1, <1>2, <3>1, <3>2 DEF HandlersKnow
  <2> QED BY <2>1, <2>2
<1>10. EndedDead'
  <2>1. \A u \in RequestTokens : Dead(u) => u # t
    BY <1>1 DEF Dead
  <2>2. epoch' \in Nat /\ epoch' >= epoch /\ revoked \subseteq revoked'
    BY <1>1 DEF TypeOK
  <2> QED BY <1>1, <1>2, <2>1, <2>2, DeadStays DEF EndedDead
<1> QED BY <1>4, <1>5, <1>6, <1>8, <1>9, <1>10

\* What the handlers know survives a step of one of them that leaves the
\* mints alone and takes nothing back.
LEMMA HandlersKept ==
    ASSUME TypeOK, HandlersKnow, NEW p \in Shells, NEW at, NEW i, NEW t, Enter(p, at, i, t),
           UNCHANGED minted, handed \subseteq handed', revoked \subseteq revoked',
           at = "record" => minted[t] # Unminted,
           at \in {"revoke", "mark"} => <<i, t>> \in handed',
           at = "mark" => t \in revoked'
    PROVE  HandlersKnow'
<1> SUFFICES ASSUME NEW q \in Shells
             PROVE  /\ spc'[q] = "record" => minted'[stok'[q]] # Unminted
                    /\ spc'[q] \in {"revoke", "mark"} => <<sreq'[q], stok'[q]>> \in handed'
                    /\ spc'[q] = "mark" => stok'[q] \in revoked'
  BY DEF HandlersKnow
<1>1. CASE q = p
  BY <1>1 DEF Enter, TypeOK
<1>2. CASE q # p
  BY <1>2 DEF Enter, TypeOK, HandlersKnow
<1> QED BY <1>1, <1>2

LEMMA AnswerKept ==
    ASSUME TypeOK, HandlersKnow, NEW p \in Shells, Answer(p),
           UNCHANGED minted, handed \subseteq handed', revoked \subseteq revoked'
    PROVE  HandlersKnow'
BY HandlersKept DEF Answer

LEMMA ApproveRecordIInv ==
    ASSUME IInv, NEW p \in Shells, ApproveRecord(p)
    PROVE  IInv'
<1> USE DEF IInv
<1> DEFINE i == sreq[p]
           t == stok[p]
<1>1. /\ spc[p] = "record" /\ GrantRequest(i, t) /\ Answer(p)
      /\ handed' = IF MayGrant(i) THEN handed \cup {<<i, t>>} ELSE handed
      /\ UNCHANGED <<index, now, creation, authority, faults, denials, ended, atMass, crossed>>
  BY DEF ApproveRecord
<1>2. i \in Ids /\ t \in RequestTokens /\ minted[t] # Unminted
  BY <1>1 DEF TypeOK, HandlersKnow
<1> HIDE DEF i, t
<1>3. /\ RequestsTyped' /\ Forward
      /\ MayGrant(i) => /\ i \in PendingIds /\ requests'[i].token = t
                        /\ \A j \in Ids \ {i} : requests'[j] = requests[j]
      /\ ~MayGrant(i) => NoGrant
  BY <1>1, <1>2, Typed, GrantStep
<1>4. PendingTypeOK' /\ CreatorsKnow'
  BY <1>1, <1>3, PendingSide
<1>5. TypeOK'
  BY <1>1, <1>2, <1>4 DEF TypeOK, Answer, Enter, authority
<1>6. HandlersKnow'
  BY <1>1, AnswerKept DEF authority
<1>7. EndedDead'
  BY <1>1 DEF EndedDead, Dead, Live, authority
<1>8. CASE ~MayGrant(i)
  BY <1>1, <1>3, <1>4, <1>5, <1>6, <1>7, <1>8, DecidedKept, GrantsKept DEF authority
<1>9. CASE MayGrant(i)
  <2>1. handed' = handed \cup {<<i, t>>} /\ denials' = denials
    BY <1>1, <1>9
  <2>2. i \in PendingIds /\ requests[i] # Unused
    BY <1>3, <1>9 DEF PendingIds, Stored
  <2>3. i \notin denials /\ \A x \in handed : x[1] # i
    BY <2>2 DEF DecidedOnce
  <2>4. OneTokenPerRequest' /\ DeniedNotHanded'
    BY <2>1, <2>3 DEF OneTokenPerRequest, DeniedNotHanded
  <2>5. requests'[i] # Unused /\ i \notin PendingIds'
    <3>1. requests' = [requests EXCEPT ![i].status = "granted", ![i].token = t]
      BY <1>1, <1>9 DEF GrantRequest
    <3>2. requests[i] \in Request
      BY <2>2, StoredIsRequest, Typed DEF PendingIds
    <3>3. requests'[i].status = "granted"
      BY <1>2, <3>1, <3>2 DEF TypeOK, PendingTypeOK, Request
    <3> QED BY <1>2, <1>3, <2>2, <3>3 DEF Forward, PendingIds
  <2>6. denials \subseteq Ids /\ \A x \in handed : x[1] \in Ids
    BY DEF TypeOK
  <2>7. DecidedOnce'
    <3>1. \A j \in denials' : requests'[j] # Unused /\ j \notin PendingIds'
      BY <1>3, <2>1, <2>6 DEF DecidedOnce, Forward
    <3>2. \A x \in handed : requests'[x[1]] # Unused /\ x[1] \notin PendingIds'
      BY <1>3, <2>6 DEF DecidedOnce, Forward
    <3> QED BY <2>1, <2>5, <3>1, <3>2 DEF DecidedOnce
  <2>8. ASSUME NEW j \in Stored', IsGranted(j)'
        PROVE  <<j, requests'[j].token>> \in handed'
    <3>1. j \in Ids
      BY DEF Stored
    <3>2. CASE j = i
      BY <1>3, <1>9, <2>1, <3>2
    <3>3. CASE j # i
      BY <1>3, <1>9, <2>1, <2>8, <3>1, <3>3 DEF GrantsHanded, IsGranted, Stored
    <3> QED BY <3>2, <3>3
  <2>9. GrantsHanded'
    BY <1>1, <1>2, <2>1, <2>8 DEF GrantsHanded, authority
  <2> QED BY <1>4, <1>5, <1>6, <1>7, <2>4, <2>7, <2>9
<1> QED BY <1>8, <1>9

LEMMA DenyIInv ==
    ASSUME IInv, NEW p \in Shells, NEW i \in Ids, Deny(p, i)
    PROVE  IInv'
<1> USE DEF IInv
<1>1. /\ i \in PendingIds /\ requests' = WithStatus({i}, "denied")
      /\ denials' = denials \cup {i}
      /\ UNCHANGED <<index, now, creation, authority, handlers, faults, handed, ended,
                     atMass, crossed>>
  BY DEF Deny, DenyRequest
<1>2. RequestsTyped' /\ Forward /\ NoGrant
  BY Typed, OtherSteps DEF Deny
<1>3. PendingTypeOK' /\ CreatorsKnow'
  BY <1>1, <1>2, PendingSide
<1>4. TypeOK'
  BY <1>1, <1>3 DEF TypeOK, authority, handlers
<1>5. requests[i] # Unused /\ requests'[i].status = "denied"
  BY <1>1, StoredIsRequest, Typed DEF PendingIds, Stored, WithStatus, Request
<1>6. requests'[i] # Unused /\ i \notin PendingIds'
  BY <1>2, <1>5 DEF Forward, PendingIds
<1>7. DecidedOnce'
  <2>1. denials \subseteq Ids /\ \A x \in handed : x[1] \in Ids
    BY DEF TypeOK
  <2>2. \A j \in denials : requests'[j] # Unused /\ j \notin PendingIds'
    BY <1>2, <2>1 DEF DecidedOnce, Forward
  <2>3. \A x \in handed : requests'[x[1]] # Unused /\ x[1] \notin PendingIds'
    BY <1>2, <2>1 DEF DecidedOnce, Forward
  <2> QED BY <1>1, <1>6, <2>2, <2>3 DEF DecidedOnce
<1>8. OneTokenPerRequest' /\ DeniedNotHanded'
  BY <1>1 DEF DecidedOnce, OneTokenPerRequest, DeniedNotHanded
<1>9. GrantsHanded'
  BY <1>1, <1>2, GrantsKept DEF authority
<1>10. HandlersKnow' /\ EndedDead'
  BY <1>1 DEF HandlersKnow, EndedDead, Dead, Live, authority, handlers
<1> QED BY <1>3, <1>4, <1>7, <1>8, <1>9, <1>10

\* A handler's step that leaves requests, answers and mints alone.
LEMMA QuietStep ==
    ASSUME IInv, UNCHANGED <<pendingVars, epoch, minted, handed, denials>>
    PROVE  /\ PendingTypeOK' /\ CreatorsKnow'
           /\ DecidedOnce' /\ OneTokenPerRequest' /\ DeniedNotHanded' /\ GrantsHanded'
<1>1. RequestsTyped' /\ Forward /\ NoGrant
  BY Typed, SameRequests DEF IInv, pendingVars
<1>2. PendingTypeOK' /\ CreatorsKnow'
  BY <1>1, PendingSide DEF pendingVars
<1> QED BY <1>1, <1>2, DecidedKept, GrantsKept DEF IInv

LEMMA RevokeLookIInv ==
    ASSUME IInv, NEW p \in Shells, NEW i \in Ids, RevokeLook(p, i)
    PROVE  IInv'
<1> USE DEF IInv
<1> DEFINE t == requests[i].token
<1>1. /\ i \in Stored /\ IsGranted(i) /\ Enter(p, "revoke", i, t)
      /\ UNCHANGED <<pendingVars, authority, faults, answers>>
  BY DEF RevokeLook
<1>2. <<i, t>> \in handed
  BY <1>1 DEF GrantsHanded
<1>3. t \in RequestTokens
  BY <1>2 DEF TypeOK
<1> HIDE DEF t
<1>4. /\ PendingTypeOK' /\ CreatorsKnow'
      /\ DecidedOnce' /\ OneTokenPerRequest' /\ DeniedNotHanded' /\ GrantsHanded'
  BY <1>1, QuietStep DEF authority, answers
<1>5. TypeOK'
  BY <1>1, <1>3, <1>4 DEF TypeOK, Enter, authority, answers
<1>6. HandlersKnow'
  BY <1>1, <1>2, HandlersKept DEF authority, answers
<1>7. EndedDead'
  BY <1>1 DEF EndedDead, Dead, Live, authority, answers
<1> QED BY <1>4, <1>5, <1>6, <1>7

LEMMA RevokeTokenIInv ==
    ASSUME IInv, NEW p \in Shells, RevokeToken(p)
    PROVE  IInv'
<1> USE DEF IInv
<1>1. /\ spc[p] = "revoke" /\ revoked' = revoked \cup {stok[p]}
      /\ Enter(p, "mark", sreq[p], stok[p])
      /\ UNCHANGED <<pendingVars, epoch, minted, faults, answers>>
  BY DEF RevokeToken
<1>2. <<sreq[p], stok[p]>> \in handed /\ sreq[p] \in Ids /\ stok[p] \in RequestTokens
  BY <1>1 DEF HandlersKnow, TypeOK
<1>3. /\ PendingTypeOK' /\ CreatorsKnow'
      /\ DecidedOnce' /\ OneTokenPerRequest' /\ DeniedNotHanded' /\ GrantsHanded'
  BY <1>1, QuietStep DEF answers
<1>4. TypeOK'
  BY <1>1, <1>2, <1>3 DEF TypeOK, Enter, answers
<1>5. HandlersKnow'
  BY <1>1, <1>2, HandlersKept DEF answers
<1>6. epoch' \in Nat /\ epoch' >= epoch /\ revoked \subseteq revoked'
  BY <1>1 DEF TypeOK
<1>7. EndedDead'
  BY <1>1, <1>6, DeadStays DEF EndedDead, answers
<1> QED BY <1>3, <1>4, <1>5, <1>7

LEMMA RevokeMarkIInv ==
    ASSUME IInv, NEW p \in Shells, RevokeMark(p)
    PROVE  IInv'
<1> USE DEF IInv
<1> DEFINE given == {x[2] : x \in {y \in handed : y[1] = sreq[p]}}
<1>1. /\ spc[p] = "mark" /\ RevokeRequest(sreq[p]) /\ Answer(p)
      /\ ended' = ended \cup given
      /\ UNCHANGED <<index, now, creation, authority, faults, handed, denials, atMass, crossed>>
  BY DEF RevokeMark
<1>2. /\ sreq[p] \in Ids /\ <<sreq[p], stok[p]>> \in handed /\ stok[p] \in revoked
  BY <1>1 DEF HandlersKnow, TypeOK
\* It was handed one token only, the one this handler revoked.
<1>3. \A u \in given : u = stok[p] /\ u \in RequestTokens /\ Dead(u)
  <2> SUFFICES ASSUME NEW x \in handed, x[1] = sreq[p]
               PROVE  x[2] = stok[p] /\ x[2] \in RequestTokens /\ Dead(x[2])
    OBVIOUS
  <2>1. x = <<sreq[p], stok[p]>>
    BY <1>2 DEF OneTokenPerRequest
  <2> QED BY <1>2, <2>1 DEF Dead, Live, GrantsHanded, TypeOK
<1> HIDE DEF given
<1>4. RequestsTyped' /\ Forward /\ NoGrant
  BY <1>1, <1>2, Typed, OtherSteps
<1>5. PendingTypeOK' /\ CreatorsKnow'
  BY <1>1, <1>4, PendingSide
<1>6. TypeOK'
  BY <1>1, <1>3, <1>5 DEF TypeOK, Answer, Enter, authority
<1>7. HandlersKnow'
  BY <1>1, AnswerKept DEF authority
<1>8. EndedDead'
  BY <1>1, <1>3 DEF EndedDead, Dead, Live, authority
<1> QED BY <1>1, <1>4, <1>5, <1>6, <1>7, <1>8, DecidedKept, GrantsKept DEF authority

LEMMA MassAdvanceIInv ==
    ASSUME IInv, NEW p \in Shells, NEW persisted \in BOOLEAN, MassAdvance(p, persisted)
    PROVE  IInv'
<1> USE DEF IInv
<1> DEFINE all == {x[2] : x \in handed}
<1>1. /\ \/ epoch' = epoch + 1 /\ faults' = faults
         \/ epoch' = epoch /\ faults' = faults + 1
      /\ Enter(p, "massmark", NoRequest, NoToken)
      /\ atMass' = [atMass EXCEPT ![p] = all]
      /\ UNCHANGED <<pendingVars, minted, revoked, handed, denials, ended>>
  BY DEF MassAdvance
<1>2. epoch' \in Nat /\ epoch' >= epoch /\ faults \in Nat /\ faults' \in Nat
  BY <1>1 DEF TypeOK
<1>3. \A u \in all : /\ u \in RequestTokens /\ minted[u] # Unminted
                     /\ minted[u] \in Nat /\ minted[u] <= epoch
  BY DEF GrantsHanded, TypeOK
<1> HIDE DEF all
<1>4. RequestsTyped' /\ Forward /\ NoGrant
  BY <1>1, Typed, SameRequests DEF pendingVars
<1>5. PendingTypeOK' /\ CreatorsKnow'
  BY <1>1, <1>4, PendingSide DEF pendingVars
<1>6. TypeOK'
  <2>1. crossed' \in SUBSET Ids
    BY DEF MassAdvance, TypeOK
  <2>2. atMass' \in [Shells -> SUBSET RequestTokens]
    BY <1>1, <1>3 DEF TypeOK
  <2> QED BY <1>1, <1>2, <1>5, <2>1, <2>2 DEF TypeOK, Enter
<1>7. HandlersKnow'
  BY <1>1, HandlersKept
<1>8. GrantsHanded'
  <2>1. \A j \in Stored' : IsGranted(j)' => <<j, requests'[j].token>> \in handed'
    BY <1>1 DEF GrantsHanded, Stored, IsGranted, pendingVars
  <2>2. \A u \in RequestTokens : minted'[u] # Unminted => minted'[u] \in Nat /\ minted'[u] <= epoch'
    BY <1>1, <1>2 DEF GrantsHanded, TypeOK
  <2> QED BY <1>1, <2>1, <2>2 DEF GrantsHanded
<1>9. EndedDead'
  <2> SUFFICES ASSUME faults' = 0, NEW u \in RequestTokens,
                      u \in ended' \/ \E q \in Shells : u \in atMass'[q]
               PROVE  Dead(u)'
    BY DEF EndedDead
  <2>1. epoch' = epoch + 1 /\ faults = 0
    BY <1>1, <1>2
  <2>2. CASE u \in all
    <3>1. ~(minted'[u] >= epoch') /\ minted'[u] # Unminted
      BY <1>1, <1>2, <1>3, <2>1, <2>2 DEF TypeOK
    <3> QED BY <3>1 DEF Dead, Live
  <2>3. CASE u \notin all
    <3>1. Dead(u)
      BY <1>1, <2>1, <2>3 DEF EndedDead, TypeOK
    <3> QED BY <1>1, <1>2, <3>1, DeadStays
  <2> QED BY <2>2, <2>3
<1> QED BY <1>1, <1>4, <1>5, <1>6, <1>7, <1>8, <1>9, DecidedKept

LEMMA MassMarkIInv ==
    ASSUME IInv, NEW p \in Shells, MassMark(p)
    PROVE  IInv'
<1> USE DEF IInv
<1>1. /\ RevokeAllGranted /\ Answer(p) /\ ended' = ended \cup atMass[p]
      /\ atMass' = [atMass EXCEPT ![p] = {}]
      /\ UNCHANGED <<index, now, creation, authority, faults, handed, denials, crossed>>
  BY DEF MassMark
<1>2. RequestsTyped' /\ Forward /\ NoGrant
  BY <1>1, Typed, OtherSteps
<1>3. PendingTypeOK' /\ CreatorsKnow'
  BY <1>1, <1>2, PendingSide
<1>4. TypeOK'
  BY <1>1, <1>3 DEF TypeOK, Answer, Enter, authority
<1>5. HandlersKnow'
  BY <1>1, AnswerKept DEF authority
<1>6. EndedDead'
  BY <1>1 DEF EndedDead, Dead, Live, authority, TypeOK
<1> QED BY <1>1, <1>2, <1>3, <1>4, <1>5, <1>6, DecidedKept, GrantsKept DEF authority

LEMMA NextIInv == ASSUME IInv, [Next]_vars PROVE IInv'
<1>1. ASSUME NEW p \in Shells, ShellStep(p)
      PROVE  IInv'
  BY <1>1, ApproveMintIInv, ApproveRecordIInv, DenyIInv, RevokeLookIInv, RevokeTokenIInv,
     RevokeMarkIInv, MassAdvanceIInv, MassMarkIInv DEF ShellStep
<1> QED BY <1>1, CreateIInv, TickIInv, StutterIInv DEF Next

LEMMA AlwaysIInv == Spec => []IInv
BY InitIInv, NextIInv, PTL DEF Spec

-----------------------------------------------------------------------------
(* Theorems *)

\* Every state of the pending store, the handlers and the answers is of its
\* type: a granted request has a token, a handler under way its request.
THEOREM ApprovalsTypeCorrect == Spec => []TypeOK
<1>1. IInv => TypeOK
  BY DEF IInv
<1> QED BY <1>1, AlwaysIInv, PTL

\* However many approvals race for a request, each with a token it minted, one
\* token is handed out for it (grant_request, pending.rs).
THEOREM OneTokenEver == Spec => []OneTokenPerRequest
<1>1. IInv => OneTokenPerRequest
  BY DEF IInv
<1> QED BY <1>1, AlwaysIInv, PTL

\* No request is answered both as denied and as granted.
THEOREM DenialsHold == Spec => []DeniedNotHanded
<1>1. IInv => DeniedNotHanded
  BY DEF IInv
<1> QED BY <1>1, AlwaysIInv, PTL

\* While every epoch could be persisted, what a revocation answered as
\* successful was to end is dead, whatever is approved meanwhile.
THEOREM EndedStaysDead == Spec => []RevokedIsDead
<1>1. IInv => RevokedIsDead
  BY DEF IInv, EndedDead, Dead, RevokedIsDead, TypeOK
<1> QED BY <1>1, AlwaysIInv, PTL

-----------------------------------------------------------------------------
(* What a step may do to one request *)

Move(i) ==
    \/ requests'[i].status = requests[i].status
    \/ requests'[i].status = "expired" /\ ~IsGranted(i)
    \/ requests'[i].status = "denied" /\ requests[i].status # "expired"
    \/ requests'[i].status = "granted" /\ MayGrant(i)

Moves ==
    /\ \A i \in Stored : \/ requests'[i] = Evicted
                         \/ /\ requests'[i] # Unused /\ requests'[i].at = requests[i].at
                            /\ requests'[i].session = requests[i].session
                            /\ Move(i)
    /\ \A i \in Ids : requests[i] = Evicted => requests'[i] = Evicted
    /\ \A i \in Ids : requests[i] = Unused =>
          requests'[i] = Unused \/ \E c \in Creators : Insert(c, i)

\* A sweep marks what it found expired.  It was not granted then and cannot have
\* been since: a grant looks at the clock again.
SweptExpired ==
    \A c \in Creators : cpc[c] = "expire" =>
        \A i \in swept[c] : /\ requests[i] # Unused
                            /\ i \in Stored => Expired(i) /\ ~IsGranted(i)

LEMMA MovesStatus ==
    ASSUME RequestsTyped, NEW S, S \subseteq Stored, NEW st \in {"denied", "expired"},
           requests' = WithStatus(S, st),
           \A i \in S : IF st = "expired" THEN ~IsGranted(i) ELSE requests[i].status # "expired"
    PROVE  Moves
<1>1. ASSUME NEW i \in S
      PROVE  /\ requests'[i].at = requests[i].at /\ requests'[i].status = st
             /\ requests'[i].session = requests[i].session
             /\ requests'[i] # Unused
  BY <1>1, StoredIsRequest, MarkersAssumption DEF WithStatus, Request
<1>2. \A i \in Ids : i \notin S => requests'[i] = requests[i]
  BY DEF WithStatus
<1>3. \A i \in Stored : i \in Ids /\ requests[i] # Evicted /\ requests[i] # Unused
  BY DEF Stored
<1>4. ASSUME NEW i \in S PROVE Move(i)
  BY <1>1, <1>4 DEF Move
<1>5. \A i \in Ids : i \notin S => Move(i)
  BY <1>2 DEF Move
<1> QED BY <1>1, <1>2, <1>3, <1>4, <1>5 DEF Moves

LEMMA MovesSame == ASSUME UNCHANGED requests PROVE Moves
BY DEF Moves, Move, Stored

LEMMA MovesEvict ==
    ASSUME NEW S, S \subseteq Stored,
           requests' = [i \in Ids |-> IF i \in S THEN Evicted ELSE requests[i]]
    PROVE  Moves
BY DEF Moves, Move, Stored

LEMMA MovesInsert ==
    ASSUME RequestsTyped, NEW c \in Creators, NEW i \in Ids, Insert(c, i)
    PROVE  Moves
<1>1. requests[i] = Unused
  BY DEF Insert
<1>2. \A j \in Ids : j # i => requests'[j] = requests[j]
  BY DEF RequestsTyped, Insert
<1> QED BY <1>1, <1>2, MarkersAssumption DEF Moves, Move, Stored

LEMMA MovesGrant ==
    ASSUME RequestsTyped, NEW i \in Ids, NEW t \in RequestTokens, GrantRequest(i, t)
    PROVE  Moves
<1>1. CASE MayGrant(i)
  <2>1. i \in Stored /\ requests[i] \in Request
    BY <1>1, StoredIsRequest DEF MayGrant
  <2>2. requests' = [requests EXCEPT ![i].status = "granted", ![i].token = t]
    BY <1>1 DEF GrantRequest
  <2>3. /\ requests'[i].at = requests[i].at /\ requests'[i].status = "granted"
        /\ requests'[i].session = requests[i].session /\ requests'[i] # Unused
        /\ \A j \in Ids : j # i => requests'[j] = requests[j]
    BY <2>1, <2>2, MarkersAssumption DEF RequestsTyped, Request
  <2> QED BY <1>1, <2>1, <2>3 DEF Moves, Move, Stored
<1>2. CASE ~MayGrant(i)
  <2>1. /\ requests' = WithStatus({i} \cap PendingIds, "expired")
        /\ {i} \cap PendingIds \subseteq Stored
        /\ \A j \in {i} \cap PendingIds : ~IsGranted(j)
    BY <1>2 DEF GrantRequest, PendingIds, IsGranted
  <2> QED BY <2>1, MovesStatus
<1> QED BY <1>1, <1>2

LEMMA StepMoves ==
    ASSUME IInv, SweptExpired, Next
    PROVE  Moves /\ now' >= now
<1>0. RequestsTyped /\ PendingTypeOK /\ now \in Nat
  BY Typed DEF IInv, PendingTypeOK
<1>1. ASSUME NEW c \in Creators, CreateStep(c)
      PROVE  Moves /\ now' >= now
  <2>1. CASE MarkExpired(c)
    <3>1. /\ swept[c] \cap Stored \subseteq Stored
          /\ \A i \in swept[c] \cap Stored : ~IsGranted(i)
          /\ requests' = WithStatus(swept[c] \cap Stored, "expired") /\ now' = now
      BY <2>1 DEF MarkExpired, SweptExpired
    <3> QED BY <1>0, <3>1, MovesStatus
  <2>2. CASE EvictOld(c)
    <3> DEFINE removed == {i \in Stored \ PendingIds : cnow[c] > requests[i].at}
    <3>1. /\ requests' = [i \in Ids |-> IF i \in removed THEN Evicted ELSE requests[i]]
          /\ now' = now /\ removed \subseteq Stored
      BY <2>2 DEF EvictOld
    <3> HIDE DEF removed
    <3> QED BY <1>0, <3>1, MovesEvict
  <2>3. CASE \E i \in Ids : Insert(c, i)
    <3>1. now' = now
      BY <2>3 DEF Insert
    <3> QED BY <1>0, <2>3, <3>1, MovesInsert
  <2>4. CASE \E s \in Sessions : BeginCreate(c, s)
    BY <1>0, <2>4, MovesSame DEF BeginCreate
  <2>5. CASE FindExpired(c) \/ Unindex(c) \/ Recheck(c) \/ SessionCheck(c) \/ PushIndex(c)
    BY <1>0, <2>5, MovesSame DEF FindExpired, Unindex, Recheck, SessionCheck, PushIndex
  <2> QED BY <1>1, <2>1, <2>2, <2>3, <2>4, <2>5 DEF CreateStep
<1>2. CASE Tick
  BY <1>0, <1>2, MovesSame DEF Tick
<1>3. ASSUME NEW p \in Shells, ShellStep(p)
      PROVE  Moves /\ now' >= now
  <2>1. CASE ApproveRecord(p)
    BY <1>0, <2>1, MovesGrant DEF ApproveRecord, IInv, TypeOK
  <2>2. ASSUME NEW i \in Ids, Deny(p, i)
        PROVE  Moves /\ now' >= now
    <3>1. {i} \subseteq Stored /\ requests[i].status # "expired"
      BY <2>2 DEF Deny, DenyRequest, PendingIds
    <3> QED BY <1>0, <2>2, <3>1, MovesStatus DEF Deny, DenyRequest
  <2>3. CASE RevokeMark(p) \/ MassMark(p)
    <3> DEFINE all == {j \in Stored : IsGranted(j)}
               one == {j \in Stored : j = sreq[p] /\ IsGranted(j)}
    <3>1. /\ all \subseteq Stored /\ \A j \in all : requests[j].status # "expired"
          /\ one \subseteq Stored /\ \A j \in one : requests[j].status # "expired"
      BY DEF IsGranted
    <3>2. /\ now' = now
          /\ requests' = WithStatus(all, "denied") \/ requests' = WithStatus(one, "denied")
      BY <2>3 DEF RevokeMark, MassMark, RevokeAllGranted, RevokeRequest
    <3> HIDE DEF all, one
    <3> QED BY <1>0, <3>1, <3>2, MovesStatus
  <2>4. CASE \/ \E i \in Ids, t \in RequestTokens : ApproveMint(p, i, t)
             \/ \E i \in Ids : RevokeLook(p, i)
             \/ RevokeToken(p)
             \/ \E persisted \in BOOLEAN : MassAdvance(p, persisted)
    BY <1>0, <2>4, MovesSame
       DEF ApproveMint, RevokeLook, RevokeToken, MassAdvance, pendingVars
  <2> QED BY <1>3, <2>1, <2>2, <2>3, <2>4 DEF ShellStep
<1> QED BY <1>1, <1>2, <1>3 DEF Next, Create

\* What follows for a request that stays stored, and for one that is gone.
LEMMA MovesMeaning ==
    ASSUME TypeOK, TypeOK', Moves, now' >= now, NEW i \in Stored, requests'[i] # Evicted
    PROVE  /\ Move(i) /\ requests'[i].at = requests[i].at
           /\ Expired(i) => Expired(i)'
<1>1. i \in Ids /\ requests[i] \in Request
  BY Typed, StoredIsRequest
<1>2. requests'[i].at = requests[i].at /\ Move(i)
  BY DEF Moves
<1>3. requests[i].at \in Nat /\ now \in Nat /\ now' \in Nat /\ Timeout \in Nat
  BY <1>1, LimitsAssumption DEF TypeOK, PendingTypeOK, Request
<1> QED BY <1>2, <1>3 DEF Expired

LEMMA SweptInit == Init => SweptExpired
BY DEF Init, PendingInit, SweptExpired

\* Which sweeps are about to mark after a step: those that were, and the one
\* that has just looked.
LEMMA SweptFrom ==
    ASSUME IInv, [Next]_vars, NEW c \in Creators, cpc'[c] = "expire"
    PROVE  \/ cpc[c] = "expire" /\ swept'[c] = swept[c]
           \/ swept'[c] = {i \in PendingIds : Expired(i)} /\ UNCHANGED <<requests, now>>
<1> USE DEF IInv, TypeOK, PendingTypeOK
<1>1. CASE UNCHANGED creation
  BY <1>1 DEF creation
<1>2. ASSUME NEW d \in Creators, CreateStep(d)
      PROVE  \/ cpc[c] = "expire" /\ swept'[c] = swept[c]
             \/ swept'[c] = {i \in PendingIds : Expired(i)} /\ UNCHANGED <<requests, now>>
  <2>1. CASE FindExpired(d)
    BY <2>1 DEF FindExpired, GoOn
  <2>2. CASE \E s \in Sessions : BeginCreate(d, s)
    BY <2>2 DEF BeginCreate
  <2>3. CASE MarkExpired(d) \/ EvictOld(d) \/ Unindex(d)
    BY <2>3 DEF MarkExpired, EvictOld, Unindex, GoOn
  <2>4. CASE Recheck(d) \/ SessionCheck(d) \/ PushIndex(d)
    BY <2>4 DEF Recheck, SessionCheck, PushIndex, GoOn, EndCreation
  <2>5. CASE \E i \in Ids : Insert(d, i)
    BY <2>5 DEF Insert
  <2> QED BY <1>2, <2>1, <2>2, <2>3, <2>4, <2>5 DEF CreateStep
<1>3. CASE Tick
  BY <1>1, <1>3 DEF Tick
<1>4. ASSUME NEW p \in Shells, ShellStep(p)
      PROVE  UNCHANGED creation
  BY <1>4 DEF ShellStep, ApproveMint, ApproveRecord, Deny, RevokeLook, RevokeToken, RevokeMark,
     MassAdvance, MassMark, pendingVars
<1>5. CASE UNCHANGED vars
  BY <1>1, <1>5 DEF vars, pendingVars
<1> QED BY <1>1, <1>2, <1>3, <1>4, <1>5 DEF Next, Create

LEMMA SweptNext == ASSUME IInv, SweptExpired, [Next]_vars PROVE SweptExpired'
<1> SUFFICES ASSUME NEW c \in Creators, cpc'[c] = "expire", NEW i \in swept'[c]
             PROVE  /\ requests'[i] # Unused
                    /\ i \in Stored' => Expired(i)' /\ ~IsGranted(i)'
  BY DEF SweptExpired
<1>1. IInv' /\ TypeOK /\ TypeOK' /\ RequestsTyped
  BY NextIInv, Typed DEF IInv
<1>2. CASE swept'[c] = {j \in PendingIds : Expired(j)} /\ UNCHANGED <<requests, now>>
  BY <1>2 DEF PendingIds, Stored, Expired, IsGranted
<1>3. CASE cpc[c] = "expire" /\ swept'[c] = swept[c] /\ Next
  <2>1. i \in Ids /\ requests[i] # Unused /\ (i \in Stored => Expired(i) /\ ~IsGranted(i))
    BY <1>1, <1>3 DEF SweptExpired, TypeOK, PendingTypeOK
  <2>2. Moves /\ now' >= now
    BY <1>3, StepMoves
  <2>3. CASE i \in Stored /\ requests'[i] # Evicted
    <3>1. Move(i) /\ Expired(i)' /\ ~MayGrant(i) /\ ~IsGranted(i)
      BY <1>1, <2>1, <2>2, <2>3, MovesMeaning DEF MayGrant, IsPending
    <3>2. ~IsGranted(i)'
      BY <3>1 DEF Move, IsGranted
    <3> QED BY <2>2, <2>3, <3>1, <3>2 DEF Moves
  <2>4. CASE requests'[i] = Evicted
    BY <2>4, MarkersAssumption DEF Stored
  <2>5. CASE i \notin Stored /\ requests'[i] # Evicted
    BY <2>1, <2>2, <2>5 DEF Stored, Moves
  <2> QED BY <2>3, <2>4, <2>5
<1>4. CASE UNCHANGED vars /\ swept'[c] = swept[c] /\ cpc[c] = "expire"
  BY <1>4 DEF vars, pendingVars, SweptExpired, Stored, Expired, IsGranted
<1> QED BY <1>2, <1>3, <1>4, SweptFrom

LEMMA AlwaysSwept == Spec => [](IInv /\ SweptExpired)
BY InitIInv, NextIInv, SweptInit, SweptNext, PTL DEF Spec

LEMMA SameMoves == ASSUME TypeOK, UNCHANGED vars PROVE Moves /\ now' >= now
BY MovesSame DEF vars, pendingVars, TypeOK, PendingTypeOK

LEMMA AlwaysMoves ==
    ASSUME IInv, SweptExpired, [Next]_vars
    PROVE  Moves /\ now' >= now /\ TypeOK /\ TypeOK'
BY StepMoves, SameMoves, NextIInv DEF IInv

\* A grant ends by revocation or eviction, never by a sweep that was already
\* under way when it was made, and no decided request is open again
\* (cleanup_expired marks without looking at the status again).
THEOREM DecisionsAlwaysStand == Spec => DecisionsStand
<1>1. ASSUME IInv, SweptExpired, [Next]_vars
      PROVE  DecisionKept
  <2> SUFFICES ASSUME NEW i \in Stored, requests'[i] # Evicted
               PROVE  /\ IsGranted(i) => requests'[i].status \in {"granted", "denied"}
                      /\ i \notin PendingIds => requests'[i].status # "pending"
                      /\ requests[i].status = "expired" => requests'[i].status = "expired"
    BY DEF DecisionKept
  <2>1. Move(i)
    BY <1>1, AlwaysMoves, MovesMeaning
  <2> QED BY <2>1 DEF Move, IsGranted, PendingIds, MayGrant, IsPending
<1>2. IInv /\ SweptExpired /\ [Next]_vars => [DecisionKept]_pendingVars
  BY <1>1
<1> QED BY <1>2, AlwaysSwept, PTL DEF Spec, DecisionsStand

\* Once a session was told that its request is denied or expired it is not told
\* that it is granted, though the answer is computed from a clock and from
\* statuses that several handlers overwrite (request_status).
THEOREM RefusalsFinal == Spec => RefusalIsFinal
<1>1. ASSUME IInv, SweptExpired, [Next]_vars
      PROVE  RefusalKept
  <2> SUFFICES ASSUME NEW i \in Stored, requests'[i] # Evicted,
                      StatusAnswer(i) \in {"denied", "expired"}, StatusAnswer(i)' = "granted"
               PROVE  FALSE
    BY DEF RefusalKept
  <2>1. Move(i) /\ (Expired(i) => Expired(i)')
    BY <1>1, AlwaysMoves, MovesMeaning
  <2>2. ~Expired(i)' /\ requests'[i].status = "granted"
    BY DEF StatusAnswer
  <2>3. ~Expired(i) /\ requests[i].status \in {"denied", "expired"}
    BY <2>1, <2>2 DEF StatusAnswer
  <2> QED BY <2>1, <2>2, <2>3 DEF Move, MayGrant, IsPending
<1> QED BY <1>1, AlwaysSwept, PTL DEF Spec, RefusalIsFinal

-----------------------------------------------------------------------------
(* The index of a session's requests *)

\* What a creation has inserted and not indexed yet is its session's, and what
\* a sweep is about to take out of the index is gone for good.
IndexInv ==
    /\ \A c \in Creators : cpc[c] = "index" =>
          /\ requests[cid[c]] # Unused
          /\ cid[c] \in Stored => requests[cid[c]].session = csession[c]
    /\ \A c \in Creators : cpc[c] = "unindex" => \A i \in swept[c] : requests[i] = Evicted
    /\ IndexComplete

LEMMA IndexInit == Init => IndexInv
BY DEF Init, PendingInit, IndexInv, IndexComplete, PendingIds, Stored

\* Nothing but a creation moves a creation.
LEMMA CreationMoves ==
    ASSUME [Next]_vars
    PROVE  UNCHANGED <<index, creation>> \/ \E d \in Creators : CreateStep(d)
<1>1. ASSUME NEW p \in Shells, ShellStep(p)
      PROVE  UNCHANGED <<index, creation>>
  BY <1>1 DEF ShellStep, ApproveMint, ApproveRecord, Deny, RevokeLook, RevokeToken, RevokeMark,
     MassAdvance, MassMark, pendingVars
<1> QED BY <1>1 DEF Next, Create, Tick, vars, pendingVars

\* Which creations are about to index after a step.
LEMMA IndexingFrom ==
    ASSUME TypeOK, [Next]_vars, NEW c \in Creators, cpc'[c] = "index"
    PROVE  /\ csession'[c] = csession[c]
           /\ \/ cpc[c] = "index" /\ cid'[c] = cid[c]
              \/ cid'[c] \in Ids /\ Insert(c, cid'[c])
<1> USE DEF TypeOK, PendingTypeOK
<1>1. CASE UNCHANGED <<index, creation>>
  BY <1>1 DEF creation
<1>2. ASSUME NEW d \in Creators, CreateStep(d)
      PROVE  /\ csession'[c] = csession[c]
             /\ \/ cpc[c] = "index" /\ cid'[c] = cid[c]
                \/ cid'[c] \in Ids /\ Insert(c, cid'[c])
  <2>1. CASE \E s \in Sessions : BeginCreate(d, s)
    BY <2>1 DEF BeginCreate
  <2>2. CASE FindExpired(d) \/ MarkExpired(d) \/ EvictOld(d) \/ Unindex(d)
    BY <2>2 DEF FindExpired, MarkExpired, EvictOld, Unindex, GoOn
  <2>3. CASE Recheck(d) \/ SessionCheck(d) \/ PushIndex(d)
    BY <2>3 DEF Recheck, SessionCheck, PushIndex, GoOn, EndCreation
  <2>4. ASSUME NEW i \in Ids, Insert(d, i)
        PROVE  /\ csession'[c] = csession[c]
               /\ \/ cpc[c] = "index" /\ cid'[c] = cid[c]
                  \/ cid'[c] \in Ids /\ Insert(c, cid'[c])
    <3>1. csession' = csession /\ cpc' = [cpc EXCEPT ![d] = "index"]
          /\ cid' = [cid EXCEPT ![d] = i]
      BY <2>4 DEF Insert
    <3>2. CASE d = c
      BY <2>4, <3>1, <3>2
    <3>3. CASE d # c
      BY <3>1, <3>3
    <3> QED BY <3>2, <3>3
  <2> QED BY <1>2, <2>1, <2>2, <2>3, <2>4 DEF CreateStep
<1> QED BY <1>1, <1>2, CreationMoves

\* Which sweeps are about to take ids out of the index after a step.
LEMMA UnindexingFrom ==
    ASSUME TypeOK, [Next]_vars, NEW c \in Creators, cpc'[c] = "unindex"
    PROVE  \/ cpc[c] = "unindex" /\ swept'[c] = swept[c]
           \/ \A i \in swept'[c] : requests'[i] = Evicted
<1> USE DEF TypeOK, PendingTypeOK
<1>1. CASE UNCHANGED <<index, creation>>
  BY <1>1 DEF creation
<1>2. ASSUME NEW d \in Creators, CreateStep(d)
      PROVE  \/ cpc[c] = "unindex" /\ swept'[c] = swept[c]
             \/ \A i \in swept'[c] : requests'[i] = Evicted
  <2>1. CASE \E s \in Sessions : BeginCreate(d, s)
    BY <2>1 DEF BeginCreate
  <2>2. CASE FindExpired(d) \/ MarkExpired(d) \/ Unindex(d)
    BY <2>2 DEF FindExpired, MarkExpired, Unindex, GoOn
  <2>3. CASE EvictOld(d)
    <3> DEFINE removed == {i \in Stored \ PendingIds : cnow[d] > requests[i].at}
    <3>1. /\ requests' = [i \in Ids |-> IF i \in removed THEN Evicted ELSE requests[i]]
          /\ swept' = [swept EXCEPT ![d] = removed]
          /\ \E to \in {"recheck", "unindex"} : cpc' = [cpc EXCEPT ![d] = to]
          /\ removed \subseteq Ids
      BY <2>3 DEF EvictOld, GoOn, Stored
    <3> HIDE DEF removed
    <3> QED BY <3>1
  <2>4. CASE Recheck(d) \/ SessionCheck(d) \/ PushIndex(d)
    BY <2>4 DEF Recheck, SessionCheck, PushIndex, GoOn, EndCreation
  <2>5. CASE \E i \in Ids : Insert(d, i)
    BY <2>5 DEF Insert
  <2> QED BY <1>2, <2>1, <2>2, <2>3, <2>4, <2>5 DEF CreateStep
<1> QED BY <1>1, <1>2, CreationMoves

\* What a step does to the index, and who goes on waiting to index.
LEMMA IndexMoves ==
    ASSUME TypeOK, [Next]_vars
    PROVE  \/ \E d \in Creators : Unindex(d) \/ PushIndex(d)
           \/ /\ UNCHANGED index
              /\ \A c \in Creators : cpc[c] = "index" => cpc'[c] = "index" /\ cid'[c] = cid[c]
<1> USE DEF TypeOK, PendingTypeOK
<1> DEFINE Waits == \A c \in Creators : cpc[c] = "index" => cpc'[c] = "index" /\ cid'[c] = cid[c]
<1>1. CASE UNCHANGED <<index, creation>>
  BY <1>1 DEF creation
<1>2. ASSUME NEW d \in Creators, CreateStep(d)
      PROVE  Unindex(d) \/ PushIndex(d) \/ (UNCHANGED index /\ Waits)
  <2>1. CASE \E s \in Sessions : BeginCreate(d, s)
    BY <2>1 DEF BeginCreate
  <2>2. CASE FindExpired(d) \/ MarkExpired(d) \/ EvictOld(d)
    BY <2>2 DEF FindExpired, MarkExpired, EvictOld, GoOn
  <2>3. CASE Recheck(d) \/ SessionCheck(d)
    BY <2>3 DEF Recheck, SessionCheck, GoOn, EndCreation
  <2>4. CASE \E i \in Ids : Insert(d, i)
    BY <2>4 DEF Insert
  <2> QED BY <1>2, <2>1, <2>2, <2>3, <2>4 DEF CreateStep
<1> QED BY <1>1, <1>2, CreationMoves

\* Where an undecided request comes from: it was one, or it was just inserted.
LEMMA PendingFrom ==
    ASSUME TypeOK, Moves, NEW i \in PendingIds'
    PROVE  \/ i \in PendingIds /\ requests'[i].session = requests[i].session
           \/ \E c \in Creators : Insert(c, i)
<1>1. /\ i \in Ids /\ requests'[i] # Unused /\ requests'[i] # Evicted
      /\ requests'[i].status = "pending"
  BY DEF PendingIds, Stored
<1>2. CASE i \in Stored
  BY <1>1, <1>2 DEF Moves, Move, PendingIds
<1>3. CASE i \notin Stored
  BY <1>1, <1>3 DEF Moves, Stored
<1> QED BY <1>2, <1>3

LEMMA IndexCompleteStep ==
    ASSUME IInv, IndexInv, Moves, [Next]_vars
    PROVE  IndexComplete'
<1> SUFFICES ASSUME NEW i \in PendingIds'
             PROVE  \/ i \in index'[requests'[i].session]
                    \/ \E c \in Creators : cpc'[c] = "index" /\ cid'[c] = i
  BY DEF IndexComplete
<1>0. TypeOK /\ CreatorsKnow
  BY DEF IInv
<1>1. CASE \E c \in Creators : Insert(c, i)
  BY <1>0, <1>1 DEF Insert, TypeOK, PendingTypeOK
<1>2. CASE i \in PendingIds /\ requests'[i].session = requests[i].session
  <2> DEFINE s == requests[i].session
  <2>0. s \in Sessions /\ i \in Stored
    BY <1>0, <1>2, Typed, StoredIsRequest DEF PendingIds, Request
  <2> HIDE DEF s
  <2>1. requests'[i].session = s
    BY <1>2 DEF s
  <2>2. i \in index[s] \/ \E c \in Creators : cpc[c] = "index" /\ cid[c] = i
    BY <1>2 DEF IndexInv, IndexComplete, s
  <2>3. ASSUME NEW d \in Creators, Unindex(d)
        PROVE  i \in index'[s] \/ \E c \in Creators : cpc'[c] = "index" /\ cid'[c] = i
    <3>1. i \notin swept[d]
      BY <2>0, <2>3 DEF IndexInv, Unindex, Stored
    <3>2. index'[s] = index[s] \ swept[d]
      BY <2>0, <2>3 DEF Unindex
    <3>3. \A c \in Creators : cpc[c] = "index" => cpc'[c] = "index" /\ cid'[c] = cid[c]
      BY <1>0, <2>3 DEF Unindex, GoOn, TypeOK, PendingTypeOK
    <3> QED BY <2>2, <3>1, <3>2, <3>3
  <2>4. ASSUME NEW d \in Creators, PushIndex(d)
        PROVE  i \in index'[s] \/ \E c \in Creators : cpc'[c] = "index" /\ cid'[c] = i
    <3>1. \A c \in Creators \ {d} : cpc'[c] = cpc[c] /\ cid'[c] = cid[c]
      BY <1>0, <2>4 DEF PushIndex, EndCreation, TypeOK, PendingTypeOK
    <3>2. cpc[d] = "index" /\ index' = [index EXCEPT ![csession[d]] = @ \cup {cid[d]}]
      BY <2>4 DEF PushIndex
    <3>3. index[s] \subseteq index'[s]
      BY <1>0, <2>0, <3>2 DEF TypeOK, PendingTypeOK
    <3>4. cid[d] = i => csession[d] = s
      BY <2>0, <3>2 DEF IndexInv, s
    <3>5. cid[d] = i => i \in index'[s]
      BY <1>0, <2>0, <3>2, <3>4 DEF TypeOK, PendingTypeOK
    <3> QED BY <2>2, <3>1, <3>3, <3>5
  <2> QED BY <1>0, <2>1, <2>2, <2>3, <2>4, IndexMoves
<1> QED BY <1>0, <1>1, <1>2, PendingFrom

LEMMA IndexNext == ASSUME IInv, IndexInv, Moves, [Next]_vars PROVE IndexInv'
<1>0. TypeOK /\ RequestsTyped /\ CreatorsKnow
  BY Typed DEF IInv
<1>1. ASSUME NEW c \in Creators, cpc'[c] = "index"
      PROVE  /\ requests'[cid'[c]] # Unused
             /\ cid'[c] \in Stored' => requests'[cid'[c]].session = csession'[c]
  <2>1. csession'[c] = csession[c]
    BY <1>0, <1>1, IndexingFrom
  <2>2. CASE cpc[c] = "index" /\ cid'[c] = cid[c]
    <3>1. cid[c] \in Ids /\ requests[cid[c]] # Unused
      BY <1>0, <2>2 DEF IndexInv, CreatorsKnow
    <3>2. CASE cid[c] \in Stored
      BY <2>1, <2>2, <3>1, <3>2, MarkersAssumption DEF IndexInv, Moves, Stored
    <3>3. CASE requests[cid[c]] = Evicted
      BY <2>2, <3>1, <3>3, MarkersAssumption DEF Moves, Stored
    <3> QED BY <3>1, <3>2, <3>3 DEF Stored
  <2>3. CASE cid'[c] \in Ids /\ Insert(c, cid'[c])
    <3> DEFINE r == [session |-> csession[c], at |-> cnow[c], status |-> "pending",
                     token |-> NoToken]
    <3>1. r \in Request
      BY <1>0, <2>3 DEF Insert, CreatorsKnow, Request, TypeOK, PendingTypeOK
    <3>2. requests'[cid'[c]] = r
      BY <1>0, <2>3 DEF Insert, RequestsTyped
    <3> QED BY <2>1, <3>1, <3>2, MarkersAssumption
  <2> QED BY <1>0, <1>1, <2>2, <2>3, IndexingFrom
<1>2. ASSUME NEW c \in Creators, cpc'[c] = "unindex", NEW i \in swept'[c]
      PROVE  requests'[i] = Evicted
  <2>1. CASE cpc[c] = "unindex" /\ swept'[c] = swept[c]
    BY <1>0, <1>2, <2>1 DEF IndexInv, Moves, TypeOK, PendingTypeOK
  <2> QED BY <1>0, <1>2, <2>1, UnindexingFrom
<1> QED BY <1>1, <1>2, IndexCompleteStep DEF IndexInv

\* An undecided request whose creation has returned is in its session's index,
\* however many sweeps evict and unindex meanwhile: neither the per-session
\* limit nor the listing misses one (create_request_with_reason, cleanup_old).
THEOREM IndexAlwaysComplete == Spec => []IndexComplete
<1>1. ASSUME IInv, SweptExpired, IndexInv, [Next]_vars
      PROVE  IndexInv'
  BY <1>1, AlwaysMoves, IndexNext
<1>2. IInv /\ SweptExpired /\ IndexInv /\ [Next]_vars => IndexInv'
  BY <1>1
<1>3. IndexInv => IndexComplete
  BY DEF IndexInv
<1> QED BY <1>2, <1>3, IndexInit, AlwaysSwept, PTL DEF Spec

-----------------------------------------------------------------------------
(* The capacity of the store *)

\* The creations that have looked at the capacity and not inserted yet.
Ahead == {c \in Creators : Beyond(c)}

CapacityInv == IsFiniteSet(Stored) /\ StoreBound

LEMMA AheadFinite ==
    /\ IsFiniteSet(Ahead) /\ Cardinality(Ahead) \in Nat
    /\ Cardinality(Creators) \in Nat /\ Cardinality(Ahead) <= Cardinality(Creators)
<1>1. Ahead \subseteq Creators
  BY DEF Ahead
<1> QED BY <1>1, CreatorsAssumption, FS_Subset, FS_CardinalityType

LEMMA CapacityInit == Init => CapacityInv
<1> SUFFICES ASSUME Init PROVE CapacityInv
  OBVIOUS
<1>1. Stored = {} /\ Ahead = {}
  BY DEF Init, PendingInit, Stored, Ahead, Beyond
<1>2. IsFiniteSet(Stored) /\ Cardinality(Stored) = 0 /\ Cardinality(Ahead) = 0
  BY <1>1, FS_EmptySet
<1> QED BY <1>2, AheadFinite, LimitsAssumption DEF CapacityInv, StoreBound, Ahead

\* Who passes the capacity guard in a step, and who inserts.
LEMMA AheadStep ==
    ASSUME TypeOK, [Next]_vars
    PROVE  \/ Ahead' \subseteq Ahead /\ \A c \in Creators, i \in Ids : ~Insert(c, i)
           \/ Ahead' \subseteq Creators /\ ~Full /\ UNCHANGED requests
           \/ \E c \in Ahead, i \in Ids : Insert(c, i) /\ Ahead' = Ahead \ {c}
<1> USE DEF TypeOK, PendingTypeOK
<1> DEFINE Goal == \/ Ahead' \subseteq Ahead /\ \A c \in Creators, i \in Ids : ~Insert(c, i)
                   \/ Ahead' \subseteq Creators /\ ~Full /\ UNCHANGED requests
                   \/ \E c \in Ahead, i \in Ids : Insert(c, i) /\ Ahead' = Ahead \ {c}
<1>1. CASE UNCHANGED <<index, creation>>
  BY <1>1 DEF creation, Insert, Ahead, Beyond
<1>2. ASSUME NEW d \in Creators, CreateStep(d)
      PROVE  Goal
  <2>0. ASSUME NEW to, to \notin {"session", "insert", "index"}, cpc' = [cpc EXCEPT ![d] = to]
        PROVE  Goal
    BY <2>0 DEF Ahead, Beyond, Insert
  <2>1. CASE \E s \in Sessions : BeginCreate(d, s)
    BY <2>0, <2>1 DEF BeginCreate
  <2>2. CASE FindExpired(d) \/ MarkExpired(d) \/ Unindex(d)
    BY <2>0, <2>2 DEF FindExpired, MarkExpired, Unindex, GoOn
  <2>3. CASE EvictOld(d)
    BY <2>0, <2>3 DEF EvictOld, GoOn
  <2>4. CASE Recheck(d)
    <3>1. CASE Full
      BY <2>0, <2>4, <3>1 DEF Recheck, EndCreation
    <3>2. CASE ~Full
      BY <2>4, <3>2 DEF Recheck, Ahead
    <3> QED BY <3>1, <3>2
  <2>5. CASE SessionCheck(d)
    <3>1. cpc[d] = "session" /\ (cpc' = [cpc EXCEPT ![d] = "idle"] \/ cpc' = [cpc EXCEPT ![d] = "insert"])
      BY <2>5 DEF SessionCheck, GoOn, EndCreation
    <3>2. requests' = requests
      BY <2>5 DEF SessionCheck
    <3>3. \A c \in Creators, i \in Ids : ~Insert(c, i)
      BY <3>1 DEF Insert
    <3> QED BY <3>1, <3>3 DEF Ahead, Beyond
  <2>6. CASE \E i \in Ids : Insert(d, i)
    <3>1. d \in Ahead /\ Ahead' = Ahead \ {d}
      BY <2>6 DEF Insert, Ahead, Beyond
    <3> QED BY <2>6, <3>1
  <2>7. CASE PushIndex(d)
    BY <2>0, <2>7 DEF PushIndex, EndCreation
  <2> HIDE DEF Goal
  <2> QED BY <1>2, <2>1, <2>2, <2>3, <2>4, <2>5, <2>6, <2>7 DEF CreateStep
<1> QED BY <1>1, <1>2, CreationMoves

LEMMA CapacityNext ==
    ASSUME IInv, CapacityInv, Moves, [Next]_vars
    PROVE  CapacityInv'
<1>0. TypeOK /\ RequestsTyped /\ IsFiniteSet(Stored) /\ StoreBound
  BY Typed DEF IInv, CapacityInv
<1> DEFINE n == Cardinality(Stored)
           a == Cardinality(Ahead)
           k == Cardinality(Creators)
           m == Cardinality(Stored')
           b == Cardinality(Ahead')
           Bounded == IsFiniteSet(Stored') /\ m + b <= MaxRequests + k - 1
<1>1. n \in Nat /\ a \in Nat /\ k \in Nat /\ n + a <= MaxRequests + k - 1
  BY <1>0, AheadFinite, FS_CardinalityType DEF StoreBound, Ahead
<1>2. b \in Nat /\ b <= k
  <2>1. Ahead' \subseteq Creators
    BY DEF Ahead
  <2> QED BY <2>1, CreatorsAssumption, FS_Subset, FS_CardinalityType
<1>3. SUFFICES Bounded
  BY DEF CapacityInv, StoreBound, Ahead
<1>m. MaxRequests \in Nat
  BY LimitsAssumption
<1>4. ASSUME Ahead' \subseteq Ahead, \A c \in Creators, i \in Ids : ~Insert(c, i)
      PROVE  Bounded
  <2>1. Stored' \subseteq Stored
    BY <1>4, MarkersAssumption DEF Moves, Stored
  <2>2. IsFiniteSet(Stored') /\ m \in Nat /\ m <= n
    BY <1>0, <2>1, FS_Subset, FS_CardinalityType
  <2>3. b <= a
    BY <1>4, AheadFinite, FS_Subset
  <2> HIDE DEF n, a, k, m, b
  <2>4. m + b <= MaxRequests + k - 1
    BY <1>1, <1>2, <1>m, <2>2, <2>3
  <2> QED BY <2>2, <2>4
<1>5. ASSUME ~Full, UNCHANGED requests
      PROVE  Bounded
  <2>1. Stored' = Stored /\ n < MaxRequests
    BY <1>1, <1>5, <1>m DEF Full, Stored
  <2>2. IsFiniteSet(Stored') /\ m = n
    BY <1>0, <2>1
  <2> HIDE DEF n, a, k, m, b
  <2>3. m + b <= MaxRequests + k - 1
    BY <1>1, <1>2, <1>m, <2>1, <2>2
  <2> QED BY <2>2, <2>3
<1>6. ASSUME NEW c \in Ahead, NEW i \in Ids, Insert(c, i), Ahead' = Ahead \ {c}
      PROVE  Bounded
  <2>1. Stored' \subseteq Stored \cup {i}
    BY <1>0, <1>6 DEF Insert, Stored, RequestsTyped
  <2> DEFINE U == Stored \cup {i}
  <2>2. IsFiniteSet(U) /\ (Cardinality(U) = n \/ Cardinality(U) = n + 1)
    <3>1. i \in Stored => U = Stored
      OBVIOUS
    <3>2. /\ IsFiniteSet(U)
          /\ i \notin Stored => Cardinality(U) = n + 1
      BY <1>0, FS_AddElement
    <3> QED BY <3>1, <3>2
  <2>3. IsFiniteSet(Stored') /\ m \in Nat /\ m <= Cardinality(U)
    <3> HIDE DEF U
    <3>1. Stored' \in SUBSET U
      BY <2>1 DEF U
    <3> QED BY <2>2, <3>1, FS_Subset, FS_CardinalityType
  <2>4. b = a - 1
    BY <1>6, AheadFinite, FS_RemoveElement
  <2> HIDE DEF n, a, k, m, b, U
  <2>5. m + b <= MaxRequests + k - 1
    BY <1>1, <1>2, <1>m, <2>2, <2>3, <2>4
  <2> QED BY <2>3, <2>5
<1> HIDE DEF Bounded
<1> QED BY <1>0, <1>4, <1>5, <1>6, AheadStep

-----------------------------------------------------------------------------
(* A session's limit *)

SessionInv == CapacityInv /\ SessionBound

\* The creations that have inserted a request and not indexed it yet.
Indexing == {c \in Creators : cpc[c] = "index"}

LEMMA CreatorsFinite ==
    ASSUME NEW S \in SUBSET Creators
    PROVE  IsFiniteSet(S) /\ Cardinality(S) \in Nat /\ Cardinality(S) <= Cardinality(Creators)
BY CreatorsAssumption, FS_Subset, FS_CardinalityType

\* Disjoint sets of creations are together no more than there are creations.
LEMMA CreatorsApart ==
    ASSUME NEW S \in SUBSET Creators, NEW T \in SUBSET Creators, S \cap T = {}
    PROVE  Cardinality(S) + Cardinality(T) <= Cardinality(Creators)
<1>1. IsFiniteSet(S) /\ IsFiniteSet(T) /\ Cardinality(S) \in Nat /\ Cardinality(T) \in Nat
  BY CreatorsFinite
<1>2. Cardinality(S \cup T) = Cardinality(S) + Cardinality(T)
  <2>1. Cardinality(S \cup T) = Cardinality(S) + Cardinality(T) - Cardinality(S \cap T)
    BY <1>1, FS_Union
  <2>2. Cardinality(S \cap T) = 0
    BY FS_EmptySet
  <2> QED BY <1>1, <2>1, <2>2
<1>3. Cardinality(S \cup T) <= Cardinality(Creators)
  BY CreatorsFinite
<1> QED BY <1>2, <1>3

LEMMA PendingOfFinite ==
    ASSUME IsFiniteSet(Stored), NEW s
    PROVE  IsFiniteSet(PendingOf(s)) /\ Cardinality(PendingOf(s)) \in Nat
<1>1. PendingOf(s) \in SUBSET Stored
  BY DEF PendingOf, PendingIds
<1> QED BY <1>1, FS_Subset, FS_CardinalityType

\* What the second guard does not count is about to be indexed.
LEMMA Uncounted ==
    ASSUME IsFiniteSet(Stored), IndexComplete, NEW s \in Sessions
    PROVE  Cardinality(PendingOf(s))
             <= Cardinality(index[s] \cap PendingIds) + Cardinality(Indexing)
<1> DEFINE counted == index[s] \cap PendingIds
           fresh == {cid[c] : c \in Indexing}
           f == [c \in Indexing |-> cid[c]]
<1>1. IsFiniteSet(Indexing) /\ Cardinality(Indexing) \in Nat
  BY CreatorsFinite DEF Indexing
<1>2. f \in Surjection(Indexing, fresh)
  BY DEF Surjection
<1>3. IsFiniteSet(fresh) /\ Cardinality(fresh) \in Nat /\ Cardinality(fresh) <= Cardinality(Indexing)
  <2> HIDE DEF f, fresh
  <2> QED BY <1>1, <1>2, FS_Surjection, FS_CardinalityType
<1>4. IsFiniteSet(counted) /\ Cardinality(counted) \in Nat
  <2>1. counted \in SUBSET Stored
    BY DEF PendingIds
  <2> HIDE DEF counted
  <2> QED BY <2>1, FS_Subset, FS_CardinalityType
<1>5. PendingOf(s) \in SUBSET (counted \cup fresh)
  BY DEF PendingOf, IndexComplete, Indexing
<1> HIDE DEF counted, fresh, f
<1>6. /\ IsFiniteSet(counted \cup fresh)
      /\ Cardinality(counted \cup fresh)
           = Cardinality(counted) + Cardinality(fresh) - Cardinality(counted \cap fresh)
  BY <1>3, <1>4, FS_Union
<1>7. Cardinality(counted \cap fresh) \in Nat
  <2>1. counted \cap fresh \in SUBSET counted
    OBVIOUS
  <2> QED BY <1>4, <2>1, FS_Subset, FS_CardinalityType
<1>8. Cardinality(PendingOf(s)) <= Cardinality(counted \cup fresh)
  BY <1>5, <1>6, FS_Subset
<1>9. Cardinality(PendingOf(s)) \in Nat
  BY PendingOfFinite
<1> QED BY <1>1, <1>3, <1>4, <1>6, <1>7, <1>8, <1>9 DEF counted

\* Who passes the second guard in a step, and who inserts.
LEMMA PassedStep ==
    ASSUME TypeOK, [Next]_vars, NEW s \in Sessions
    PROVE  \/ Passed(s)' \subseteq Passed(s) /\ \A c \in Creators, i \in Ids : ~Insert(c, i)
           \/ /\ UNCHANGED requests
              /\ ~(Cardinality(index[s] \cap PendingIds) >= MaxPerSession)
              /\ \E c \in Creators : cpc[c] = "session" /\ Passed(s)' \subseteq Passed(s) \cup {c}
           \/ \E c \in Creators, i \in Ids : Insert(c, i) /\ Passed(s)' = Passed(s) \ {c}
<1> USE DEF TypeOK, PendingTypeOK
<1> DEFINE Less == Passed(s)' \subseteq Passed(s) /\ \A c \in Creators, i \in Ids : ~Insert(c, i)
           Guarded == /\ UNCHANGED requests
                      /\ ~(Cardinality(index[s] \cap PendingIds) >= MaxPerSession)
                      /\ \E c \in Creators :
                           cpc[c] = "session" /\ Passed(s)' \subseteq Passed(s) \cup {c}
           Inserted == \E c \in Creators, i \in Ids : Insert(c, i) /\ Passed(s)' = Passed(s) \ {c}
<1>1. CASE UNCHANGED <<index, creation>>
  <2>1. UNCHANGED <<cpc, csession>>
    BY <1>1 DEF creation
  <2>2. ASSUME NEW c \in Creators, NEW i \in Ids PROVE ~Insert(c, i)
    BY <2>1 DEF Insert
  <2>3. Less
    BY <2>1, <2>2 DEF Passed
  <2> HIDE DEF Less, Guarded, Inserted
  <2> QED BY <2>3 DEF Less
<1>2. ASSUME NEW d \in Creators, CreateStep(d)
      PROVE  Less \/ Guarded \/ Inserted
  <2>0. ASSUME NEW to, to \notin {"insert", "index"}, cpc' = [cpc EXCEPT ![d] = to],
               \A c \in Creators \ {d} : csession'[c] = csession[c]
        PROVE  Less
    BY <2>0 DEF Passed, Insert
  <2>1. CASE \E t \in Sessions : BeginCreate(d, t)
    BY <2>0, <2>1 DEF BeginCreate
  <2>2. CASE FindExpired(d) \/ MarkExpired(d) \/ Unindex(d)
    BY <2>0, <2>2 DEF FindExpired, MarkExpired, Unindex, GoOn
  <2>3. CASE EvictOld(d)
    <3>1. csession' = csession /\ \E to \in {"recheck", "unindex"} : cpc' = [cpc EXCEPT ![d] = to]
      BY <2>3 DEF EvictOld, GoOn
    <3> QED BY <2>0, <3>1
  <2>4. CASE Recheck(d) \/ PushIndex(d)
    BY <2>0, <2>4 DEF Recheck, PushIndex, GoOn, EndCreation
  <2>5. CASE SessionCheck(d)
    <3>1. CASE Cardinality(index[csession[d]] \cap PendingIds) >= MaxPerSession
      BY <2>0, <2>5, <3>1 DEF SessionCheck, EndCreation
    <3>2. CASE ~(Cardinality(index[csession[d]] \cap PendingIds) >= MaxPerSession)
      <4>1. /\ cpc[d] = "session" /\ cpc' = [cpc EXCEPT ![d] = "insert"]
            /\ UNCHANGED <<requests, csession>>
        BY <2>5, <3>2 DEF SessionCheck, GoOn
      <4>2. CASE csession[d] = s
        <5>1. Passed(s)' \subseteq Passed(s) \cup {d}
          BY <4>1 DEF Passed
        <5> QED BY <3>2, <4>1, <4>2, <5>1
      <4>3. CASE csession[d] # s
        BY <4>1, <4>3 DEF Passed, Insert
      <4> QED BY <4>2, <4>3
    <3> QED BY <3>1, <3>2
  <2>6. ASSUME NEW i \in Ids, Insert(d, i) PROVE Inserted
    <3>1. Passed(s)' = Passed(s) \ {d}
      BY <2>6 DEF Insert, Passed
    <3> QED BY <2>6, <3>1
  <2> HIDE DEF Less, Guarded, Inserted
  <2> QED BY <1>2, <2>1, <2>2, <2>3, <2>4, <2>5, <2>6 DEF CreateStep
<1> HIDE DEF Less, Guarded, Inserted
<1>3. Less \/ Guarded \/ Inserted
  <2>1. UNCHANGED <<index, creation>> => Less \/ Guarded \/ Inserted
    BY <1>1 DEF Less, Guarded, Inserted
  <2> QED BY <1>2, <2>1, CreationMoves
<1> QED BY <1>3 DEF Less, Guarded, Inserted

LEMMA SessionBoundStep ==
    ASSUME IInv, IndexInv, SessionInv, CapacityInv', Moves, [Next]_vars, NEW s \in Sessions
    PROVE  Cardinality(PendingOf(s)') + Cardinality(Passed(s)')
             <= MaxPerSession + Cardinality(Creators) - 1
<1>0. TypeOK /\ RequestsTyped /\ IndexComplete /\ IsFiniteSet(Stored) /\ IsFiniteSet(Stored')
  BY Typed DEF IInv, IndexInv, SessionInv, CapacityInv
<1> DEFINE n == Cardinality(PendingOf(s))
           a == Cardinality(Passed(s))
           k == Cardinality(Creators)
           m == Cardinality(PendingOf(s)')
           b == Cardinality(Passed(s)')
           x == Cardinality(Indexing)
           h == Cardinality(index[s] \cap PendingIds)
<1>1. /\ IsFiniteSet(PendingOf(s)) /\ n \in Nat
      /\ n + a <= MaxPerSession + k - 1
  BY <1>0, PendingOfFinite DEF SessionInv, SessionBound
<1>2. IsFiniteSet(PendingOf(s)') /\ m \in Nat
  <2>1. PendingOf(s)' \in SUBSET Stored'
    BY DEF PendingOf, PendingIds
  <2> QED BY <1>0, <2>1, FS_Subset, FS_CardinalityType
<1>3. Passed(s) \in SUBSET Creators /\ Passed(s)' \in SUBSET Creators /\ Indexing \in SUBSET Creators
  BY DEF Passed, Indexing
<1>4. IsFiniteSet(Passed(s)) /\ a \in Nat /\ b \in Nat /\ k \in Nat /\ x \in Nat
  BY <1>3, CreatorsFinite
<1>5. MaxPerSession \in Nat
  BY LimitsAssumption
<1>6. ASSUME \A c \in Creators, i \in Ids : ~Insert(c, i)
      PROVE  m <= n
  <2>1. \A i \in PendingIds' : i \in PendingIds /\ requests'[i].session = requests[i].session
    <3>1. \A i \in PendingIds' : i \in Ids
      BY DEF PendingIds, Stored
    <3> QED BY <1>0, <1>6, <3>1, PendingFrom
  <2>2. PendingOf(s)' \in SUBSET PendingOf(s)
    BY <2>1 DEF PendingOf
  <2> QED BY <1>1, <2>2, FS_Subset
<1>7. CASE Passed(s)' \subseteq Passed(s) /\ \A c \in Creators, i \in Ids : ~Insert(c, i)
  <2>1. b <= a
    BY <1>4, <1>7, FS_Subset
  <2>2. m <= n
    BY <1>6, <1>7
  <2> HIDE DEF n, a, k, m, b
  <2>3. m + b <= MaxPerSession + k - 1
    BY <1>1, <1>2, <1>4, <1>5, <2>1, <2>2
  <2> QED BY <2>3 DEF m, b, k
<1>8. ASSUME NEW c \in Creators, UNCHANGED requests, cpc[c] = "session",
             ~(h >= MaxPerSession), Passed(s)' \subseteq Passed(s) \cup {c}
      PROVE  m + b <= MaxPerSession + k - 1
  <2>1. n <= h + x
    BY <1>0, Uncounted
  <2>2. h \in Nat
    <3>1. index[s] \cap PendingIds \in SUBSET Stored
      BY DEF PendingIds
    <3> QED BY <1>0, <3>1, FS_Subset, FS_CardinalityType
  <2>3. m = n
    BY <1>8 DEF PendingOf, PendingIds, Stored
  <2> DEFINE U == Passed(s) \cup {c}
  <2>4. U \in SUBSET Creators /\ U \cap Indexing = {}
    BY <1>3, <1>8 DEF Passed, Indexing
  <2>5. Cardinality(U) + x <= k
    <3> HIDE DEF U
    <3> QED BY <1>3, <2>4, CreatorsApart
  <2>6. b <= Cardinality(U) /\ Cardinality(U) \in Nat
    <3>1. Passed(s)' \in SUBSET U
      BY <1>8
    <3> HIDE DEF U
    <3> QED BY <2>4, <3>1, CreatorsFinite, FS_Subset
  <2> HIDE DEF n, a, k, m, b, x, h, U
  <2> QED BY <1>1, <1>2, <1>4, <1>5, <1>8, <2>1, <2>2, <2>3, <2>5, <2>6
<1>9. ASSUME NEW c \in Creators, NEW i \in Ids, Insert(c, i), Passed(s)' = Passed(s) \ {c}
      PROVE  m + b <= MaxPerSession + k - 1
  <2>1. /\ cpc[c] = "insert" /\ requests[i] = Unused
        /\ requests' = [requests EXCEPT ![i] = [session |-> csession[c], at |-> cnow[c],
                                                status |-> "pending", token |-> NoToken]]
    BY <1>9 DEF Insert
  <2>2. \A j \in Ids : j # i => requests'[j] = requests[j]
    BY <1>0, <2>1 DEF RequestsTyped
  <2>3. requests'[i].session = csession[c]
    BY <1>0, <2>1 DEF RequestsTyped
  <2>4. CASE csession[c] = s
    <3> DEFINE U == PendingOf(s) \cup {i}
    <3>1. PendingOf(s)' \in SUBSET U
      BY <2>2 DEF PendingOf, PendingIds, Stored
    <3>2. IsFiniteSet(U) /\ Cardinality(U) \in Nat /\ Cardinality(U) <= n + 1
      <4>1. /\ IsFiniteSet(U)
            /\ Cardinality(U) = IF i \in PendingOf(s) THEN n ELSE n + 1
        BY <1>1, FS_AddElement
      <4>2. n \in Nat
        BY <1>1
      <4> HIDE DEF n, U
      <4> QED BY <4>1, <4>2
    <3>3. m <= Cardinality(U)
      <4> HIDE DEF U
      <4> QED BY <3>1, <3>2, FS_Subset
    <3>4. b = a - 1
      <4>1. c \in Passed(s)
        BY <2>1, <2>4 DEF Passed
      <4> QED BY <1>4, <1>9, <4>1, FS_RemoveElement
    <3> HIDE DEF n, a, k, m, b, U
    <3> QED BY <1>1, <1>2, <1>4, <1>5, <3>2, <3>3, <3>4
  <2>5. CASE csession[c] # s
    <3>1. PendingOf(s)' \in SUBSET PendingOf(s)
      BY <2>2, <2>3, <2>5 DEF PendingOf, PendingIds, Stored
    <3>2. m <= n
      BY <1>1, <3>1, FS_Subset
    <3>3. b <= a
      <4>1. Passed(s)' \in SUBSET Passed(s)
        BY <1>9
      <4> QED BY <1>4, <4>1, FS_Subset
    <3> HIDE DEF n, a, k, m, b
    <3> QED BY <1>1, <1>2, <1>4, <1>5, <3>2, <3>3
  <2> QED BY <2>4, <2>5
<1> QED BY <1>0, <1>7, <1>8, <1>9, PassedStep

LEMMA SessionInit == Init => SessionInv
<1> SUFFICES ASSUME Init, NEW s \in Sessions
             PROVE  Cardinality(PendingOf(s)) + Cardinality(Passed(s))
                      <= MaxPerSession + Cardinality(Creators) - 1
  BY CapacityInit DEF SessionInv, SessionBound
<1>1. PendingOf(s) = {} /\ Passed(s) = {}
  BY DEF Init, PendingInit, PendingOf, PendingIds, Stored, Passed
<1>2. Cardinality(PendingOf(s)) = 0 /\ Cardinality(Passed(s)) = 0
  BY <1>1, FS_EmptySet
<1> QED BY <1>2, AheadFinite, LimitsAssumption

\* The guards, the insertion and the index are apart, so creations that overlap
\* can exceed the store's limit and a session's, by no more than the creations
\* that passed the guard: never more than all but one of those under way
\* (create_request_with_reason).
THEOREM CapacityAlwaysBounded == Spec => []CapacityBound
<1>1. ASSUME IInv, SweptExpired, IndexInv, SessionInv, [Next]_vars
      PROVE  IndexInv' /\ SessionInv'
  <2>1. Moves /\ IndexInv'
    BY <1>1, AlwaysMoves, IndexNext
  <2>2. CapacityInv'
    BY <1>1, <2>1, CapacityNext DEF SessionInv
  <2> QED BY <1>1, <2>1, <2>2, SessionBoundStep DEF SessionInv, SessionBound
<1>2. IInv /\ SweptExpired /\ IndexInv /\ SessionInv /\ [Next]_vars => IndexInv' /\ SessionInv'
  BY <1>1
<1>3. SessionInv => CapacityBound
  BY DEF SessionInv, CapacityInv, CapacityBound
<1> QED BY <1>2, <1>3, IndexInit, SessionInit, AlwaysSwept, PTL DEF Spec

-----------------------------------------------------------------------------
(* What is listed and what is accepted *)

\* A token is handed out for one request, and one handler at most has minted it
\* and not recorded it yet.
TokensOnce ==
    /\ \A x, y \in handed : x[2] = y[2] => x[1] = y[1]
    /\ \A p \in Shells : spc[p] = "record" =>
          /\ \A x \in handed : x[2] # stok[p]
          /\ \A q \in Shells : spc[q] = "record" /\ stok[q] = stok[p] => q = p

RevokedHanded == \A t \in revoked : \E x \in handed : x[2] = t

\* Between the epoch of a mass revocation and its records every token handed
\* out is dead, and what is being approved counts as crossed.
Massing == \E p \in Shells : spc[p] = "massmark"
MassInv == Massing =>
    /\ \A x \in handed : x[1] \notin crossed => ~Live(x[2])
    /\ \A p \in Shells : spc[p] = "record" => sreq[p] \in crossed

RecordLive == \A p \in Shells : spc[p] = "record" /\ sreq[p] \notin crossed => Live(stok[p])

\* A stored request is listed as granted if its token is live; one whose token
\* is not is about to be marked.
Marking(i) == \E p \in Shells : spc[p] = "mark" /\ sreq[p] = i
Listing ==
    \A x \in handed : x[1] \in Stored \ crossed =>
        /\ ~IsGranted(x[1]) => ~Live(x[2])
        /\ IsGranted(x[1]) => Live(x[2]) \/ Massing \/ Marking(x[1])

ActiveInv == /\ TokensOnce /\ RevokedHanded
             /\ faults = 0 => MassInv /\ RecordLive /\ Listing

LEMMA ActiveInit == Init => ActiveInv
BY DEF Init, PendingInit, ActiveInv, TokensOnce, RevokedHanded, MassInv, RecordLive, Listing

\* What was handed out stays listed as it is, unless it is evicted.
GrantsSame ==
    \A x \in handed : x[1] \in Stored' => x[1] \in Stored /\ (IsGranted(x[1])' <=> IsGranted(x[1]))

\* A step that changes no authority, records no token and moves no handler that
\* is between a revocation and its mark.
LEMMA SteadyActive ==
    ASSUME ActiveInv, GrantsSame, UNCHANGED <<authority, faults, handed, crossed>>,
           \A q \in Shells :
              \/ spc'[q] = spc[q] /\ sreq'[q] = sreq[q] /\ stok'[q] = stok[q]
              \/ spc[q] \notin {"mark", "massmark"} /\ spc'[q] \notin {"record", "massmark"}
    PROVE  ActiveInv'
<1> USE DEF authority
<1>1. Massing' <=> Massing
  BY DEF Massing
<1>2. \A i : Marking(i) => Marking(i)'
  BY DEF Marking
<1>3. TokensOnce' /\ RevokedHanded'
  BY DEF ActiveInv, TokensOnce, RevokedHanded
<1>4. \A t : Live(t)' <=> Live(t)
  BY DEF Live
<1>5. ASSUME faults = 0
      PROVE  MassInv' /\ RecordLive' /\ Listing'
  <2>1. MassInv /\ RecordLive /\ Listing
    BY <1>5 DEF ActiveInv
  <2>2. MassInv'
    BY <1>1, <1>4, <2>1 DEF MassInv
  <2>3. RecordLive'
    BY <1>4, <2>1 DEF RecordLive
  <2>4. Listing'
    BY <1>1, <1>2, <1>4, <2>1 DEF Listing, GrantsSame
  <2> QED BY <2>2, <2>3, <2>4
<1> QED BY <1>3, <1>5 DEF ActiveInv

LEMMA SameGrants == ASSUME UNCHANGED requests PROVE GrantsSame
BY DEF GrantsSame, Stored, IsGranted

\* A status that overwrites no grant and none of whose values is a grant.
LEMMA StatusGrantsSame ==
    ASSUME RequestsTyped, NEW S, S \subseteq Stored, NEW st \in {"denied", "expired"},
           requests' = WithStatus(S, st), \A x \in handed : x[1] \in S => ~IsGranted(x[1]),
           \A x \in handed : x[1] \in Ids
    PROVE  GrantsSame
<1>1. \A i \in Ids : i \notin S => requests'[i] = requests[i]
  BY DEF WithStatus
<1>2. \A i \in S : requests'[i].status = st
  BY StoredIsRequest DEF WithStatus, Request
<1> QED BY <1>1, <1>2 DEF GrantsSame, Stored, IsGranted

LEMMA CreateGrantsSame ==
    ASSUME IInv, SweptExpired, NEW c \in Creators, CreateStep(c)
    PROVE  GrantsSame
<1>0. RequestsTyped /\ \A x \in handed : x[1] \in Ids /\ requests[x[1]] # Unused
  BY Typed DEF IInv, TypeOK, DecidedOnce
<1>1. CASE MarkExpired(c)
  <2>1. /\ swept[c] \cap Stored \subseteq Stored
        /\ \A i \in swept[c] \cap Stored : ~IsGranted(i)
        /\ requests' = WithStatus(swept[c] \cap Stored, "expired")
    BY <1>1 DEF MarkExpired, SweptExpired
  <2> QED BY <1>0, <2>1, StatusGrantsSame
<1>2. CASE EvictOld(c)
  <2> DEFINE removed == {i \in Stored \ PendingIds : cnow[c] > requests[i].at}
  <2>1. requests' = [i \in Ids |-> IF i \in removed THEN Evicted ELSE requests[i]]
    BY <1>2 DEF EvictOld
  <2> HIDE DEF removed
  <2> QED BY <1>0, <2>1 DEF GrantsSame, Stored, IsGranted
<1>3. CASE \E i \in Ids : Insert(c, i)
  <2>1. PICK i \in Ids : Insert(c, i)
    BY <1>3
  <2>2. \A j \in Ids \ {i} : requests'[j] = requests[j]
    BY <1>0, <2>1 DEF Insert, RequestsTyped
  <2> QED BY <1>0, <2>1, <2>2 DEF Insert, GrantsSame, Stored, IsGranted
<1>4. CASE \E s \in Sessions : BeginCreate(c, s)
  BY <1>4, SameGrants DEF BeginCreate
<1>5. CASE FindExpired(c) \/ Unindex(c) \/ Recheck(c) \/ SessionCheck(c) \/ PushIndex(c)
  BY <1>5, SameGrants DEF FindExpired, Unindex, Recheck, SessionCheck, PushIndex
<1> QED BY <1>1, <1>2, <1>3, <1>4, <1>5 DEF CreateStep

LEMMA CreateActive ==
    ASSUME IInv, SweptExpired, ActiveInv, Create
    PROVE  ActiveInv'
<1>1. PICK c \in Creators : CreateStep(c) /\ UNCHANGED apiVars
  BY DEF Create
<1>2. GrantsSame
  BY <1>1, CreateGrantsSame
<1> QED BY <1>1, <1>2, SteadyActive DEF apiVars, handlers, answers

LEMMA TickActive == ASSUME ActiveInv, Tick PROVE ActiveInv'
BY SameGrants, SteadyActive DEF Tick, apiVars, handlers, answers

LEMMA StutterActive == ASSUME ActiveInv, UNCHANGED vars PROVE ActiveInv'
BY SameGrants, SteadyActive DEF vars, pendingVars, apiVars, handlers, answers

LEMMA DenyActive ==
    ASSUME IInv, ActiveInv, NEW p \in Shells, NEW i \in Ids, Deny(p, i)
    PROVE  ActiveInv'
<1>1. /\ {i} \subseteq Stored /\ i \in PendingIds /\ requests' = WithStatus({i}, "denied")
      /\ UNCHANGED <<authority, handlers, faults, handed, crossed>>
  BY DEF Deny, DenyRequest, PendingIds
<1>2. \A x \in handed : x[1] \in Ids /\ x[1] # i
  BY <1>1 DEF IInv, TypeOK, DecidedOnce
<1>3. GrantsSame
  BY <1>1, <1>2, StatusGrantsSame, Typed DEF IInv
<1> QED BY <1>1, <1>3, SteadyActive DEF handlers

LEMMA RevokeLookActive ==
    ASSUME IInv, ActiveInv, NEW p \in Shells, NEW i \in Ids, RevokeLook(p, i)
    PROVE  ActiveInv'
<1>1. /\ spc[p] = "idle" /\ Enter(p, "revoke", i, requests[i].token)
      /\ UNCHANGED <<pendingVars, authority, faults, answers>>
  BY DEF RevokeLook
<1>2. \A q \in Shells :
         \/ spc'[q] = spc[q] /\ sreq'[q] = sreq[q] /\ stok'[q] = stok[q]
         \/ spc[q] \notin {"mark", "massmark"} /\ spc'[q] \notin {"record", "massmark"}
  BY <1>1 DEF Enter, IInv, TypeOK
<1> QED BY <1>1, <1>2, SameGrants, SteadyActive DEF pendingVars, answers

-----------------------------------------------------------------------------
\* The other handlers stay where they are.
LEMMA OthersStay ==
    ASSUME TypeOK, NEW p \in Shells, NEW at, NEW i, NEW t, Enter(p, at, i, t)
    PROVE  /\ spc'[p] = at /\ sreq'[p] = i /\ stok'[p] = t
           /\ \A q \in Shells \ {p} : spc'[q] = spc[q] /\ sreq'[q] = sreq[q] /\ stok'[q] = stok[q]
BY DEF TypeOK, Enter

LEMMA ApproveMintActive ==
    ASSUME IInv, ActiveInv, NEW p \in Shells, NEW i \in Ids, NEW t \in RequestTokens,
           ApproveMint(p, i, t)
    PROVE  ActiveInv'
<1>1. /\ spc[p] = "idle" /\ minted[t] = Unminted /\ minted' = [minted EXCEPT ![t] = epoch]
      /\ UNCHANGED <<pendingVars, epoch, revoked, faults, handed>>
      /\ Enter(p, "record", i, t) /\ crossed \subseteq crossed' /\ (Massing => i \in crossed')
  BY DEF ApproveMint, Massing
<1>2. /\ spc'[p] = "record" /\ sreq'[p] = i /\ stok'[p] = t
      /\ \A q \in Shells \ {p} : spc'[q] = spc[q] /\ sreq'[q] = sreq[q] /\ stok'[q] = stok[q]
  BY <1>1, OthersStay DEF IInv
<1>3. \A x \in handed : x[2] # t
  BY <1>1 DEF IInv, GrantsHanded
<1>4. \A q \in Shells : spc[q] = "record" => stok[q] # t /\ stok[q] \in RequestTokens
  BY <1>1 DEF IInv, HandlersKnow, TypeOK
<1>5. t \notin revoked /\ epoch \in Nat /\ epoch # Unminted
  BY <1>3, UnmintedAssumption DEF ActiveInv, RevokedHanded, IInv, TypeOK
<1>6. minted'[t] = epoch /\ \A u \in RequestTokens \ {t} : minted'[u] = minted[u]
  BY <1>1 DEF IInv, TypeOK
<1>7. Live(t)' /\ \A u \in RequestTokens \ {t} : Live(u)' <=> Live(u)
  BY <1>1, <1>5, <1>6 DEF Live
<1>8. \A x \in handed : x[2] \in RequestTokens \ {t} /\ (Live(x[2])' <=> Live(x[2]))
  BY <1>3, <1>7 DEF IInv, TypeOK
<1>9. Massing' <=> Massing
  BY <1>1, <1>2 DEF Massing
<1>10. \A j : Marking(j) => Marking(j)'
  BY <1>1, <1>2 DEF Marking
<1>11. TokensOnce' /\ RevokedHanded'
  BY <1>1, <1>2, <1>3, <1>4 DEF ActiveInv, TokensOnce, RevokedHanded
<1>12. ASSUME faults = 0
       PROVE  MassInv' /\ RecordLive' /\ Listing'
  <2>1. MassInv /\ RecordLive /\ Listing
    BY <1>12 DEF ActiveInv
  <2>2. MassInv'
    BY <1>1, <1>2, <1>8, <1>9, <2>1 DEF MassInv
  <2>3. RecordLive'
    BY <1>1, <1>2, <1>4, <1>7, <2>1 DEF RecordLive
  <2>4. Listing'
    BY <1>1, <1>8, <1>9, <1>10, <2>1 DEF Listing, Stored, IsGranted, pendingVars
  <2> QED BY <2>2, <2>3, <2>4
<1> QED BY <1>1, <1>11, <1>12 DEF ActiveInv

LEMMA ApproveRecordActive ==
    ASSUME IInv, ActiveInv, NEW p \in Shells, ApproveRecord(p)
    PROVE  ActiveInv'
<1> DEFINE i == sreq[p]
           t == stok[p]
<1>1. /\ spc[p] = "record" /\ GrantRequest(i, t) /\ Enter(p, "idle", NoRequest, NoToken)
      /\ handed' = IF MayGrant(i) THEN handed \cup {<<i, t>>} ELSE handed
      /\ UNCHANGED <<authority, faults, crossed>>
  BY DEF ApproveRecord, Answer
<1>2. i \in Ids /\ t \in RequestTokens
  BY <1>1 DEF IInv, TypeOK
<1>3. /\ spc'[p] = "idle"
      /\ \A q \in Shells \ {p} : spc'[q] = spc[q] /\ sreq'[q] = sreq[q] /\ stok'[q] = stok[q]
  BY <1>1, OthersStay DEF IInv
<1>4. \A x \in handed : x[1] \in Ids /\ x[1] \notin PendingIds
  BY DEF IInv, TypeOK, DecidedOnce
<1>5. (spc[p] = "record") /\ (\A x \in handed : x[2] # t)
      /\ (\A q \in Shells \ {p} : spc[q] = "record" => stok[q] # t)
  BY <1>1 DEF ActiveInv, TokensOnce
<1>6. faults = 0 => (i \notin crossed => Live(t)) /\ (Massing => i \in crossed)
  BY <1>1 DEF ActiveInv, RecordLive, MassInv
<1> HIDE DEF i, t
<1>7. CASE ~MayGrant(i)
  <2>1. {i} \cap PendingIds \subseteq Stored /\ requests' = WithStatus({i} \cap PendingIds, "expired")
    BY <1>1, <1>7 DEF GrantRequest, PendingIds
  <2>2. GrantsSame
    BY <1>4, <2>1, StatusGrantsSame, Typed DEF IInv
  <2> QED BY <1>1, <1>3, <1>5, <1>7, <2>2, SteadyActive
<1>8. CASE MayGrant(i)
  <2>1. handed' = handed \cup {<<i, t>>}
    BY <1>1, <1>8
  <2>2. i \in PendingIds /\ \A j \in Ids \ {i} : requests'[j] = requests[j]
    BY <1>1, <1>2, <1>8, GrantStep, Typed DEF IInv
  <2>3. requests'[i].status = "granted"
    <3>1. requests' = [requests EXCEPT ![i].status = "granted", ![i].token = t]
      BY <1>1, <1>8 DEF GrantRequest
    <3>2. requests[i] \in Request /\ requests \in [Ids -> Request \cup {Unused, Evicted}]
      BY <2>2, StoredIsRequest, Typed DEF PendingIds, IInv, RequestsTyped
    <3> QED BY <1>2, <3>1, <3>2 DEF Request
  <2>4. TokensOnce'
    BY <1>3, <1>5, <2>1 DEF ActiveInv, TokensOnce
  <2>5. RevokedHanded'
    BY <1>1, <2>1 DEF ActiveInv, RevokedHanded, authority
  <2>6. \A u : Live(u)' <=> Live(u)
    BY <1>1 DEF Live, authority
  <2>7. (Massing' <=> Massing) /\ \A j : Marking(j) => Marking(j)'
    BY <1>3, <1>5 DEF Massing, Marking
  <2>8. ASSUME faults = 0
        PROVE  MassInv' /\ RecordLive' /\ Listing'
    <3>1. MassInv /\ RecordLive /\ Listing
      BY <2>8 DEF ActiveInv
    <3>2. MassInv'
      BY <1>1, <1>3, <1>6, <2>1, <2>6, <2>7, <2>8, <3>1 DEF MassInv
    <3>3. RecordLive'
      BY <1>1, <1>3, <2>6, <3>1 DEF RecordLive
    <3>4. ASSUME NEW x \in handed', x[1] \in (Stored \ crossed)'
          PROVE  /\ ~IsGranted(x[1])' => ~Live(x[2])'
                 /\ IsGranted(x[1])' => Live(x[2])' \/ Massing' \/ Marking(x[1])'
      <4>1. CASE x = <<i, t>>
        BY <1>1, <1>6, <2>3, <2>6, <2>8, <3>4, <4>1 DEF IsGranted
      <4>2. CASE x \in handed
        <5>1. x[1] \in Ids /\ x[1] # i
          BY <1>4, <2>2, <4>2
        <5>2. requests'[x[1]] = requests[x[1]] /\ x[1] \in Stored \ crossed
          BY <1>1, <2>2, <3>4, <5>1 DEF Stored
        <5> QED BY <2>6, <2>7, <3>1, <4>2, <5>2 DEF Listing, IsGranted
      <4> QED BY <2>1, <4>1, <4>2
    <3>5. Listing'
      BY <3>4 DEF Listing
    <3> QED BY <3>2, <3>3, <3>5
  <2> QED BY <1>1, <2>4, <2>5, <2>8 DEF ActiveInv
<1> QED BY <1>7, <1>8

LEMMA RevokeTokenActive ==
    ASSUME IInv, ActiveInv, NEW p \in Shells, RevokeToken(p)
    PROVE  ActiveInv'
<1>1. /\ spc[p] = "revoke" /\ revoked' = revoked \cup {stok[p]}
      /\ Enter(p, "mark", sreq[p], stok[p])
      /\ UNCHANGED <<requests, epoch, minted, faults, handed, crossed>>
  BY DEF RevokeToken, pendingVars, answers
<1>2. /\ spc'[p] = "mark" /\ sreq'[p] = sreq[p] /\ stok'[p] = stok[p]
      /\ \A q \in Shells \ {p} : spc'[q] = spc[q] /\ sreq'[q] = sreq[q] /\ stok'[q] = stok[q]
  BY <1>1, OthersStay DEF IInv
<1>3. <<sreq[p], stok[p]>> \in handed
  BY <1>1 DEF IInv, HandlersKnow
<1>4. \A t : (Live(t)' => Live(t)) /\ (t # stok[p] /\ Live(t) => Live(t)')
  BY <1>1 DEF Live
<1>5. Massing' <=> Massing
  BY <1>1, <1>2 DEF Massing
<1>6. \A j : Marking(j) => Marking(j)'
  BY <1>1, <1>2 DEF Marking
<1>7. TokensOnce' /\ RevokedHanded'
  <2>1. TokensOnce'
    BY <1>1, <1>2 DEF ActiveInv, TokensOnce
  <2>2. RevokedHanded'
    BY <1>1, <1>3 DEF ActiveInv, RevokedHanded
  <2> QED BY <2>1, <2>2
<1>8. ASSUME faults = 0
      PROVE  MassInv' /\ RecordLive' /\ Listing'
  <2>1. MassInv /\ RecordLive /\ Listing /\ TokensOnce
    BY <1>8 DEF ActiveInv
  <2>2. MassInv'
    BY <1>1, <1>2, <1>4, <1>5, <2>1 DEF MassInv
  <2>3. RecordLive'
    <3>1. \A q \in Shells : spc[q] = "record" => stok[q] # stok[p]
      BY <1>3, <2>1 DEF TokensOnce
    <3> QED BY <1>1, <1>2, <1>4, <2>1, <3>1 DEF RecordLive
  <2>4. \A x \in handed : x[2] = stok[p] => Marking(x[1])'
    <3>1. \A x \in handed : x[2] = stok[p] => x[1] = sreq[p]
      BY <1>3, <2>1 DEF TokensOnce
    <3> QED BY <1>2, <3>1 DEF Marking
  <2>5. Listing'
    BY <1>1, <1>4, <1>5, <1>6, <2>1, <2>4 DEF Listing, Stored, IsGranted
  <2> QED BY <2>2, <2>3, <2>5
<1> QED BY <1>1, <1>7, <1>8 DEF ActiveInv

\* Marking what is granted as denied leaves nothing of it granted.
LEMMA DeniedNow ==
    ASSUME RequestsTyped, NEW S, S \subseteq Stored, requests' = WithStatus(S, "denied")
    PROVE  /\ \A i \in S : ~IsGranted(i)'
           /\ \A i \in Ids \ S : requests'[i] = requests[i]
BY StoredIsRequest DEF WithStatus, IsGranted, Request

LEMMA RevokeMarkActive ==
    ASSUME IInv, ActiveInv, NEW p \in Shells, RevokeMark(p)
    PROVE  ActiveInv'
<1> DEFINE i == sreq[p]
           S == {j \in Stored : j = i /\ IsGranted(j)}
<1>1. /\ spc[p] = "mark" /\ requests' = WithStatus(S, "denied")
      /\ Enter(p, "idle", NoRequest, NoToken)
      /\ UNCHANGED <<authority, faults, handed, crossed>>
  BY DEF RevokeMark, RevokeRequest, Answer
<1>2. /\ spc'[p] = "idle"
      /\ \A q \in Shells \ {p} : spc'[q] = spc[q] /\ sreq'[q] = sreq[q] /\ stok'[q] = stok[q]
  BY <1>1, OthersStay DEF IInv
<1>3. <<i, stok[p]>> \in handed /\ stok[p] \in revoked
  BY <1>1 DEF IInv, HandlersKnow
<1>4. \A t : Live(t)' <=> Live(t)
  BY <1>1 DEF Live, authority
<1>5. /\ \A j \in S : ~IsGranted(j)'
      /\ \A j \in Ids \ S : requests'[j] = requests[j]
  <2>1. S \subseteq Stored
    OBVIOUS
  <2> HIDE DEF S
  <2> QED BY <1>1, <2>1, DeniedNow, Typed DEF IInv
<1>6. \A x \in handed : x[1] = i => ~Live(x[2])
  <2>1. \A x \in handed : x[1] = i => x[2] = stok[p]
    BY <1>3 DEF IInv, OneTokenPerRequest
  <2> QED BY <1>3, <2>1 DEF Live
<1>7. Massing' <=> Massing
  BY <1>1, <1>2 DEF Massing
<1>8. TokensOnce' /\ RevokedHanded'
  BY <1>1, <1>2 DEF ActiveInv, TokensOnce, RevokedHanded, authority
<1>9. ASSUME faults = 0
      PROVE  MassInv' /\ RecordLive' /\ Listing'
  <2>1. MassInv /\ RecordLive /\ Listing
    BY <1>9 DEF ActiveInv
  <2>2. MassInv'
    BY <1>1, <1>2, <1>4, <1>7, <2>1 DEF MassInv
  <2>3. RecordLive'
    BY <1>1, <1>2, <1>4, <2>1 DEF RecordLive
  <2>4. ASSUME NEW x \in handed, x[1] \in Stored' \ crossed
        PROVE  /\ ~IsGranted(x[1])' => ~Live(x[2])'
               /\ IsGranted(x[1])' => Live(x[2])' \/ Massing' \/ Marking(x[1])'
    <3>1. x[1] \in Ids
      BY DEF IInv, TypeOK
    <3>2. CASE x[1] = i
      <4>1. ~IsGranted(x[1])'
        <5>1. CASE x[1] \in S
          <6> HIDE DEF S
          <6> QED BY <1>5, <5>1
        <5>2. CASE x[1] \notin S
          <6>1. requests'[x[1]] = requests[x[1]]
            <7> HIDE DEF S
            <7> QED BY <1>5, <3>1, <5>2
          <6>2. x[1] \in Stored
            BY <2>4, <6>1 DEF Stored
          <6>3. ~IsGranted(x[1])
            BY <3>2, <5>2, <6>2
          <6> QED BY <6>1, <6>3 DEF IsGranted
        <5> QED BY <5>1, <5>2
      <4>2. ~Live(x[2])'
        BY <1>4, <1>6, <3>2
      <4> QED BY <4>1, <4>2
    <3>3. CASE x[1] # i
      <4>1. requests'[x[1]] = requests[x[1]] /\ x[1] \in Stored \ crossed
        BY <1>5, <2>4, <3>1, <3>3 DEF Stored
      <4>2. Marking(x[1]) => Marking(x[1])'
        BY <1>2, <3>3 DEF Marking
      <4> QED BY <1>4, <1>7, <2>1, <4>1, <4>2 DEF Listing, IsGranted
    <3> QED BY <3>2, <3>3
  <2>5. Listing'
    BY <1>1, <2>4 DEF Listing
  <2> QED BY <2>2, <2>3, <2>5
<1> QED BY <1>1, <1>8, <1>9 DEF ActiveInv

LEMMA MassAdvanceActive ==
    ASSUME IInv, ActiveInv, NEW p \in Shells, NEW persisted \in BOOLEAN, MassAdvance(p, persisted)
    PROVE  ActiveInv'
<1>1. /\ spc[p] = "idle" /\ Enter(p, "massmark", NoRequest, NoToken)
      /\ \/ epoch' = epoch + 1 /\ faults' = faults
         \/ epoch' = epoch /\ faults' = faults + 1
      /\ crossed' = crossed \cup {sreq[q] : q \in {r \in Shells : spc[r] = "record"}}
      /\ UNCHANGED <<requests, minted, revoked, handed>>
  BY DEF MassAdvance, pendingVars
<1>2. /\ spc'[p] = "massmark"
      /\ \A q \in Shells \ {p} : spc'[q] = spc[q] /\ sreq'[q] = sreq[q] /\ stok'[q] = stok[q]
  BY <1>1, OthersStay DEF IInv
<1>3. TokensOnce' /\ RevokedHanded'
  BY <1>1, <1>2 DEF ActiveInv, TokensOnce, RevokedHanded
<1>4. \A q \in Shells : spc'[q] = "record" => sreq'[q] \in crossed'
  BY <1>1, <1>2
<1>5. ASSUME faults' = 0
      PROVE  MassInv' /\ RecordLive' /\ Listing'
  <2>1. epoch' = epoch + 1
    BY <1>1, <1>5 DEF IInv, TypeOK
  <2>2. \A x \in handed : ~Live(x[2])'
    BY <1>1, <2>1 DEF IInv, TypeOK, GrantsHanded, Live
  <2>3. Massing'
    BY <1>2 DEF Massing
  <2> QED BY <1>1, <1>4, <2>2, <2>3 DEF MassInv, RecordLive, Listing
<1> QED BY <1>3, <1>5 DEF ActiveInv

LEMMA MassMarkActive ==
    ASSUME IInv, ActiveInv, NEW p \in Shells, MassMark(p)
    PROVE  ActiveInv'
<1> DEFINE S == {j \in Stored : IsGranted(j)}
<1>1. /\ spc[p] = "massmark" /\ requests' = WithStatus(S, "denied")
      /\ Enter(p, "idle", NoRequest, NoToken)
      /\ UNCHANGED <<authority, faults, handed, crossed>>
  BY DEF MassMark, RevokeAllGranted, Answer
<1>2. /\ spc'[p] = "idle"
      /\ \A q \in Shells \ {p} : spc'[q] = spc[q] /\ sreq'[q] = sreq[q] /\ stok'[q] = stok[q]
  BY <1>1, OthersStay DEF IInv
<1>3. \A t : Live(t)' <=> Live(t)
  BY <1>1 DEF Live, authority
<1>4. \A j \in Stored' : ~IsGranted(j)'
  <2>1. S \subseteq Stored /\ \A j \in Stored : j \notin S => ~IsGranted(j)
    OBVIOUS
  <2> HIDE DEF S
  <2>2. /\ \A j \in S : ~IsGranted(j)'
        /\ \A j \in Ids \ S : requests'[j] = requests[j]
    BY <1>1, <2>1, DeniedNow, Typed DEF IInv
  <2> QED BY <2>1, <2>2 DEF Stored, IsGranted
<1>5. Massing
  BY <1>1 DEF Massing
<1>6. TokensOnce' /\ RevokedHanded'
  BY <1>1, <1>2 DEF ActiveInv, TokensOnce, RevokedHanded, authority
<1>7. ASSUME faults = 0
      PROVE  MassInv' /\ RecordLive' /\ Listing'
  <2>1. MassInv /\ RecordLive /\ \A x \in handed : x[1] \notin crossed => ~Live(x[2])
    BY <1>5, <1>7 DEF ActiveInv, MassInv
  <2>2. MassInv'
    BY <1>1, <1>2, <1>3, <1>5, <2>1 DEF MassInv
  <2>3. RecordLive'
    BY <1>1, <1>2, <1>3, <2>1 DEF RecordLive
  <2>4. Listing'
    BY <1>1, <1>3, <1>4, <2>1 DEF Listing
  <2> QED BY <2>2, <2>3, <2>4
<1> QED BY <1>1, <1>6, <1>7 DEF ActiveInv

LEMMA ActiveNext == ASSUME IInv, SweptExpired, ActiveInv, [Next]_vars PROVE ActiveInv'
<1>1. ASSUME NEW p \in Shells, ShellStep(p)
      PROVE  ActiveInv'
  BY <1>1, ApproveMintActive, ApproveRecordActive, DenyActive, RevokeLookActive,
     RevokeTokenActive, RevokeMarkActive, MassAdvanceActive, MassMarkActive DEF ShellStep
<1> QED BY <1>1, CreateActive, TickActive, StutterActive DEF Next

\* With no handler under way, a stored request is listed as granted exactly if
\* its token is accepted, however approvals, revocations and sweeps overlapped,
\* unless it was granted across a mass revocation or an epoch could not be
\* persisted (grant_request, revoke_capability, revoke_all_capabilities).
THEOREM ListingAlwaysTrue == Spec => []ListedIsActive
<1>1. ActiveInv => ListedIsActive
  BY DEF ActiveInv, Listing, ListedIsActive, AtRest, Massing, Marking
<1>2. IInv /\ SweptExpired /\ ActiveInv /\ [Next]_vars => ActiveInv'
  BY ActiveNext
<1> QED BY <1>1, <1>2, ActiveInit, AlwaysSwept, PTL DEF Spec
=============================================================================
