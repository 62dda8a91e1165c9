----------------------- MODULE CapabilityManager_proofs -----------------------
(***************************************************************************)
(* Theorems about CapabilityManager, for every set of tokens, callers and  *)
(* validations and every bound.                                            *)
(***************************************************************************)
EXTENDS CapabilityManager, TLAPS

LEMMA TypeInit == Init => TypeOK
BY BoundsAssumption, UnissuedAssumption
   DEF Init, StoreInit, TypeOK, StoreTypeOK, ManagerTypeOK, Revoking, Advancing

\* The store's part of the type invariant, under a step of one caller.
LEMMA StoreTypeStep ==
    ASSUME StoreTypeOK, NEW a \in Admins, CallerStep(a)
    PROVE  StoreTypeOK'
<1> USE DEF StoreTypeOK, Advancing, Revoking, memory, files, callers, history
<1>1. CASE AdvanceLoad(a)
  BY <1>1 DEF AdvanceLoad
<1>2. CASE EpochOpen(a)
  BY <1>2 DEF EpochOpen
<1>3. CASE EpochWrite(a)
  BY <1>3 DEF EpochWrite, Goto
<1>4. CASE EpochRename(a)
  BY <1>4 DEF EpochRename, MovedInodes
<1>5. CASE EpochRenameMissing(a)
  BY <1>5 DEF EpochRenameMissing, Return
<1>6. CASE EpochStore(a)
  BY <1>6 DEF EpochStore, Return
<1>7. ASSUME NEW t \in Tokens, RevokeInsert(a, t) PROVE StoreTypeOK'
  BY <1>7 DEF RevokeInsert
<1>8. CASE RevokedOpen(a)
  BY <1>8 DEF RevokedOpen
<1>9. CASE RevokedWrite(a)
  BY <1>9 DEF RevokedWrite, Goto
<1>10. CASE RevokedRename(a)
  BY <1>10 DEF RevokedRename, MovedInodes
<1>11. CASE RevokedRenameMissing(a)
  BY <1>11 DEF RevokedRenameMissing, Return
<1>12. CASE IoFault(a)
  BY <1>12 DEF IoFault, Return
<1> QED
  BY <1>1, <1>2, <1>3, <1>4, <1>5, <1>6, <1>7, <1>8, <1>9, <1>10, <1>11, <1>12
     DEF CallerStep

\* The store's variables, spelled out, are untouched: so is their typing.
LEMMA StoreTypeStutter ==
    ASSUME StoreTypeOK, UNCHANGED storeVars
    PROVE  StoreTypeOK'
BY DEF StoreTypeOK, storeVars, memory, files, callers, history

LEMMA CrashType ==
    ASSUME StoreTypeOK, Crash
    PROVE  StoreTypeOK'
BY BoundsAssumption
   DEF StoreTypeOK, Crash, memory, files, callers, history, Advancing, Revoking

LEMMA ManagerTypeStutter ==
    ASSUME ManagerTypeOK, UNCHANGED managerVars
    PROVE  ManagerTypeOK'
BY DEF ManagerTypeOK, managerVars, checks, Issued

\* A validation that is under way holds a token that was minted.
LEMMA HeldToken ==
    ASSUME TypeOK, NEW v \in Validators, vpc[v] # "idle"
    PROVE  vtok[v] \in Issued /\ vtok[v] \in Tokens /\ token[vtok[v]] \in Token
BY DEF TypeOK, ManagerTypeOK, Issued
\* Minting issues one more token and leaves the others as they are.
LEMMA MintIssues ==
    ASSUME NEW t \in Tokens, NEW r \in Token, TypeOK, t \notin Issued,
           token' = [token EXCEPT ![t] = r]
    PROVE  /\ token' \in [Tokens -> Token \cup {Unissued}]
           /\ Issued' = Issued \cup {t}
           /\ \A u \in Issued : token'[u] = token[u]
           /\ token'[t] = r
BY UnissuedAssumption DEF TypeOK, ManagerTypeOK, Issued

LEMMA GrantIssues ==
    ASSUME TypeOK, NEW t \in Tokens, NEW g \in Grants, Grant(t, g)
    PROVE  /\ token' \in [Tokens -> Token \cup {Unissued}]
           /\ Issued' = Issued \cup {t} /\ t \notin Issued
           /\ \A u \in Issued : token'[u] = token[u]
           /\ token'[t] \in Token /\ token'[t].epoch >= epoch
<1> DEFINE r == [capsule |-> g.capsule, scope |-> g.scope,
                 delegatable |-> g.delegatable, max |-> g.max, expiry |-> g.expiry,
                 epoch |-> IF 0 < epoch THEN epoch ELSE 0]
<1>1. epoch \in Nat
  BY DEF TypeOK, StoreTypeOK
<1>2. r \in Token /\ r.epoch >= epoch
  BY <1>1, GrantsAssumption DEF GrantRecord, Token
<1>3. token' = [token EXCEPT ![t] = r] /\ t \notin Issued
  BY DEF Grant, Mint
<1> HIDE DEF r
<1> QED
  BY <1>2, <1>3, MintIssues

LEMMA ChildIssues ==
    ASSUME TypeOK, NEW v \in Validators, NEW c \in Tokens, NEW capsule \in Capsules,
           NEW s \in Scopes, NEW e \in {Never} \cup {g.expiry : g \in Grants},
           MintChild(v, c, capsule, s, e)
    PROVE  /\ token' \in [Tokens -> Token \cup {Unissued}]
           /\ Issued' = Issued \cup {c} /\ c \notin Issued
           /\ \A u \in Issued : token'[u] = token[u]
           /\ token'[c] \in Token /\ token'[c].epoch >= epoch
<1> DEFINE parent == token[vtok[v]]
           r == [capsule |-> capsule, scope |-> s, delegatable |-> FALSE,
                 max |-> parent.max, expiry |-> Earlier(parent.expiry, e),
                 epoch |-> IF parent.epoch < epoch THEN epoch ELSE parent.epoch]
<1>1. parent \in Token
  BY HeldToken DEF MintChild
<1>2. e \in Nat \cup {Never}
  BY GrantsAssumption DEF GrantRecord
<1>3. epoch \in Nat
  BY DEF TypeOK, StoreTypeOK
<1>4. r \in Token /\ r.epoch >= epoch
  BY <1>1, <1>2, <1>3 DEF Earlier, Token
<1>5. token' = [token EXCEPT ![c] = r] /\ c \notin Issued
  BY DEF MintChild, Mint
<1> HIDE DEF r
<1> QED
  BY <1>4, <1>5, MintIssues

LEMMA TypeStep == TypeOK /\ [Next]_vars => TypeOK'
<1> SUFFICES ASSUME TypeOK, [Next]_vars PROVE TypeOK'
  OBVIOUS
<1> USE DEF TypeOK
<1>1. CASE AdminStep
  BY <1>1, StoreTypeStep, ManagerTypeStutter DEF AdminStep
<1>2. ASSUME NEW t \in Tokens, NEW g \in Grants, Grant(t, g) PROVE TypeOK'
  <2>1. ManagerTypeOK'
    BY <1>2, GrantIssues DEF Grant, ManagerTypeOK, checks
  <2> QED
    BY <1>2, <2>1, StoreTypeStutter DEF Grant
<1>3. ASSUME NEW v \in Validators, NEW t \in Tokens, NEW caller \in Capsules,
             NEW wanted \in Scopes, NEW d \in BOOLEAN,
             BeginValidate(v, t, caller, wanted, d)
      PROVE  TypeOK'
  <2>1. DeadBecause(t) \in SUBSET {"returned", "acked", "mass", "expired"}
    BY DEF DeadBecause
  <2>2. ManagerTypeOK'
    BY <1>3, <2>1 DEF BeginValidate, ManagerTypeOK, Issued
  <2> QED
    BY <1>3, <2>2, StoreTypeStutter DEF BeginValidate
<1>4. ASSUME NEW v \in Validators,
             CheckEpoch(v) \/ CheckRevoked(v) \/ CheckExpiry(v) \/ UncountedUse(v)
                \/ RefuseChild(v) \/ Finish(v)
      PROVE  TypeOK'
  <2>1. ManagerTypeOK'
    BY <1>4 DEF ManagerTypeOK, CheckEpoch, CheckRevoked, CheckExpiry, UncountedUse,
                RefuseChild, Finish, Check, Proceed, Leave, Outcome, Issued
  <2>2. UNCHANGED storeVars
    BY <1>4 DEF CheckEpoch, CheckRevoked, CheckExpiry, UncountedUse,
                RefuseChild, Finish, Check
  <2> QED
    BY <2>1, <2>2, StoreTypeStutter
<1>5. ASSUME NEW v \in Validators, CountedUse(v) PROVE TypeOK'
  <2>1. vtok[v] \in Tokens
    BY <1>5, HeldToken DEF CountedUse
  <2>2. useCount' \in [Tokens -> Nat] /\ spent' \in [Tokens -> Nat]
    BY <1>5, <2>1 DEF CountedUse, CountUse, StoreTypeOK, ManagerTypeOK
  <2>3. ManagerTypeOK'
    <3>1. /\ vpc' = [vpc EXCEPT ![v] = Outcome(v)] /\ UNCHANGED <<vtok, delegating, vdead>>
          \/ Leave(v)
      BY <1>5 DEF CountedUse, Proceed
    <3>2. UNCHANGED <<token, now>> /\ Issued' = Issued /\ vpc[v] = "use"
      BY <1>5 DEF CountedUse, Issued
    <3>3. CASE vpc' = [vpc EXCEPT ![v] = Outcome(v)] /\ UNCHANGED <<vtok, delegating, vdead>>
      BY <2>2, <3>2, <3>3 DEF ManagerTypeOK, Outcome
    <3>4. CASE Leave(v)
      BY <2>2, <3>2, <3>4 DEF ManagerTypeOK, Leave
    <3> QED
      BY <3>1, <3>3, <3>4
  <2>4. StoreTypeOK'
    BY <1>5, <2>2 DEF CountedUse, StoreTypeOK, files, callers, history
  <2> QED
    BY <2>3, <2>4
<1>6. ASSUME NEW v \in Validators, NEW c \in Tokens, NEW capsule \in Capsules,
             NEW s \in Scopes, NEW e \in {Never} \cup {g.expiry : g \in Grants},
             MintChild(v, c, capsule, s, e)
      PROVE  TypeOK'
  <2>1. ManagerTypeOK'
    BY <1>6, ChildIssues DEF MintChild, ManagerTypeOK, Leave
  <2> QED
    BY <1>6, <2>1, StoreTypeStutter DEF MintChild
<1>7. CASE Tick
  BY <1>7, StoreTypeStutter DEF Tick, ManagerTypeOK, checks, Issued
<1>8. CASE Restart
  BY <1>8, CrashType DEF Restart, ManagerTypeOK, Issued
<1>9. CASE UNCHANGED vars
  BY <1>9, StoreTypeStutter, ManagerTypeStutter DEF vars
<1> QED
  BY <1>1, <1>2, <1>3, <1>4, <1>5, <1>6, <1>7, <1>8, <1>9 DEF Next

\* Every reachable state is well formed: counters, files, program counters and
\* minted tokens have their types, and a validation under way holds a token
\* that grant or delegate issued (CapabilityStore, CapabilityManager).
THEOREM TypeCorrect == Spec => []TypeOK
BY TypeInit, TypeStep, PTL DEF Spec
-----------------------------------------------------------------------------
(* Individual revocation, within one process *)

\* What the calls of administrators may do to the revocation list in memory.
LEMMA RevocationCallerStep ==
    ASSUME StoreTypeOK, NEW a \in Admins, CallerStep(a),
           returned \subseteq revoked,
           \A b \in Admins : pc[b] \in Revoking => target[b] \in revoked
    PROVE  /\ returned' \subseteq revoked'
           /\ \A b \in Admins : pc'[b] \in Revoking => target'[b] \in revoked'
           /\ revoked \subseteq revoked'
<1> USE DEF StoreTypeOK, Advancing, Revoking, memory, files, callers, history
<1>1. CASE AdvanceLoad(a) \/ EpochOpen(a) \/ EpochWrite(a) \/ EpochRename(a)
             \/ EpochRenameMissing(a) \/ EpochStore(a)
  BY <1>1 DEF AdvanceLoad, EpochOpen, EpochWrite, EpochRename, EpochRenameMissing,
              EpochStore, Goto, Return
<1>2. ASSUME NEW t \in Tokens, RevokeInsert(a, t)
      PROVE  /\ returned' \subseteq revoked'
             /\ \A b \in Admins : pc'[b] \in Revoking => target'[b] \in revoked'
             /\ revoked \subseteq revoked'
  BY <1>2 DEF RevokeInsert
<1>3. CASE RevokedOpen(a) \/ RevokedWrite(a)
  BY <1>3 DEF RevokedOpen, RevokedWrite, Goto
<1>4. CASE RevokedRename(a)
  BY <1>4 DEF RevokedRename
<1>5. CASE RevokedRenameMissing(a)
  BY <1>5 DEF RevokedRenameMissing, Return
<1>6. CASE IoFault(a)
  BY <1>6 DEF IoFault, Return
<1> QED
  BY <1>1, <1>2, <1>3, <1>4, <1>5, <1>6 DEF CallerStep

LEMMA RevocationStep ==
    TypeOK /\ RevocationInv /\ [Next]_vars => RevocationInv'
<1> SUFFICES ASSUME TypeOK, RevocationInv, [Next]_vars PROVE RevocationInv'
  OBVIOUS
<1> USE DEF RevocationInv
<1>0. StoreTypeOK /\ ManagerTypeOK
  BY DEF TypeOK
<1>1. CASE AdminStep
  BY <1>1, <1>0, RevocationCallerStep DEF AdminStep, managerVars, checks
<1>2. ASSUME NEW t \in Tokens, NEW g \in Grants, Grant(t, g) PROVE RevocationInv'
  BY <1>2 DEF Grant, storeVars, memory, callers, history, checks
<1>3. ASSUME NEW v \in Validators, NEW t \in Tokens, NEW caller \in Capsules,
             NEW wanted \in Scopes, NEW d \in BOOLEAN,
             BeginValidate(v, t, caller, wanted, d)
      PROVE  RevocationInv'
  BY <1>3, <1>0 DEF BeginValidate, DeadBecause, ManagerTypeOK,
                    storeVars, memory, callers, history
<1>4. ASSUME NEW v \in Validators,
             CheckEpoch(v) \/ CheckRevoked(v) \/ CheckExpiry(v) \/ UncountedUse(v)
                \/ RefuseChild(v) \/ Finish(v)
      PROVE  RevocationInv'
  BY <1>4, <1>0 DEF ManagerTypeOK, CheckEpoch, CheckRevoked, CheckExpiry, UncountedUse,
      RefuseChild, Finish, Check, Proceed, Leave, Outcome,
      storeVars, memory, callers, history
<1>5. ASSUME NEW v \in Validators, CountedUse(v) PROVE RevocationInv'
  BY <1>5, <1>0 DEF ManagerTypeOK, CountedUse, Proceed, Leave, Outcome, callers, history
<1>6. ASSUME NEW v \in Validators, NEW c \in Tokens, NEW capsule \in Capsules,
             NEW s \in Scopes, NEW e \in {Never} \cup {g.expiry : g \in Grants},
             MintChild(v, c, capsule, s, e)
      PROVE  RevocationInv'
  BY <1>6, <1>0 DEF ManagerTypeOK, MintChild, Leave, storeVars, memory, callers, history
<1>7. CASE Tick
  BY <1>7 DEF Tick, storeVars, memory, callers, history, checks
<1>8. CASE Restart
  BY <1>8, <1>0 DEF Restart, Crash, ManagerTypeOK, Revoking
<1>9. CASE UNCHANGED vars
  BY <1>9 DEF vars, storeVars, memory, callers, history, managerVars, checks
<1> QED
  BY <1>1, <1>2, <1>3, <1>4, <1>5, <1>6, <1>7, <1>8, <1>9 DEF Next

\* However many administrators and validations overlap, and whatever files fail
\* to be written, a validation that began after CapabilityManager::revoke
\* returned does not accept the token while the process lives.
THEOREM RevokedNeverAccepted == Spec => []NoRevokedAcceptance
<1>1. Init => RevocationInv
  BY DEF Init, StoreInit, RevocationInv, Revoking
<1>2. TypeOK /\ RevocationInv => NoRevokedAcceptance
  BY DEF RevocationInv, NoRevokedAcceptance, Passed
<1> QED
  BY <1>1, <1>2, TypeCorrect, RevocationStep, PTL DEF Spec
-----------------------------------------------------------------------------
(* Expiry *)

\* A token does not come back from its expiry: what it says never changes, and
\* the clock does not run backwards.
LEMMA StaysExpired ==
    ASSUME TypeOK, [Next]_vars, NEW t \in Issued, Expired(t)
    PROVE  t \in Issued' /\ Expired(t)'
<1> USE DEF TypeOK, ManagerTypeOK, Issued, Expired
<1>1. CASE AdminStep
  BY <1>1 DEF AdminStep, managerVars
<1>2. ASSUME NEW u \in Tokens, NEW g \in Grants, Grant(u, g)
      PROVE  t \in Issued' /\ Expired(t)'
  BY <1>2, GrantIssues DEF Grant
<1>3. ASSUME NEW v \in Validators, NEW c \in Tokens, NEW capsule \in Capsules,
             NEW s \in Scopes, NEW e \in {Never} \cup {g.expiry : g \in Grants},
             MintChild(v, c, capsule, s, e)
      PROVE  t \in Issued' /\ Expired(t)'
  BY <1>3, ChildIssues DEF MintChild
<1>4. CASE Tick
  <2>1. token[t] \in Token
    OBVIOUS
  <2>2. token[t].expiry \in Nat \cup {Never}
    BY <2>1 DEF Token
  <2> QED
    BY <1>4, <2>2 DEF Tick
<1>5. ASSUME UNCHANGED <<token, now>> PROVE t \in Issued' /\ Expired(t)'
  BY <1>5
<1> QED
  BY <1>1, <1>2, <1>3, <1>4, <1>5
     DEF Next, vars, managerVars, BeginValidate, CheckEpoch, CheckRevoked, CheckExpiry,
         UncountedUse, CountedUse, RefuseChild, Finish, Check, Restart

LEMMA ExpiryStep == TypeOK /\ ExpiryInv /\ [Next]_vars => ExpiryInv'
<1> SUFFICES ASSUME TypeOK, ExpiryInv, [Next]_vars,
                    NEW v \in Validators, "expired" \in vdead'[v]
             PROVE  /\ vtok'[v] \in Issued' /\ Expired(vtok[v])'
                    /\ vpc'[v] \in {"epoch", "revoked", "expiry"}
  BY DEF ExpiryInv
<1>0. ManagerTypeOK
  BY DEF TypeOK
<1>1. CASE UNCHANGED checks
  BY <1>1, StaysExpired DEF ExpiryInv, checks
<1>2. ASSUME NEW w \in Validators, NEW t \in Tokens, NEW caller \in Capsules,
             NEW wanted \in Scopes, NEW d \in BOOLEAN,
             BeginValidate(w, t, caller, wanted, d)
      PROVE  /\ vtok'[v] \in Issued' /\ Expired(vtok[v])'
             /\ vpc'[v] \in {"epoch", "revoked", "expiry"}
  <2>1. CASE w = v
    <3>1. vtok'[v] = t /\ vpc'[v] = "epoch" /\ vdead'[v] = DeadBecause(t) /\ t \in Issued
      BY <1>2, <1>0, <2>1 DEF BeginValidate, ManagerTypeOK
    <3>2. Expired(t)
      BY <3>1 DEF DeadBecause
    <3> QED
      BY <3>1, <3>2, StaysExpired DEF Expired
  <2>2. CASE w # v
    BY <1>2, <1>0, <2>2, StaysExpired DEF BeginValidate, ManagerTypeOK, ExpiryInv
  <2> QED
    BY <2>1, <2>2
<1>3. ASSUME NEW w \in Validators,
             \/ CheckEpoch(w) \/ CheckRevoked(w) \/ CheckExpiry(w) \/ UncountedUse(w)
             \/ RefuseChild(w) \/ Finish(w) \/ CountedUse(w)
             \/ \E c \in Tokens, capsule \in Capsules, s \in Scopes,
                   e \in {Never} \cup {g.expiry : g \in Grants} :
                     MintChild(w, c, capsule, s, e)
      PROVE  /\ vtok'[v] \in Issued' /\ Expired(vtok[v])'
             /\ vpc'[v] \in {"epoch", "revoked", "expiry"}
  <2>1. CASE w = v
    <3>1. vdead'[v] = vdead[v] /\ vtok'[v] = vtok[v] /\ vpc[v] # "expiry"
             /\ (vpc[v] \in {"epoch", "revoked"} => vpc'[v] \in {"revoked", "expiry"})
      BY <1>3, <1>0, <2>1
         DEF ManagerTypeOK, CheckEpoch, CheckRevoked, CheckExpiry, UncountedUse, CountedUse,
             RefuseChild, Finish, MintChild, Check, Proceed, Leave, ExpiryInv
    <3> QED
      BY <3>1, StaysExpired DEF ExpiryInv
  <2>2. CASE w # v
    <3>1. vdead'[v] = vdead[v] /\ vtok'[v] = vtok[v] /\ vpc'[v] = vpc[v]
      BY <1>3, <1>0, <2>2
         DEF ManagerTypeOK, CheckEpoch, CheckRevoked, CheckExpiry, UncountedUse, CountedUse,
             RefuseChild, Finish, MintChild, Check, Proceed, Leave
    <3> QED
      BY <3>1, StaysExpired DEF ExpiryInv
  <2> QED
    BY <2>1, <2>2
<1>4. CASE Restart
  BY <1>4 DEF Restart
<1> QED
  BY <1>1, <1>2, <1>3, <1>4 DEF Next, vars, managerVars, AdminStep, Grant, Tick

\* A validation that began after a token's expiry does not accept it, although
\* the clock is read only after two other checks have awaited their locks.
THEOREM ExpiredNeverAccepted == Spec => []NoExpiredAcceptance
<1>1. Init => ExpiryInv
  BY DEF Init, ExpiryInv
<1>2. TypeOK /\ ExpiryInv => NoExpiredAcceptance
  BY DEF ExpiryInv, NoExpiredAcceptance, Passed
<1> QED
  BY <1>1, <1>2, TypeCorrect, ExpiryStep, PTL DEF Spec
-----------------------------------------------------------------------------
(* Use limits, until the process restarts *)

LEMMA UseStep == TypeOK /\ UseInv /\ [Next]_vars => UseInv'
<1> SUFFICES ASSUME TypeOK, UseInv, [Next]_vars PROVE UseInv'
  OBVIOUS
<1>0. ManagerTypeOK /\ StoreTypeOK
  BY DEF TypeOK
<1>1. ASSUME UNCHANGED <<useCount, spent, crashes, token>> PROVE UseInv'
  BY <1>1 DEF UseInv, Issued
<1>2. ASSUME NEW t \in Tokens, token'[t] \in Token, Issued' = Issued \cup {t},
             t \notin Issued, \A u \in Issued : token'[u] = token[u],
             UNCHANGED <<useCount, spent, crashes>>
      PROVE  UseInv'
  BY <1>0, <1>2 DEF UseInv, Token, StoreTypeOK
<1>3. ASSUME NEW t \in Tokens, NEW g \in Grants, Grant(t, g) PROVE UseInv'
  BY <1>2, <1>3, GrantIssues DEF Grant, storeVars, memory
<1>4. ASSUME NEW v \in Validators, CountedUse(v) PROVE UseInv'
  <2>1. vtok[v] \in Issued /\ token[vtok[v]] \in Token
    BY <1>4, HeldToken DEF CountedUse
  <2>2. token[vtok[v]].max \in Nat
    BY <1>4, <2>1 DEF CountedUse, Token
  <2> QED
    BY <1>0, <1>4, <2>1, <2>2
       DEF CountedUse, CountUse, MayUse, UseInv, Issued, ManagerTypeOK, StoreTypeOK
<1>5. ASSUME NEW v \in Validators, NEW c \in Tokens, NEW capsule \in Capsules,
             NEW s \in Scopes, NEW e \in {Never} \cup {g.expiry : g \in Grants},
             MintChild(v, c, capsule, s, e)
      PROVE  UseInv'
  BY <1>2, <1>5, ChildIssues DEF MintChild, storeVars, memory
<1>6. CASE Restart
  <2>1. crashes' # 0 /\ useCount' = [t \in Tokens |-> 0] /\ token' = token
    BY <1>0, <1>6 DEF Restart, Crash, StoreTypeOK
  <2>2. \A t \in Issued : token[t].max # Unlimited => token[t].max \in Nat
    BY <1>0 DEF ManagerTypeOK, Issued, Token
  <2> QED
    BY <2>1, <2>2 DEF UseInv, Issued
<1>7. CASE AdminStep
  BY <1>1, <1>7
     DEF AdminStep, managerVars, CallerStep, AdvanceLoad, EpochOpen, EpochWrite,
         EpochRename, EpochRenameMissing, EpochStore, RevokeInsert, RevokedOpen,
         RevokedWrite, RevokedRename, RevokedRenameMissing, IoFault, memory
<1> QED
  BY <1>1, <1>3, <1>4, <1>5, <1>6, <1>7
     DEF Next, vars, storeVars, memory, managerVars, BeginValidate, CheckEpoch,
         CheckRevoked, CheckExpiry, UncountedUse, RefuseChild, Finish, Check, Tick

\* Concurrent validations never accept a limited token more often than its
\* max_uses, as long as the process has not restarted (try_use_token).
THEOREM UsesBounded == Spec => []UseLimitBetweenRestarts
<1>1. Init => UseInv
  BY UnissuedAssumption DEF Init, StoreInit, UseInv, Issued
<1>2. TypeOK /\ UseInv => UseLimitBetweenRestarts
  BY DEF UseInv, UseLimitBetweenRestarts, UseLimit, Issued
<1> QED
  BY <1>1, <1>2, TypeCorrect, UseStep, PTL DEF Spec

-----------------------------------------------------------------------------
(* Calls that do not overlap: mass revocation, and what survives a restart *)

LEMMA StoreSerialStep ==
    ASSUME OneAdmin, StoreTypeOK, StoreSerial, NEW a \in Admins, CallerStep(a)
    PROVE  StoreSerial' /\ epoch <= epoch' /\ revoked \subseteq revoked'
<1> USE DEF OneAdmin, StoreTypeOK, StoreSerial, Advancing, Revoking,
            memory, files, callers, history
<1> DEFINE Goal == StoreSerial' /\ epoch <= epoch' /\ revoked \subseteq revoked'
<1>1. CASE AdvanceLoad(a) \/ EpochOpen(a) \/ RevokedOpen(a)
  BY <1>1 DEF AdvanceLoad, EpochOpen, RevokedOpen
<1>2. CASE EpochWrite(a)
  BY <1>2 DEF EpochWrite, Goto
<1>3. CASE EpochRename(a)
  BY <1>3 DEF EpochRename
<1>4. CASE EpochRenameMissing(a)
  BY <1>4 DEF EpochRenameMissing, Return
<1>5. CASE EpochStore(a)
  BY <1>5 DEF EpochStore, Return
<1>6. ASSUME NEW t \in Tokens, RevokeInsert(a, t) PROVE Goal
  BY <1>6 DEF RevokeInsert
<1>7. CASE RevokedWrite(a)
  BY <1>7 DEF RevokedWrite, Goto
<1>8. CASE RevokedRename(a)
  BY <1>8 DEF RevokedRename
<1>9. CASE RevokedRenameMissing(a)
  BY <1>9 DEF RevokedRenameMissing, Return
<1>10. CASE IoFault(a)
  BY <1>10 DEF IoFault, Return
<1> QED
  BY <1>1, <1>2, <1>3, <1>4, <1>5, <1>6, <1>7, <1>8, <1>9, <1>10 DEF CallerStep
LEMMA SerialStep ==
    ASSUME OneAdmin
    PROVE  TypeOK /\ SerialInv /\ [Next]_vars => SerialInv'
<1> SUFFICES ASSUME TypeOK, SerialInv, [Next]_vars PROVE SerialInv'
  OBVIOUS
<1>0. StoreTypeOK /\ ManagerTypeOK
  BY DEF TypeOK
<1>1. CASE AdminStep
  <2>1. StoreSerial' /\ epoch <= epoch' /\ revoked \subseteq revoked'
    BY <1>0, <1>1, StoreSerialStep DEF AdminStep, SerialInv
  <2>2. epoch \in Nat /\ epoch' \in Nat
    BY <1>0, <1>1, StoreTypeStep DEF AdminStep, StoreTypeOK
  <2>3. \A v \in Validators : "mass" \in vdead[v] => token[vtok[v]].epoch \in Nat
    <3> SUFFICES ASSUME NEW v \in Validators, "mass" \in vdead[v]
                 PROVE  token[vtok[v]].epoch \in Nat
      OBVIOUS
    <3>1. vpc[v] # "idle"
      BY DEF SerialInv
    <3> QED
      BY <3>1, HeldToken DEF Token
  <2> QED
    BY <1>1, <2>1, <2>2, <2>3 DEF SerialInv, AdminStep, managerVars, checks
<1>2. ASSUME UNCHANGED <<storeVars, checks>>,
             \A u \in Issued : token'[u] = token[u]
      PROVE  SerialInv'
  <2>1. \A v \in Validators : "mass" \in vdead[v] => vtok[v] \in Issued
    BY HeldToken DEF SerialInv
  <2> QED
    BY <1>2, <2>1 DEF SerialInv, StoreSerial, storeVars, memory, files, callers, history, checks
<1>3. ASSUME NEW t \in Tokens, NEW g \in Grants, Grant(t, g) PROVE SerialInv'
  BY <1>2, <1>3, GrantIssues DEF Grant
<1>4. ASSUME NEW w \in Validators, NEW t \in Tokens, NEW caller \in Capsules,
             NEW wanted \in Scopes, NEW d \in BOOLEAN,
             BeginValidate(w, t, caller, wanted, d)
      PROVE  SerialInv'
  <2>1. StoreSerial'
    BY <1>4 DEF SerialInv, StoreSerial, BeginValidate,
                storeVars, memory, files, callers, history
  <2>2. token[t].epoch \in Nat
    BY <1>0, <1>4 DEF BeginValidate, Issued, ManagerTypeOK, Token
  <2>3. /\ "mass" \in DeadBecause(t) => token[t].epoch < epoch
        /\ "acked" \in DeadBecause(t) => t \in revoked
    BY <1>0, <2>2 DEF DeadBecause, SerialInv, StoreSerial, StoreTypeOK
  <2> QED
    BY <1>0, <1>4, <2>1, <2>3
       DEF SerialInv, BeginValidate, ManagerTypeOK, storeVars, memory
<1>5. ASSUME NEW w \in Validators,
             \/ CheckEpoch(w) \/ CheckRevoked(w) \/ CheckExpiry(w) \/ UncountedUse(w)
             \/ RefuseChild(w) \/ Finish(w) \/ CountedUse(w)
      PROVE  SerialInv'
  <2>1. UNCHANGED <<epoch, revoked, files, callers, history, token>>
    BY <1>5 DEF CheckEpoch, CheckRevoked, CheckExpiry, UncountedUse, CountedUse,
                RefuseChild, Finish, Check, storeVars, memory
  <2>2. StoreSerial'
    BY <2>1 DEF SerialInv, StoreSerial, files, callers, history
  <2>3. ASSUME NEW v \in Validators, "mass" \in vdead'[v]
        PROVE  token'[vtok'[v]].epoch < epoch' /\ vpc'[v] = "epoch"
    <3>1. vpc[v] = "epoch" => token[vtok[v]].epoch \in Nat
      BY HeldToken DEF Token
    <3> QED
      BY <1>0, <1>5, <2>1, <2>3, <3>1
         DEF ManagerTypeOK, StoreTypeOK, SerialInv, CheckEpoch, CheckRevoked, CheckExpiry,
             UncountedUse, CountedUse, RefuseChild, Finish, Check, Proceed, Leave,
             IsEpochValid
  <2>4. ASSUME NEW v \in Validators, "acked" \in vdead'[v]
        PROVE  vtok'[v] \in revoked' /\ vpc'[v] \in {"epoch", "revoked"}
    BY <1>0, <1>5, <2>1, <2>4
       DEF ManagerTypeOK, SerialInv, CheckEpoch, CheckRevoked, CheckExpiry,
           UncountedUse, CountedUse, RefuseChild, Finish, Check, Proceed, Leave
  <2> QED
    BY <2>2, <2>3, <2>4 DEF SerialInv
<1>6. ASSUME NEW w \in Validators, NEW c \in Tokens, NEW capsule \in Capsules,
             NEW s \in Scopes, NEW e \in {Never} \cup {g.expiry : g \in Grants},
             MintChild(w, c, capsule, s, e)
      PROVE  SerialInv'
  <2>1. StoreSerial'
    BY <1>6 DEF SerialInv, StoreSerial, MintChild, storeVars, memory, files, callers, history
  <2>2. \A v \in Validators : "mass" \in vdead[v] => vtok[v] \in Issued
    BY HeldToken DEF SerialInv
  <2>3. \A u \in Issued : token'[u] = token[u]
    BY <1>6, ChildIssues
  <2> QED
    BY <1>0, <1>6, <2>1, <2>2, <2>3
       DEF SerialInv, MintChild, Leave, ManagerTypeOK, storeVars, memory
<1>7. CASE Tick
  BY <1>2, <1>7 DEF Tick
<1>8. CASE Restart
  BY <1>0, <1>8 DEF Restart, Crash, SerialInv, StoreSerial, StoreTypeOK, files,
                    Advancing, Revoking
<1>9. CASE UNCHANGED vars
  BY <1>2, <1>9 DEF vars, managerVars
<1> QED
  BY <1>1, <1>3, <1>4, <1>5, <1>6, <1>7, <1>8, <1>9 DEF Next

LEMMA SerialInvariant ==
    ASSUME OneAdmin
    PROVE  Spec => [](TypeOK /\ SerialInv)
<1>1. Init => SerialInv
  BY DEF Init, StoreInit, SerialInv, StoreSerial, Advancing, Revoking
<1> QED
  BY <1>1, TypeCorrect, SerialStep, PTL DEF Spec

\* With revoke_all calls that do not overlap, no validation that began after one
\* of them returned accepts a token of an earlier epoch, whatever writes fail and
\* however often the process crashes.  (Overlapping calls break it: see the
\* README.)
THEOREM MassRevokedNeverAccepted ==
    ASSUME OneAdmin
    PROVE  Spec => []NoMassRevokedAcceptance
<1>1. TypeOK /\ SerialInv => NoMassRevokedAcceptance
  BY DEF SerialInv, NoMassRevokedAcceptance, Passed
<1> QED
  BY <1>1, SerialInvariant, PTL

\* With revocations that do not overlap, one that was acknowledged without a
\* persist error binds every later validation, over any number of crashes.
THEOREM AckedRevocationsNeverRevive ==
    ASSUME OneAdmin
    PROVE  Spec => []NoAckedRevocationRevives
<1>1. TypeOK /\ SerialInv => NoAckedRevocationRevives
  BY DEF SerialInv, NoAckedRevocationRevives, Passed
<1> QED
  BY <1>1, SerialInvariant, PTL

\* With revocations that do not overlap, the file a restart would load covers
\* every acknowledged revocation at every instant, between any two file
\* operations.
THEOREM RevocationsAlwaysDurable ==
    ASSUME OneAdmin
    PROVE  Spec => []RevocationsDurable
<1>1. TypeOK /\ SerialInv => RevocationsDurable
  BY DEF SerialInv, StoreSerial, RevocationsDurable
<1> QED
  BY <1>1, SerialInvariant, PTL

\* With advances that do not overlap, a restart never falls behind an epoch that
\* advance_epoch returned.
THEOREM EpochAlwaysDurable ==
    ASSUME OneAdmin
    PROVE  Spec => []EpochDurable
<1>1. TypeOK /\ SerialInv => EpochDurable
  BY DEF SerialInv, StoreSerial, EpochDurable, TypeOK, StoreTypeOK
<1> QED
  BY <1>1, SerialInvariant, PTL
-----------------------------------------------------------------------------
(* Revocations that overlap and share one temporary file *)

Rewriting == {"r_write", "r_rename"}

\* A temporary list belongs to a call that has yet to rename, and it is whole
\* unless somebody who has truncated it is about to write it.
TempInv ==
    "revoked_tokens.tmp" \in tmpNames =>
        /\ \E a \in Admins : pc[a] \in Rewriting
        /\ revokedTmp = revoked \/ \E a \in Admins : pc[a] = "r_write" /\ fd[a] = "tmp"

\* A list that was renamed too early is still open for writing by the call that
\* had truncated it.
ListInv ==
    acked \subseteq revokedFile \/ \E a \in Admins : pc[a] = "r_write" /\ fd[a] = "final"

OverlapInv == faults = 0 /\ crashes = 0 => TempInv /\ ListInv /\ acked \subseteq revoked

\* What the rest of the system and the calls that advance the epoch leave alone.
LEMMA OverlapFrame ==
    ASSUME OverlapInv, faults' = faults, crashes' = crashes,
           UNCHANGED <<revoked, revokedFile, revokedTmp, acked>>,
           "revoked_tokens.tmp" \in tmpNames' => "revoked_tokens.tmp" \in tmpNames,
           \A b \in Admins : pc[b] \in Rewriting => pc'[b] = pc[b] /\ fd'[b] = fd[b]
    PROVE  OverlapInv'
BY DEF OverlapInv, TempInv, ListInv, Rewriting

LEMMA OverlapEpoch ==
    ASSUME StoreTypeOK, OverlapInv, NEW a \in Admins,
           \/ AdvanceLoad(a) \/ EpochOpen(a) \/ EpochWrite(a)
           \/ EpochRename(a) \/ EpochRenameMissing(a) \/ EpochStore(a)
    PROVE  OverlapInv'
<1> USE DEF Rewriting, StoreTypeOK, files, history
<1>1. CASE AdvanceLoad(a) \/ EpochOpen(a)
  BY <1>1, OverlapFrame DEF AdvanceLoad, EpochOpen, memory
<1>2. CASE EpochWrite(a)
  BY <1>2, OverlapFrame DEF EpochWrite, Goto, memory
<1>3. CASE EpochRename(a)
  BY <1>3, OverlapFrame DEF EpochRename, MovedInodes, memory
<1>4. CASE EpochRenameMissing(a) \/ EpochStore(a)
  BY <1>4, OverlapFrame DEF EpochRenameMissing, EpochStore, Return, memory
<1> QED
  BY <1>1, <1>2, <1>3, <1>4

LEMMA OverlapRevoke ==
    ASSUME StoreTypeOK, RevocationInv, OverlapInv, NEW a \in Admins,
           \/ \E t \in Tokens : RevokeInsert(a, t)
           \/ RevokedOpen(a) \/ RevokedWrite(a) \/ RevokedRename(a) \/ RevokedRenameMissing(a)
    PROVE  OverlapInv'
<1> SUFFICES ASSUME faults' = 0, crashes' = 0
             PROVE  TempInv' /\ ListInv' /\ acked' \subseteq revoked'
  BY DEF OverlapInv
<1>0. faults = 0 /\ crashes = 0 /\ TempInv /\ ListInv /\ acked \subseteq revoked
  BY DEF OverlapInv, RevokeInsert, RevokedOpen, RevokedWrite, RevokedRename, RevokedRenameMissing
<1> USE DEF Rewriting, StoreTypeOK, memory, files, history
<1>1. ASSUME NEW t \in Tokens, RevokeInsert(a, t)
      PROVE  TempInv' /\ ListInv' /\ acked' \subseteq revoked'
  <2>1. "revoked_tokens.tmp" \notin tmpNames
    BY <1>0, <1>1 DEF RevokeInsert, NoReader, TempInv
  <2> QED
    BY <1>0, <1>1, <2>1 DEF RevokeInsert, TempInv, ListInv
<1>2. CASE RevokedOpen(a)
  <2>1. /\ pc'[a] = "r_write" /\ fd'[a] = "tmp"
        /\ \A b \in Admins : pc[b] = "r_write" => pc'[b] = pc[b] /\ fd'[b] = fd[b]
        /\ UNCHANGED <<revoked, revokedFile, acked>>
    BY <1>2 DEF RevokedOpen
  <2> QED
    BY <1>0, <2>1 DEF TempInv, ListInv
<1>3. CASE RevokedWrite(a)
  <2>1. /\ revokedTmp' = (IF fd[a] = "tmp" THEN revoked ELSE revokedTmp)
        /\ revokedFile' = (IF fd[a] = "final" THEN revoked ELSE revokedFile)
        /\ pc'[a] = "r_rename"
        /\ \A b \in Admins : b # a => pc'[b] = pc[b] /\ fd'[b] = fd[b]
        /\ UNCHANGED <<revoked, acked, tmpNames>>
    BY <1>3 DEF RevokedWrite, Goto
  <2>2. TempInv'
    BY <1>0, <2>1 DEF TempInv
  <2>3. ListInv'
    BY <1>0, <2>1 DEF ListInv
  <2> QED
    BY <1>0, <2>1, <2>2, <2>3
<1>4. CASE RevokedRename(a)
  <2>1. /\ revokedFile' = revokedTmp /\ "revoked_tokens.tmp" \in tmpNames
        /\ "revoked_tokens.tmp" \notin tmpNames' /\ revoked' = revoked
        /\ acked' = acked \cup {target[a]} /\ target[a] \in revoked
    BY <1>4 DEF RevokedRename, RevocationInv, Revoking
  <2>2. \A b \in Admins : pc[b] = "r_write" /\ fd[b] = "tmp"
           => pc'[b] = "r_write" /\ fd'[b] = "final"
    BY <1>4 DEF RevokedRename, MovedInodes
  <2>3. revokedTmp = revoked \/ \E b \in Admins : pc'[b] = "r_write" /\ fd'[b] = "final"
    BY <1>0, <2>1, <2>2 DEF TempInv
  <2> QED
    BY <1>0, <2>1, <2>3 DEF TempInv, ListInv
<1>5. CASE RevokedRenameMissing(a)
  <2>1. /\ \A b \in Admins : pc[b] = "r_write" => pc'[b] = pc[b] /\ fd'[b] = fd[b]
        /\ "revoked_tokens.tmp" \notin tmpNames' /\ UNCHANGED <<revoked, acked, revokedFile>>
    BY <1>5 DEF RevokedRenameMissing, Return
  <2> QED
    BY <1>0, <2>1 DEF TempInv, ListInv
<1> QED
  BY <1>1, <1>2, <1>3, <1>4, <1>5

LEMMA OverlapStep ==
    TypeOK /\ RevocationInv /\ OverlapInv /\ [Next]_vars => OverlapInv'
<1> SUFFICES ASSUME TypeOK, RevocationInv, OverlapInv, [Next]_vars PROVE OverlapInv'
  OBVIOUS
<1>0. StoreTypeOK
  BY DEF TypeOK
<1>1. ASSUME UNCHANGED <<revoked, files, callers, faults, crashes, history>>
      PROVE  OverlapInv'
  BY <1>1, OverlapFrame DEF files, callers, history
<1>2. ASSUME NEW a \in Admins, CallerStep(a) PROVE OverlapInv'
  <2>1. CASE IoFault(a)
    <3>1. faults' # 0
      BY <1>0, <2>1 DEF IoFault, StoreTypeOK
    <3> QED
      BY <3>1 DEF OverlapInv
  <2> QED
    BY <1>0, <1>2, <2>1, OverlapEpoch, OverlapRevoke DEF CallerStep
<1>3. CASE Restart
  <2>1. crashes' # 0
    BY <1>0, <1>3 DEF Restart, Crash, StoreTypeOK
  <2> QED
    BY <2>1 DEF OverlapInv
<1>4. CASE Tick \/ UNCHANGED vars \/ \E t \in Tokens, g \in Grants : Grant(t, g)
  BY <1>1, <1>4 DEF Tick, vars, Grant, storeVars, memory
<1>5. ASSUME NEW v \in Validators,
             \/ \E t \in Tokens, caller \in Capsules, wanted \in Scopes, d \in BOOLEAN :
                    BeginValidate(v, t, caller, wanted, d)
             \/ \E c \in Tokens, capsule \in Capsules, s \in Scopes,
                   e \in {Never} \cup {g.expiry : g \in Grants} :
                     MintChild(v, c, capsule, s, e)
             \/ RefuseChild(v) \/ Finish(v)
      PROVE  OverlapInv'
  <2>1. UNCHANGED storeVars
    BY <1>5 DEF BeginValidate, MintChild, RefuseChild, Finish
  <2> QED
    BY <1>1, <2>1 DEF storeVars, memory
<1>6. ASSUME NEW v \in Validators,
             \/ CheckEpoch(v) \/ CheckRevoked(v) \/ CheckExpiry(v)
             \/ UncountedUse(v) \/ CountedUse(v)
      PROVE  OverlapInv'
  <2>1. UNCHANGED <<revoked, files, callers, faults, crashes, history>>
    BY <1>6 DEF CheckEpoch, CheckRevoked, CheckExpiry, UncountedUse, CountedUse, Check,
                storeVars, memory
  <2> QED
    BY <1>1, <2>1
<1> QED
  BY <1>2, <1>3, <1>4, <1>5, <1>6 DEF Next, AdminStep

\* persist_revoked_tokens under a read lock: however many revocations overlap and
\* truncate, write and rename the one temporary file, once they are over the list
\* on disk holds every token whose revocation reported no error.
THEOREM RevocationsDurableAfterOverlap == Spec => []RevocationsDurableAtRest
<1>1. Init => RevocationInv /\ OverlapInv
  BY DEF Init, StoreInit, RevocationInv, Revoking, OverlapInv, TempInv, ListInv
<1>2. OverlapInv => RevocationsDurableAtRest
  BY DEF OverlapInv, ListInv, RevocationsDurableAtRest, Revoking
<1> QED
  BY <1>1, <1>2, TypeCorrect, RevocationStep, OverlapStep, PTL DEF Spec

-----------------------------------------------------------------------------
(* What delegation gives away *)

LEMMA EarlierFacts ==
    ASSUME NEW a \in Nat, NEW b \in Nat \cup {Never}
    PROVE  Earlier(a, b) \in Nat /\ Earlier(a, b) <= a
BY OptionsAssumption DEF Earlier

\* What is minted for a child says no more than its parent does.
LEMMA ChildNarrower ==
    ASSUME TypeOK, NEW v \in Validators, NEW c \in Tokens, NEW capsule \in Capsules,
           NEW s \in Scopes, NEW e \in {Never} \cup {g.expiry : g \in Grants},
           MintChild(v, c, capsule, s, e)
    PROVE  /\ ~token'[c].delegatable
           /\ token[vtok[v]].expiry # Never =>
                 token'[c].expiry # Never /\ token'[c].expiry <= token[vtok[v]].expiry
           /\ \A w \in Validators \ {v} : vpc'[w] = vpc[w]
           /\ \A u \in Tokens \ {c} : token'[u] = token[u]
<1>1. token[vtok[v]].expiry \in Nat \cup {Never}
  BY HeldToken DEF MintChild, Token
<1>2. e \in Nat \cup {Never}
  BY GrantsAssumption DEF GrantRecord
<1>3. token'[c].delegatable = FALSE /\ token'[c].expiry = Earlier(token[vtok[v]].expiry, e)
  BY DEF MintChild, Mint, TypeOK, ManagerTypeOK
<1>4. token[vtok[v]].expiry # Never =>
        token'[c].expiry # Never /\ token'[c].expiry <= token[vtok[v]].expiry
  BY <1>1, <1>2, <1>3, EarlierFacts, OptionsAssumption
<1>5. \A w \in Validators \ {v} : vpc'[w] = vpc[w]
  BY DEF MintChild, Leave, TypeOK, ManagerTypeOK
<1>6. \A u \in Tokens \ {c} : token'[u] = token[u]
  BY DEF MintChild, Mint, TypeOK, ManagerTypeOK
<1> QED
  BY <1>3, <1>4, <1>5, <1>6

\* delegate: a token minted as a delegated call returns is not delegatable and
\* expires no later than the token it comes from, whatever was granted, revoked
\* or expired between the parent's validation and the child's grant.
THEOREM DelegationAlwaysAttenuates == Spec => DelegationAttenuates
<1> DEFINE Attenuates == \A v \in Validators, c \in Tokens :
        (vpc[v] = "mint" /\ c \notin Issued /\ token'[c] # Unissued /\ vpc'[v] = "idle")
          => /\ ~token'[c].delegatable
             /\ token[vtok[v]].expiry # Never =>
                   token'[c].expiry # Never /\ token'[c].expiry <= token[vtok[v]].expiry
<1>1. TypeOK /\ [Next]_vars => Attenuates
  <2> SUFFICES ASSUME TypeOK, [Next]_vars, NEW v \in Validators, NEW c \in Tokens,
                      vpc[v] = "mint", c \notin Issued, token'[c] # Unissued, vpc'[v] = "idle"
               PROVE  /\ ~token'[c].delegatable
                      /\ token[vtok[v]].expiry # Never =>
                            token'[c].expiry # Never /\ token'[c].expiry <= token[vtok[v]].expiry
    OBVIOUS
  <2>1. token' # token /\ vpc' # vpc
    BY DEF Issued
  <2>2. ~AdminStep /\ ~Tick /\ ~Restart /\ ~(UNCHANGED vars)
    BY <2>1 DEF AdminStep, Tick, Restart, vars, managerVars
  <2>3. ~(\E t \in Tokens, g \in Grants : Grant(t, g))
    BY <2>1 DEF Grant, checks
  <2>4. ASSUME NEW w \in Validators,
               \/ \E t \in Tokens, caller \in Capsules, wanted \in Scopes, d \in BOOLEAN :
                      BeginValidate(w, t, caller, wanted, d)
               \/ CheckEpoch(w) \/ CheckRevoked(w) \/ CheckExpiry(w) \/ UncountedUse(w)
               \/ CountedUse(w) \/ RefuseChild(w) \/ Finish(w)
        PROVE  FALSE
    BY <2>1, <2>4 DEF BeginValidate, CheckEpoch, CheckRevoked, CheckExpiry, Check, UncountedUse,
                      CountedUse, RefuseChild, Finish
  <2>5. PICK w \in Validators, d \in Tokens, capsule \in Capsules, s \in Scopes,
             e \in {Never} \cup {g.expiry : g \in Grants} : MintChild(w, d, capsule, s, e)
    BY <2>2, <2>3, <2>4 DEF Next
  <2>6. w = v /\ d = c
    BY <2>5, ChildNarrower DEF Issued
  <2> QED
    BY <2>5, <2>6, ChildNarrower
<1>2. TypeOK /\ [Next]_vars => [Attenuates]_vars
  BY <1>1
<1> QED
  BY <1>2, TypeCorrect, PTL DEF Spec, DelegationAttenuates

-----------------------------------------------------------------------------
(* The pipeline implements RevocationPromise *)

LEMMA DeadGrows ==
    ASSUME TypeOK, [Next]_vars
    PROVE  Dead \subseteq Dead'
<1> SUFFICES ASSUME NEW t \in Dead PROVE t \in Dead'
  OBVIOUS
<1> USE DEF Dead
<1>1. CASE "expired" \in DeadBecause(t)
  BY <1>1, StaysExpired DEF DeadBecause
<1>2. CASE "acked" \in DeadBecause(t) \/ "mass" \in DeadBecause(t)
  <2>1. t \in Issued' /\ token'[t] = token[t]
    <3>1. ASSUME NEW u \in Tokens, NEW g \in Grants, Grant(u, g)
          PROVE t \in Issued' /\ token'[t] = token[t]
      BY <3>1, GrantIssues
    <3>2. ASSUME NEW v \in Validators, NEW c \in Tokens, NEW capsule \in Capsules,
                 NEW s \in Scopes, NEW e \in {Never} \cup {g.expiry : g \in Grants},
                 MintChild(v, c, capsule, s, e)
          PROVE  t \in Issued' /\ token'[t] = token[t]
      BY <3>2, ChildIssues
    <3>3. ASSUME UNCHANGED token PROVE t \in Issued' /\ token'[t] = token[t]
      BY <3>3 DEF Issued
    <3> QED
      BY <3>1, <3>2, <3>3
         DEF Next, vars, managerVars, AdminStep, BeginValidate, CheckEpoch, CheckRevoked,
             CheckExpiry, UncountedUse, CountedUse, RefuseChild, Finish, Check, Tick, Restart
  <2>2. acked \subseteq acked' /\ floor <= floor' /\ floor \in Nat /\ floor' \in Nat
    <3>1. floor \in Nat /\ floor' \in Nat
      BY TypeStep DEF TypeOK, StoreTypeOK
    <3>2. CASE AdminStep
      <4>1. PICK a \in Admins : CallerStep(a)
        BY <3>2 DEF AdminStep
      <4>2. newEpoch[a] \in Nat
        BY DEF TypeOK, StoreTypeOK
      <4> QED
        BY <3>1, <4>1, <4>2
           DEF CallerStep, AdvanceLoad, EpochOpen, EpochWrite, EpochRename,
               EpochRenameMissing, EpochStore, RevokeInsert, RevokedOpen, RevokedWrite,
               RevokedRename, RevokedRenameMissing, IoFault, history
    <3>3. CASE UNCHANGED <<acked, floor>>
      BY <3>1, <3>3
    <3>4. CASE \/ Tick \/ Restart \/ UNCHANGED vars
               \/ \E u \in Tokens, g \in Grants : Grant(u, g)
      BY <3>3, <3>4 DEF Tick, Restart, Crash, Grant, vars, storeVars, history
    <3>5. ASSUME NEW v \in Validators,
                 \/ \E u \in Tokens, caller \in Capsules, wanted \in Scopes, d \in BOOLEAN :
                        BeginValidate(v, u, caller, wanted, d)
                 \/ \E c \in Tokens, capsule \in Capsules, s \in Scopes,
                       e \in {Never} \cup {g.expiry : g \in Grants} :
                         MintChild(v, c, capsule, s, e)
                 \/ RefuseChild(v) \/ Finish(v)
          PROVE  UNCHANGED <<acked, floor>>
      BY <3>5 DEF BeginValidate, MintChild, RefuseChild, Finish, storeVars, history
    <3>6. ASSUME NEW v \in Validators,
                 \/ CheckEpoch(v) \/ CheckRevoked(v) \/ CheckExpiry(v)
                 \/ UncountedUse(v) \/ CountedUse(v)
          PROVE  UNCHANGED <<acked, floor>>
      BY <3>6 DEF CheckEpoch, CheckRevoked, CheckExpiry, UncountedUse, CountedUse, Check,
                  storeVars, history
    <3> QED
      BY <3>2, <3>3, <3>4, <3>5, <3>6 DEF Next
  <2>3. token[t].epoch \in Nat
    BY DEF TypeOK, ManagerTypeOK, Issued, Token
  <2> QED
    BY <1>2, <2>1, <2>2, <2>3 DEF DeadBecause
<1> QED
  BY <1>1, <1>2 DEF DeadBecause

\* What each step does to the outcomes, one validation at a time.
LEMMA OutcomeStep ==
    ASSUME TypeOK, SerialInv, ExpiryInv, [Next]_vars
    PROVE  \/ \A v \in Validators : OutcomeOf(v)' = OutcomeOf(v)
           \/ \E S \in SUBSET Validators : \A v \in Validators :
                 OutcomeOf(v)' = IF v \in S THEN "none" ELSE OutcomeOf(v)
           \/ /\ Dead' = Dead
              /\ \E v \in Validators :
                   /\ \A w \in Validators \ {v} : OutcomeOf(w)' = OutcomeOf(w)
                   /\ \/ OutcomeOf(v) = "open" /\ OutcomeOf(v)' = "accepted"
                      \/ /\ OutcomeOf(v) = "none"
                         /\ \E t \in Tokens : OutcomeOf(v)' = IF t \in Dead THEN "doomed"
                                                              ELSE "open"
<1> USE DEF OutcomeOf, Passed
<1> DEFINE Same == \A v \in Validators : OutcomeOf(v)' = OutcomeOf(v)
           Out(S) == \A v \in Validators :
                        OutcomeOf(v)' = IF v \in S THEN "none" ELSE OutcomeOf(v)
<1>0. ManagerTypeOK
  BY DEF TypeOK
<1>1. ASSUME UNCHANGED checks PROVE Same
  BY <1>1 DEF checks
<1>2. ASSUME NEW v \in Validators, NEW t \in Tokens, NEW caller \in Capsules,
             NEW wanted \in Scopes, NEW d \in BOOLEAN,
             BeginValidate(v, t, caller, wanted, d)
      PROVE  /\ Dead' = Dead
             /\ \A w \in Validators \ {v} : OutcomeOf(w)' = OutcomeOf(w)
             /\ OutcomeOf(v) = "none"
             /\ OutcomeOf(v)' = IF t \in Dead THEN "doomed" ELSE "open"
  BY <1>0, <1>2 DEF BeginValidate, ManagerTypeOK, Dead, Issued, DeadBecause, Expired,
                    storeVars, history
<1>3. ASSUME NEW v \in Validators,
             \/ CheckEpoch(v) \/ CheckRevoked(v) \/ CheckExpiry(v)
             \/ RefuseChild(v) \/ Finish(v)
             \/ \E c \in Tokens, capsule \in Capsules, s \in Scopes,
                   e \in {Never} \cup {g.expiry : g \in Grants} :
                     MintChild(v, c, capsule, s, e)
      PROVE  Same \/ Out({v})
  <2>1. \/ Leave(v)
        \/ /\ \E to \in {"revoked", "expiry", "use"} : vpc' = [vpc EXCEPT ![v] = to]
           /\ UNCHANGED <<vtok, delegating, vdead>>
           /\ vpc[v] \in {"epoch", "revoked", "expiry"}
    BY <1>3 DEF CheckEpoch, CheckRevoked, CheckExpiry, RefuseChild, Finish, MintChild, Check,
                Proceed
  <2>2. ASSUME Leave(v) PROVE Out({v})
    BY <1>0, <2>2 DEF Leave, ManagerTypeOK
  <2>3. ASSUME NEW to \in {"revoked", "expiry", "use"}, vpc' = [vpc EXCEPT ![v] = to],
               UNCHANGED <<vtok, delegating, vdead>>, vpc[v] \in {"epoch", "revoked", "expiry"}
        PROVE  Same
    BY <1>0, <2>3 DEF ManagerTypeOK
  <2> HIDE DEF Same, Out
  <2> QED
    BY <2>1, <2>2, <2>3
<1>4. ASSUME NEW v \in Validators, UncountedUse(v) \/ CountedUse(v)
      PROVE  \/ Out({v})
             \/ /\ Dead' = Dead
                /\ \A w \in Validators \ {v} : OutcomeOf(w)' = OutcomeOf(w)
                /\ OutcomeOf(v) = "open" /\ OutcomeOf(v)' = "accepted"
  <2>1. vpc[v] = "use" /\ UNCHANGED <<history, token, now>>
    BY <1>4 DEF UncountedUse, CountedUse, storeVars
  <2>2. Dead' = Dead
    BY <2>1 DEF Dead, Issued, DeadBecause, Expired, history
  <2>3. vdead[v] \ {"returned"} = {}
    BY <1>0, <2>1 DEF SerialInv, ExpiryInv, ManagerTypeOK
  <2>4. \/ vpc' = [vpc EXCEPT ![v] = Outcome(v)] /\ UNCHANGED <<vtok, delegating, vdead>>
        \/ Leave(v)
    BY <1>4 DEF UncountedUse, CountedUse, Proceed
  <2>5. CASE Leave(v)
    BY <1>0, <2>5 DEF Leave, ManagerTypeOK
  <2>6. CASE vpc' = [vpc EXCEPT ![v] = Outcome(v)] /\ UNCHANGED <<vtok, delegating, vdead>>
    <3>1. /\ Outcome(v) \in {"mint", "accepted"} /\ vpc'[v] = Outcome(v)
          /\ \A w \in Validators \ {v} : vpc'[w] = vpc[w]
      BY <1>0, <2>6 DEF Outcome, ManagerTypeOK
    <3> QED
      BY <2>1, <2>2, <2>3, <2>6, <3>1
  <2> QED
    BY <2>4, <2>5, <2>6
<1>5. ASSUME Restart PROVE Out(Validators)
  BY <1>5 DEF Restart
<1>6. ASSUME AdminStep \/ Tick \/ UNCHANGED vars PROVE UNCHANGED checks
  BY <1>6 DEF AdminStep, Tick, vars, managerVars
<1>7. ASSUME NEW t \in Tokens, NEW g \in Grants, Grant(t, g) PROVE UNCHANGED checks
  BY <1>7 DEF Grant
<1> HIDE DEF OutcomeOf, Passed
<1> DEFINE Answered(v) ==
             /\ Dead' = Dead
             /\ \A w \in Validators \ {v} : OutcomeOf(w)' = OutcomeOf(w)
             /\ \/ OutcomeOf(v) = "open" /\ OutcomeOf(v)' = "accepted"
                \/ /\ OutcomeOf(v) = "none"
                   /\ \E t \in Tokens : OutcomeOf(v)' = IF t \in Dead THEN "doomed"
                                                        ELSE "open"
           Claim == \/ Same
                    \/ \E S \in SUBSET Validators : Out(S)
                    \/ \E v \in Validators : Answered(v)
<1> SUFFICES Claim
  BY Zenon
<1>8. UNCHANGED checks => Claim
  BY <1>1, Zenon
<1>9. ASSUME NEW v \in Validators, Out({v}) PROVE Claim
  <2>1. {v} \in SUBSET Validators
    OBVIOUS
  <2> HIDE DEF Same, Answered, Out
  <2> QED
    BY <1>9, <2>1
<1>10. ASSUME NEW v \in Validators, NEW t \in Tokens, NEW caller \in Capsules,
              NEW wanted \in Scopes, NEW d \in BOOLEAN,
              BeginValidate(v, t, caller, wanted, d)
       PROVE  Answered(v)
  <2>1. /\ Dead' = Dead
        /\ \A w \in Validators \ {v} : OutcomeOf(w)' = OutcomeOf(w)
        /\ OutcomeOf(v) = "none"
        /\ OutcomeOf(v)' = IF t \in Dead THEN "doomed" ELSE "open"
    BY <1>2, <1>10
  <2> QED
    BY <2>1, Zenon
<1>11. ASSUME NEW v \in Validators, UncountedUse(v) \/ CountedUse(v)
       PROVE  Out({v}) \/ Answered(v)
  BY <1>4, <1>11, Zenon
<1>12. CASE Restart
  <2>1. Validators \in SUBSET Validators
    OBVIOUS
  <2> HIDE DEF Same, Answered, Out
  <2> QED
    BY <1>5, <1>12, <2>1
<1>13. ASSUME NEW v \in Validators, Answered(v) PROVE Claim
  BY <1>13, Zenon
<1> HIDE DEF Same, Out, Answered, Claim
<1>14. CASE AdminStep \/ Tick \/ UNCHANGED vars
  BY <1>6, <1>8, <1>14
<1>15. CASE \E t \in Tokens, g \in Grants : Grant(t, g)
  BY <1>7, <1>8, <1>15
<1>16. CASE \E v \in Validators :
         \/ CheckEpoch(v) \/ CheckRevoked(v) \/ CheckExpiry(v)
         \/ RefuseChild(v) \/ Finish(v)
         \/ \E c \in Tokens, capsule \in Capsules, s \in Scopes,
               e \in {Never} \cup {g.expiry : g \in Grants} :
                 MintChild(v, c, capsule, s, e)
  <2>1. PICK v \in Validators :
         \/ CheckEpoch(v) \/ CheckRevoked(v) \/ CheckExpiry(v)
         \/ RefuseChild(v) \/ Finish(v)
         \/ \E c \in Tokens, capsule \in Capsules, s \in Scopes,
               e \in {Never} \cup {g.expiry : g \in Grants} :
                 MintChild(v, c, capsule, s, e)
    BY <1>16
  <2>2. Same \/ Out({v})
    BY <1>3, <2>1, Zenon
  <2> QED
    BY <1>9, <2>2, Zenon DEF Claim
<1>17. CASE \E v \in Validators : UncountedUse(v) \/ CountedUse(v)
  BY <1>9, <1>11, <1>13, <1>17, Zenon
<1>18. CASE \E v \in Validators, t \in Tokens, caller \in Capsules, wanted \in Scopes,
               d \in BOOLEAN : BeginValidate(v, t, caller, wanted, d)
  BY <1>10, <1>13, <1>18, Zenon
<1> QED
  BY <1>12, <1>14, <1>15, <1>16, <1>17, <1>18, Zenon DEF Next

LEMMA PromiseStep ==
    ASSUME TypeOK, TypeOK', SerialInv, ExpiryInv, [Next]_vars
    PROVE  [Promise!PromiseNext]_(Promise!promiseVars)
<1> DEFINE out == [v \in Validators |-> OutcomeOf(v)]
<1>1. Dead \subseteq Dead' /\ Dead' \in SUBSET Tokens
  <2>1. Dead' \in SUBSET Tokens
    BY DEF Dead, Issued
  <2> QED
    BY <2>1, DeadGrows
<1>2. out' = [v \in Validators |-> OutcomeOf(v)']
  OBVIOUS
<1> HIDE DEF OutcomeOf, Dead
<1>3. CASE \A v \in Validators : OutcomeOf(v)' = OutcomeOf(v)
  <2>1. out' = out
    BY <1>2, <1>3
  <2>2. Promise!Kill
    BY <1>1, <2>1 DEF Promise!Kill
  <2> QED
    BY <2>2 DEF Promise!PromiseNext
<1>4. ASSUME NEW S \in SUBSET Validators,
             \A v \in Validators : OutcomeOf(v)' = IF v \in S THEN "none" ELSE OutcomeOf(v)
      PROVE  Promise!PromiseNext
  <2>1. out' = [v \in Validators |-> IF v \in S THEN "none" ELSE out[v]]
    BY <1>2, <1>4
  <2>2. Promise!Leave
    BY <1>1, <2>1 DEF Promise!Leave
  <2> QED
    BY <2>2 DEF Promise!PromiseNext
<1>5. ASSUME Dead' = Dead, NEW v \in Validators,
             \A w \in Validators \ {v} : OutcomeOf(w)' = OutcomeOf(w),
             \/ OutcomeOf(v) = "open" /\ OutcomeOf(v)' = "accepted"
             \/ /\ OutcomeOf(v) = "none"
                /\ \E t \in Tokens : OutcomeOf(v)' = IF t \in Dead THEN "doomed" ELSE "open"
      PROVE  Promise!PromiseNext
  <2>1. out' = [out EXCEPT ![v] = OutcomeOf(v)']
    BY <1>2, <1>5
  <2>2. CASE OutcomeOf(v) = "open" /\ OutcomeOf(v)' = "accepted"
    <3>1. Promise!Accept(v)
      BY <1>5, <2>1, <2>2 DEF Promise!Accept
    <3> QED
      BY <3>1 DEF Promise!PromiseNext
  <2>3. CASE /\ OutcomeOf(v) = "none"
             /\ \E t \in Tokens : OutcomeOf(v)' = IF t \in Dead THEN "doomed" ELSE "open"
    <3>1. PICK t \in Tokens : OutcomeOf(v)' = IF t \in Dead THEN "doomed" ELSE "open"
      BY <2>3
    <3>2. Promise!Begin(v, t)
      BY <1>5, <2>1, <2>3, <3>1 DEF Promise!Begin
    <3> QED
      BY <3>2 DEF Promise!PromiseNext
  <2> QED
    BY <1>5, <2>2, <2>3
<1> QED
  BY <1>3, <1>4, <1>5, OutcomeStep

\* The validation pipeline, the epoch, the revocation list and their files
\* implement the promise that nothing revoked (in one token or in mass) or
\* expired before a check began is accepted by it, and that the dead stay dead,
\* for every number of tokens, validations, restarts and write faults -- as
\* long as two administrative calls never overlap.
THEOREM Implements ==
    ASSUME OneAdmin
    PROVE  Spec => KeepsPromise
<1>1. Init => Promise!PromiseInit
  BY DEF Init, StoreInit, Promise!PromiseInit, Dead, Issued, OutcomeOf
<1>2. TypeOK /\ TypeOK' /\ SerialInv /\ ExpiryInv /\ [Next]_vars
        => [Promise!PromiseNext]_(Promise!promiseVars)
  BY PromiseStep
<1>3. Init => ExpiryInv
  BY DEF Init, ExpiryInv
<1> QED
  BY <1>1, <1>2, <1>3, TypeCorrect, ExpiryStep, SerialInvariant, PTL
     DEF Spec, KeepsPromise, Promise!PromiseSpec
=============================================================================
