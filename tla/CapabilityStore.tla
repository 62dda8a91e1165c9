--------------------------- MODULE CapabilityStore ---------------------------
(***************************************************************************)
(* elastos-runtime/src/capability/store.rs: the revocation epoch, the set  *)
(* of individually revoked tokens, the use counters, and the two files     *)
(* that carry the first two over a restart.                                *)
(*                                                                         *)
(* Both files are replaced through ONE temporary name each (epoch.tmp,     *)
(* revoked_tokens.tmp): open-and-truncate, write, rename.  Nothing orders  *)
(* two advance_epoch calls, and revoke_token persists under a read lock,   *)
(* which two callers may hold together.  So a step of the model is one     *)
(* file-system call, and a file descriptor follows its inode when another  *)
(* caller renames the temporary file away.                                 *)
(*                                                                         *)
(* A truncated or absent file loads as the initial value (epoch 0, nothing *)
(* revoked), so 0 and {} stand for both.                                   *)
(***************************************************************************)
EXTENDS Naturals, FiniteSets

CONSTANTS Tokens,       \* token identifiers
          Admins,       \* concurrent callers of advance_epoch and revoke_token
          MaxEpoch,     \* bound on the epoch explored
          MaxFaults,    \* bound on failing fs::write and fs::rename calls
          MaxCrashes,   \* bound on crashes of the process
          NoToken       \* a call that is about no token

ASSUME BoundsAssumption == /\ MaxEpoch \in Nat
                           /\ MaxFaults \in Nat
                           /\ MaxCrashes \in Nat
ASSUME NoTokenAssumption == NoToken \notin Tokens

VARIABLES
    epoch,         \* CapabilityStore.epoch
    revoked,       \* CapabilityStore.revoked_tokens
    useCount,      \* CapabilityStore.use_counts
    epochFile, epochTmp,        \* <storage_path>/epoch and epoch.tmp
    revokedFile, revokedTmp,    \* <storage_path>/revoked_tokens and its .tmp
    tmpNames,                   \* which of the two temporary names exist
    pc,            \* where each caller is
    newEpoch,      \* the epoch an advance_epoch call computed
    target,        \* the token a revoke_token call is about, NoToken at rest
    fd,            \* where the inode a caller has open for writing is now
    faults, crashes,            \* how many of each have happened
    returned,      \* tokens whose revoke_token call returned in this process
    acked,         \* ... or ever returned with its list written
    floor          \* the highest epoch an advance_epoch call returned as new

memory  == <<epoch, revoked, useCount>>
files   == <<epochFile, epochTmp, revokedFile, revokedTmp, tmpNames>>
callers == <<pc, newEpoch, target, fd>>
history == <<returned, acked, floor>>
storeVars == <<memory, files, callers, faults, crashes, history>>

Advancing == {"e_open", "e_write", "e_rename", "e_store"}
Revoking  == {"r_open", "r_write", "r_rename"}

StoreTypeOK ==
    /\ epoch \in Nat /\ epochFile \in Nat /\ epochTmp \in Nat
    /\ revoked \in SUBSET Tokens /\ revokedFile \in SUBSET Tokens
    /\ revokedTmp \in SUBSET Tokens
    /\ tmpNames \in SUBSET {"epoch.tmp", "revoked_tokens.tmp"}
    /\ useCount \in [Tokens -> Nat]
    /\ pc \in [Admins -> {"idle"} \cup Advancing \cup Revoking]
    /\ newEpoch \in [Admins -> Nat]
    /\ target \in [Admins -> Tokens \cup {NoToken}]
    /\ fd \in [Admins -> {"tmp", "final", "gone"}]
    /\ \A a \in Admins : pc[a] \in Revoking => target[a] \in Tokens
    /\ faults \in Nat /\ crashes \in Nat
    /\ returned \in SUBSET Tokens /\ acked \in SUBSET Tokens /\ floor \in Nat

StoreInit ==
    /\ epoch = 0 /\ revoked = {} /\ useCount = [t \in Tokens |-> 0]
    /\ epochFile = 0 /\ epochTmp = 0
    /\ revokedFile = {} /\ revokedTmp = {}
    /\ tmpNames = {}
    /\ pc = [a \in Admins |-> "idle"]
    /\ newEpoch = [a \in Admins |-> 0]
    /\ target = [a \in Admins |-> NoToken]
    /\ fd = [a \in Admins |-> "gone"]
    /\ faults = 0 /\ crashes = 0
    /\ returned = {} /\ acked = {} /\ floor = 0

Goto(a, label) == /\ pc' = [pc EXCEPT ![a] = label]
                  /\ UNCHANGED <<newEpoch, target, fd>>

\* A call ends and its locals with it.
Return(a) == /\ pc' = [pc EXCEPT ![a] = "idle"]
             /\ newEpoch' = [newEpoch EXCEPT ![a] = 0]
             /\ target' = [target EXCEPT ![a] = NoToken]
             /\ fd' = [fd EXCEPT ![a] = "gone"]

\* Renaming the temporary file moves every open inode one place on: what was
\* under the temporary name is now the file, what was the file is unlinked.
MovedInodes(a, writing) ==
    [b \in Admins |-> IF b = a THEN "gone"
                      ELSE IF pc[b] # writing THEN fd[b]
                      ELSE IF fd[b] = "tmp" THEN "final" ELSE "gone"]

-----------------------------------------------------------------------------
(* advance_epoch *)

\* Mutant: one epoch back.
AdvanceLoad_back(a) ==
    /\ pc[a] = "idle" /\ epoch < MaxEpoch
    /\ newEpoch' = [newEpoch EXCEPT ![a] = epoch - 1]
    /\ pc' = [pc EXCEPT ![a] = "e_open"]
    /\ UNCHANGED <<memory, files, target, fd, faults, crashes, history>>

AdvanceLoad(a) ==
    /\ pc[a] = "idle" /\ epoch < MaxEpoch
    /\ newEpoch' = [newEpoch EXCEPT ![a] = epoch + 1]
    /\ pc' = [pc EXCEPT ![a] = "e_open"]
    /\ UNCHANGED <<memory, files, target, fd, faults, crashes, history>>

EpochOpen(a) ==
    /\ pc[a] = "e_open"
    /\ epochTmp' = 0 /\ tmpNames' = tmpNames \cup {"epoch.tmp"}
    /\ pc' = [pc EXCEPT ![a] = "e_write"]
    /\ fd' = [fd EXCEPT ![a] = "tmp"]
    /\ UNCHANGED <<memory, epochFile, revokedFile, revokedTmp, newEpoch, target,
                   faults, crashes, history>>

EpochWrite(a) ==
    /\ pc[a] = "e_write"
    /\ epochTmp'  = IF fd[a] = "tmp" THEN newEpoch[a] ELSE epochTmp
    /\ epochFile' = IF fd[a] = "final" THEN newEpoch[a] ELSE epochFile
    /\ Goto(a, "e_rename")
    /\ UNCHANGED <<memory, revokedFile, revokedTmp, tmpNames,
                   faults, crashes, history>>

EpochRename(a) ==
    /\ pc[a] = "e_rename" /\ "epoch.tmp" \in tmpNames
    /\ epochFile' = epochTmp
    /\ epochTmp' = 0 /\ tmpNames' = tmpNames \ {"epoch.tmp"}
    /\ pc' = [pc EXCEPT ![a] = "e_store"]
    /\ fd' = MovedInodes(a, "e_write")
    /\ UNCHANGED <<memory, revokedFile, revokedTmp, newEpoch, target,
                   faults, crashes, history>>

\* The call that lost its temporary file to another rename aborts.
EpochRenameMissing(a) ==
    /\ pc[a] = "e_rename" /\ "epoch.tmp" \notin tmpNames
    /\ Return(a)
    /\ UNCHANGED <<memory, files, faults, crashes, history>>

EpochStore(a) ==
    /\ pc[a] = "e_store"
    /\ epoch' = newEpoch[a]
    /\ floor' = IF newEpoch[a] > floor THEN newEpoch[a] ELSE floor
    /\ Return(a)
    /\ UNCHANGED <<revoked, useCount, files, faults, crashes, returned, acked>>

-----------------------------------------------------------------------------
(* revoke_token and persist_revoked_tokens *)

\* The write lock: no caller is inside persist_revoked_tokens, which keeps the
\* read lock until it returns.
NoReader == \A b \in Admins : pc[b] \notin {"r_write", "r_rename"}

RevokeInsert(a, t) ==
    /\ pc[a] = "idle" /\ NoReader
    /\ revoked' = revoked \cup {t}
    /\ target' = [target EXCEPT ![a] = t]
    /\ pc' = [pc EXCEPT ![a] = "r_open"]
    /\ UNCHANGED <<epoch, useCount, files, newEpoch, fd, faults, crashes, history>>

\* Mutant: the list is rewritten in place, with no temporary file.
RevokedOpen_inplace(a) ==
    /\ pc[a] = "r_open"
    /\ revokedFile' = {} /\ revokedTmp' = {}
    /\ tmpNames' = tmpNames \cup {"revoked_tokens.tmp"}
    /\ pc' = [pc EXCEPT ![a] = "r_write"]
    /\ fd' = [fd EXCEPT ![a] = "tmp"]
    /\ UNCHANGED <<memory, epochFile, epochTmp, newEpoch, target,
                   faults, crashes, history>>

RevokedOpen(a) ==
    /\ pc[a] = "r_open"
    /\ revokedTmp' = {} /\ tmpNames' = tmpNames \cup {"revoked_tokens.tmp"}
    /\ pc' = [pc EXCEPT ![a] = "r_write"]
    /\ fd' = [fd EXCEPT ![a] = "tmp"]
    /\ UNCHANGED <<memory, epochFile, epochTmp, revokedFile, newEpoch, target,
                   faults, crashes, history>>

\* Mutant: only the token of this call is written.
RevokedWrite_own(a) ==
    /\ pc[a] = "r_write"
    /\ revokedTmp'  = IF fd[a] = "tmp" THEN {target[a]} ELSE revokedTmp
    /\ revokedFile' = IF fd[a] = "final" THEN {target[a]} ELSE revokedFile
    /\ Goto(a, "r_rename")
    /\ UNCHANGED <<memory, epochFile, epochTmp, tmpNames, faults, crashes, history>>

RevokedWrite(a) ==
    /\ pc[a] = "r_write"
    /\ revokedTmp'  = IF fd[a] = "tmp" THEN revoked ELSE revokedTmp
    /\ revokedFile' = IF fd[a] = "final" THEN revoked ELSE revokedFile
    /\ Goto(a, "r_rename")
    /\ UNCHANGED <<memory, epochFile, epochTmp, tmpNames, faults, crashes, history>>

RevokedRename(a) ==
    /\ pc[a] = "r_rename" /\ "revoked_tokens.tmp" \in tmpNames
    /\ revokedFile' = revokedTmp
    /\ revokedTmp' = {} /\ tmpNames' = tmpNames \ {"revoked_tokens.tmp"}
    /\ returned' = returned \cup {target[a]}
    /\ acked' = acked \cup {target[a]}
    /\ pc' = [pc EXCEPT ![a] = "idle"]
    /\ target' = [target EXCEPT ![a] = NoToken]
    /\ fd' = MovedInodes(a, "r_write")
    /\ UNCHANGED <<memory, epochFile, epochTmp, newEpoch, faults, crashes, floor>>

\* A failed persist is logged; revoke_token returns all the same.
RevokedRenameMissing(a) ==
    /\ pc[a] = "r_rename" /\ "revoked_tokens.tmp" \notin tmpNames
    /\ returned' = returned \cup {target[a]}
    /\ Return(a)
    /\ UNCHANGED <<memory, files, faults, crashes, acked, floor>>

-----------------------------------------------------------------------------
(* Failures *)

\* fs::write or fs::rename fails: advance_epoch aborts with nothing changed in
\* memory, revoke_token logs and returns.
IoFault(a) ==
    /\ faults < MaxFaults
    /\ pc[a] \in (Advancing \ {"e_store"}) \cup Revoking
    /\ faults' = faults + 1
    /\ returned' = IF pc[a] \in Revoking THEN returned \cup {target[a]} ELSE returned
    /\ Return(a)
    /\ UNCHANGED <<memory, files, crashes, acked, floor>>

\* Mutant: load_state reads the epoch alone.
Crash_nolist ==
    /\ crashes < MaxCrashes
    /\ crashes' = crashes + 1
    /\ epoch' = epochFile /\ revoked' = {}
    /\ useCount' = [t \in Tokens |-> 0]
    /\ pc' = [a \in Admins |-> "idle"]
    /\ newEpoch' = [a \in Admins |-> 0]
    /\ target' = [a \in Admins |-> NoToken]
    /\ fd' = [a \in Admins |-> "gone"]
    /\ returned' = {}
    /\ UNCHANGED <<files, faults, acked, floor>>

\* The process dies and a new one runs with_persistence / load_state: use
\* counters start empty, temporary files stay, calls in flight are gone.
Crash ==
    /\ crashes < MaxCrashes
    /\ crashes' = crashes + 1
    /\ epoch' = epochFile /\ revoked' = revokedFile
    /\ useCount' = [t \in Tokens |-> 0]
    /\ pc' = [a \in Admins |-> "idle"]
    /\ newEpoch' = [a \in Admins |-> 0]
    /\ target' = [a \in Admins |-> NoToken]
    /\ fd' = [a \in Admins |-> "gone"]
    /\ returned' = {}
    /\ UNCHANGED <<files, faults, acked, floor>>

\* A step of one caller, by itself a step of the store.
CallerStep(a) ==
    \/ AdvanceLoad(a) \/ EpochOpen(a) \/ EpochWrite(a)
    \/ EpochRename(a) \/ EpochRenameMissing(a) \/ EpochStore(a)
    \/ \E t \in Tokens : RevokeInsert(a, t)
    \/ RevokedOpen(a) \/ RevokedWrite(a)
    \/ RevokedRename(a) \/ RevokedRenameMissing(a)
    \/ IoFault(a)

-----------------------------------------------------------------------------
(* Operations other components call as one step *)

\* Mutant: one epoch of grace.
IsEpochValid_grace(tokenEpoch) == tokenEpoch + 1 >= epoch

\* is_epoch_valid
IsEpochValid(tokenEpoch) == tokenEpoch >= epoch

\* Mutant: the last use is granted twice.
MayUse_one_more(t, limit) == useCount[t] <= limit

\* try_use_token's check, made under the same write lock as its increment
MayUse(t, limit) == useCount[t] < limit
CountUse(t) == useCount' = [useCount EXCEPT ![t] = @ + 1]

-----------------------------------------------------------------------------
(* Properties of the store *)

\* What a restart would load covers every revocation that was acknowledged,
\* whatever instant the crash hits ("atomic write via temp + rename",
\* store.rs:226).  It needs the calls not to overlap.
RevocationsDurable == acked \subseteq revokedFile

\* When no persist is under way, the list on disk holds every revocation whose
\* call reported no error -- also after overlapping calls shared one temporary
\* file.  A fault or a crash between two of them may break it.
RevocationsDurableAtRest ==
    (faults = 0 /\ crashes = 0 /\ \A a \in Admins : pc[a] \notin Revoking) => acked \subseteq revokedFile

\* A restart never falls behind an epoch that advance_epoch returned ("Persists
\* BEFORE updating in-memory to prevent crash-revive", store.rs:74).
EpochDurable == floor <= epochFile
=============================================================================
