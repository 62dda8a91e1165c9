----------------------- MODULE CommandLineUpdate_proofs -----------------------
(***************************************************************************)
(* What holds of the command-line update for any number of release files,  *)
(* any of them new or the same in both releases, with or without support   *)
(* assets, and for any number of crashes, errors and runs of the command.  *)
(***************************************************************************)
EXTENDS CommandLineUpdate, InstallTransaction_proofs

\* Nothing has been installed before the commit, and what is committed is whole.
WholeInPhase ==
    /\ InPhase({"Staging", "Prepared"}) => \A i \in Items : live[i] \in {Original(i), "foreign"}
    /\ InPhase({"Committed"}) => \A i \in Entries : live[i] \in {Candidate(i), "foreign"}

\* Support assets are touched only as entries of the journal.
SupportInJournal ==
    /\ Pending /\ ~journal.support => live[Support] \in {Original(Support), "foreign"}
    /\ InPhase({"Committing", "Committed"}) => journal.support = withSupport

\* A task that moves items moves none that its owner has edited.
NoneForeign ==
    /\ task = "activating" => \A f \in Files : live[f] # "foreign"
    /\ task \in {"committing", "restoring"} => \A i \in Entries : live[i] # "foreign"

InstallInv == WholeInPhase /\ SupportInJournal /\ NoneForeign
IInv == TypeOK /\ TransactionInv /\ InstallInv /\ (cli = "off" => Idle)

-----------------------------------------------------------------------------
(* InstallInv, operation by operation. *)

\* A step that writes neither the journal nor an item.
LEMMA QuietKeeps ==
  ASSUME InstallInv, UNCHANGED <<journal, live, withSupport>>,
         task' = task \/ task' \in {"idle", "failing", "staging", "cleaning"}
  PROVE  InstallInv'
  BY DEF InstallInv, WholeInPhase, SupportInJournal, NoneForeign, InPhase, Pending, Entries

LEMMA PrepareInv == Prepare => InstallInv'
<1> SUFFICES ASSUME Prepare PROVE InstallInv'
  OBVIOUS
<1>1. /\ journal'.phase = "Staging" /\ journal'.support = FALSE
      /\ live' = live /\ task' = "staging" /\ \A i \in Items : live[i] = Original(i)
  BY DEF Prepare, Write, diskVars, Preparable
<1> QED
  BY <1>1, ItemFacts DEF InstallInv, WholeInPhase, SupportInJournal, NoneForeign, InPhase, Pending

LEMMA PrepareSupportInv == InstallInv /\ TransactionInv /\ PrepareSupport => InstallInv'
<1> SUFFICES ASSUME InstallInv, TransactionInv, PrepareSupport PROVE InstallInv'
  OBVIOUS
<1>1. journal \in Journal /\ InPhase({"Prepared"})
  BY DEF TransactionInv, DiskTypeOK, PrepareSupport, InPhase, Pending
<1>2. journal'.phase = "Staging" /\ journal'.support = TRUE /\ live' = live /\ task' = "staging"
  BY <1>1 DEF PrepareSupport, Write, Journal, KeepDisk, diskVars
<1> QED
  BY <1>1, <1>2 DEF InstallInv, WholeInPhase, SupportInJournal, NoneForeign, InPhase, Pending

\* A step that only changes the phase.
LEMMA PhaseFacts ==
  ASSUME TransactionInv, Pending, KeepDisk,
         NEW phase \in {"Staging", "Prepared", "Committing", "Committed", "Recovering"},
         Write([journal EXCEPT !.phase = phase])
  PROVE  /\ journal'.phase = phase /\ journal'.support = journal.support
         /\ live' = live /\ withSupport' = withSupport /\ Entries' = Entries /\ Pending'
<1>1. journal \in Journal
  BY DEF TransactionInv, DiskTypeOK, Pending
<1>2. journal' \in Journal /\ journal'.phase = phase /\ journal'.support = journal.support
  BY <1>1, JournalFacts DEF Write
<1> QED
  BY <1>2, JournalAssumption DEF KeepDisk, diskVars, Entries, Pending

LEMMA StagingDoneInv == InstallInv /\ TransactionInv /\ StagingDone => InstallInv'
<1> SUFFICES ASSUME InstallInv, TransactionInv, StagingDone PROVE InstallInv'
  OBVIOUS
<1>1. InPhase({"Staging"}) /\ task' = "idle"
  BY DEF TransactionInv, TaskInPhase, StagingDone
<1>2. /\ journal'.phase = "Prepared" /\ journal'.support = journal.support
      /\ live' = live /\ withSupport' = withSupport
  BY <1>1, PhaseFacts DEF StagingDone, InPhase
<1> QED
  BY <1>1, <1>2 DEF InstallInv, WholeInPhase, SupportInJournal, NoneForeign, InPhase, Pending

LEMMA CommittingInv ==
  ASSUME InstallInv, TransactionInv, Pending, KeepDisk,
         Write([journal EXCEPT !.phase = "Committing"]),
         task' \in {"activating", "committing"},
         journal.support = withSupport,
         \A f \in Files : live[f] # "foreign",
         task' = "committing" => \A i \in Entries : live[i] # "foreign"
  PROVE  InstallInv'
<1>1. /\ journal'.phase = "Committing" /\ journal'.support = journal.support
      /\ live' = live /\ withSupport' = withSupport /\ Entries' = Entries
  BY PhaseFacts
<1> QED
  BY <1>1 DEF InstallInv, WholeInPhase, SupportInJournal, NoneForeign, InPhase, Pending

LEMMA ActivateInv == InstallInv /\ TransactionInv /\ AllStaged /\ Activate => InstallInv'
  BY CommittingInv, ContentFacts DEF Activate, AllStaged, InPhase

LEMMA CommitInv ==
  InstallInv /\ TransactionInv /\ Commit /\ (InPhase({"Prepared"}) => AllStaged) => InstallInv'
<1> SUFFICES ASSUME InstallInv, TransactionInv, Commit, InPhase({"Prepared"}) => AllStaged
             PROVE  InstallInv'
  OBVIOUS
<1>1. journal.support = withSupport
  BY DEF InstallInv, SupportInJournal, Commit, AllStaged, InPhase
<1>2. \A i \in Entries : live[i] # "foreign"
  BY ContentFacts, ItemFacts, EntryFacts DEF Commit, PrefixAdmitted, Entries
<1> QED
  BY <1>1, <1>2, EntryFacts, CommittingInv DEF Commit, InPhase

\* What a commit moves in.
LEMMA MoveInInv ==
  ASSUME NEW i \in Entries, TransactionInv, InstallInv, MoveIn(i),
         task \in {"activating", "committing"}
  PROVE  InstallInv'
<1>1. /\ InPhase({"Committing"})
      /\ \A k \in Items : live'[k] = IF k = i THEN Candidate(i) ELSE live[k]
  BY EntryFacts DEF TransactionInv, TaskInPhase, DiskTypeOK, MoveIn
<1>2. UNCHANGED <<journal, task, withSupport>> /\ Entries' = Entries
  BY DEF MoveIn, Entries
<1>3. ~journal.support => i # Support
  BY ItemFacts DEF Entries
<1> QED
  BY <1>1, <1>2, <1>3, ContentFacts, ItemFacts, EntryFacts
  DEF InstallInv, WholeInPhase, SupportInJournal, NoneForeign, InPhase, Pending

LEMMA RemoveLiveSupportInv ==
  ASSUME TransactionInv, InstallInv, RemoveLiveSupport, Support \in Entries,
         task \in {"committing", "restoring"}
  PROVE  InstallInv'
<1>1. /\ InPhase({"Committing", "Recovering"})
      /\ \A k \in Items : k # Support => live'[k] = live[k]
      /\ live'[Support] # "foreign"
  BY RemovedFacts, ItemFacts DEF TransactionInv, TaskInPhase, DiskTypeOK, RemoveLiveSupport, InPhase
<1>2. UNCHANGED <<journal, task, withSupport>> /\ Entries' = Entries
  BY DEF RemoveLiveSupport, Entries
<1>3. journal.support
  BY ItemFacts DEF Entries
<1> QED
  BY <1>1, <1>2, <1>3, ItemFacts, EntryFacts
  DEF InstallInv, WholeInPhase, SupportInJournal, NoneForeign, InPhase, Pending

LEMMA ActivateFileInv ==
  ASSUME NEW f \in Files PROVE TransactionInv /\ InstallInv /\ ActivateFile(f) => InstallInv'
  BY MoveInInv, EntryFacts DEF ActivateFile

LEMMA CommitItemInv ==
  ASSUME NEW i \in Items PROVE TransactionInv /\ InstallInv /\ CommitItem(i) => InstallInv'
  BY MoveInInv, RemoveLiveSupportInv DEF CommitItem

\* The phase Committed is written by a task that has put all candidates in place.
LEMMA CommittedInv ==
  ASSUME InstallInv, TransactionInv, KeepDisk, AllCandidate, task = "committing",
         Write([journal EXCEPT !.phase = "Committed"]),
         task' \in {"idle", "failing", "cleaning"}
  PROVE  InstallInv'
<1>1. InPhase({"Committing"})
  BY DEF TransactionInv, TaskInPhase
<1>2. /\ journal'.phase = "Committed" /\ journal'.support = journal.support
      /\ live' = live /\ withSupport' = withSupport /\ Entries' = Entries
  BY <1>1, PhaseFacts DEF InPhase
<1> QED
  BY <1>1, <1>2 DEF InstallInv, WholeInPhase, SupportInJournal, NoneForeign, InPhase, Pending, AllCandidate

LEMMA CommitDoneInv == InstallInv /\ TransactionInv /\ CommitDone => InstallInv'
  BY CommittedInv DEF CommitDone

LEMMA FaultInv == InstallInv /\ TransactionInv /\ Fault => InstallInv'
<1> SUFFICES ASSUME InstallInv, TransactionInv, Fault PROVE InstallInv'
  OBVIOUS
<1>1. CASE UNCHANGED journal
  BY <1>1, QuietKeeps DEF Fault, KeepDisk, diskVars
<1>2. CASE ~UNCHANGED journal
  BY <1>2, CommittedInv DEF Fault
<1> QED
  BY <1>1, <1>2

\* Recovery.
LEMMA RecoveringFacts ==
  ASSUME journal \in Journal, KeepDisk, NEW phase \in RestartPhases, Write(Restarting(phase))
  PROVE  /\ journal'.phase = "Recovering" /\ journal'.support = journal.support
         /\ live' = live /\ withSupport' = withSupport /\ Entries' = Entries /\ Pending'
  BY RestartingFacts, JournalAssumption DEF Write, KeepDisk, diskVars, Entries, Pending

LEMMA BeginRecoveryInv ==
  ASSUME NEW b \in BOOLEAN PROVE InstallInv /\ TransactionInv /\ BeginRecovery(b) => InstallInv'
<1> SUFFICES ASSUME InstallInv, TransactionInv, BeginRecovery(b) PROVE InstallInv'
  OBVIOUS
<1>1. CASE UNCHANGED journal /\ task' \in {"idle", "cleaning"}
  BY <1>1, QuietKeeps DEF BeginRecovery, KeepDisk, diskVars
<1>2. CASE ~(UNCHANGED journal /\ task' \in {"idle", "cleaning"})
  <2>1. Pending /\ Restorable /\ BeginRestore /\ KeepDisk
    BY <1>2 DEF BeginRecovery, Recoverable
  <2>2. /\ journal'.phase = "Recovering" /\ journal'.support = journal.support
        /\ live' = live /\ withSupport' = withSupport /\ Entries' = Entries
        /\ task' = "restoring"
    BY <2>1, RecoveringFacts DEF BeginRestore, RestartPhases, TransactionInv, DiskTypeOK, Pending
  <2>3. \A i \in Entries : live[i] # "foreign"
    BY <2>1, RestorableFacts
  <2> QED
    BY <2>1, <2>2, <2>3 DEF InstallInv, WholeInPhase, SupportInJournal, NoneForeign, InPhase, Pending
<1> QED
  BY <1>1, <1>2

LEMMA RestoreItemInv ==
  ASSUME NEW i \in Items PROVE TransactionInv /\ InstallInv /\ RestoreItem(i) => InstallInv'
<1> SUFFICES ASSUME TransactionInv, InstallInv, RestoreItem(i) PROVE InstallInv'
  OBVIOUS
<1>1. CASE i = Support /\ live[i] # "none"
  BY <1>1, RemoveLiveSupportInv DEF RestoreItem
<1>2. CASE ~(i = Support /\ live[i] # "none")
  <2>1. MoveBack(i) /\ i \in Entries /\ InPhase({"Recovering"}) /\ task = "restoring"
    BY <1>2 DEF RestoreItem, TransactionInv, TaskInPhase
  <2>2. \A k \in Items : live'[k] = IF k = i THEN Original(i) ELSE live[k]
    BY <2>1, EntryFacts DEF TransactionInv, DiskTypeOK, MoveBack
  <2>3. UNCHANGED <<journal, task, withSupport>> /\ Entries' = Entries
    BY <2>1 DEF MoveBack, Entries
  <2> QED
    BY <2>1, <2>2, <2>3, ContentFacts, ItemFacts, EntryFacts
    DEF InstallInv, WholeInPhase, SupportInJournal, NoneForeign, InPhase, Pending
<1> QED
  BY <1>1, <1>2

LEMMA RestoreDoneInv == InstallInv /\ TransactionInv /\ RestoreDone => InstallInv'
<1> SUFFICES ASSUME InstallInv, TransactionInv, RestoreDone PROVE InstallInv'
  OBVIOUS
<1>1. CASE journal.restart = "none"
  BY <1>1, QuietKeeps DEF RestoreDone, KeepDisk, diskVars
<1>2. CASE journal.restart # "none"
  <2>1. journal \in Journal /\ Pending
    BY DEF RestoreDone, TransactionInv, TaskInPhase, DiskTypeOK, InPhase, Pending
  <2>2. /\ journal'.phase = "Recovering" /\ journal'.support = journal.support
        /\ live' = live /\ withSupport' = withSupport /\ Entries' = Entries /\ task' = "idle"
    BY <1>2, <2>1, RecoveringFacts DEF RestoreDone, RestartPhases
  <2> QED
    BY <2>1, <2>2 DEF InstallInv, WholeInPhase, SupportInJournal, NoneForeign, InPhase, Pending
<1> QED
  BY <1>1, <1>2

LEMMA DropJournalInv == InstallInv /\ DropJournal => InstallInv'
  BY DEF DropJournal, InstallInv, WholeInPhase, SupportInJournal, NoneForeign, InPhase, Pending

LEMMA TransactionStepInv == InstallInv /\ TransactionInv /\ TransactionStep => InstallInv' /\ TransactionInv'
<1> SUFFICES ASSUME InstallInv, TransactionInv, TransactionStep PROVE InstallInv' /\ TransactionInv'
  OBVIOUS
<1>1. TransactionInv'
  BY TransactionStepKeeps DEF InstallInv, NoneForeign
<1>2. ASSUME NEW i \in Items, StageItem(i) \/ CommitItem(i) \/ RestoreItem(i) PROVE InstallInv'
  BY <1>2, CommitItemInv, RestoreItemInv, QuietKeeps DEF StageItem
<1>3. ASSUME NEW f \in Files, ActivateFile(f) \/ DropFileScratch(f) PROVE InstallInv'
  BY <1>3, ActivateFileInv, QuietKeeps DEF DropFileScratch
<1>4. CASE ActivationDone
  BY <1>1, <1>4, QuietKeeps DEF ActivationDone, KeepDisk, diskVars
<1>5. CASE DropSupportScratch
  BY <1>1, <1>5, QuietKeeps DEF DropSupportScratch
<1>6. CASE RestoreOnError
  BY <1>1, <1>6, BeginRecoveryInv DEF RestoreOnError
<1> QED
  BY <1>1, <1>2, <1>3, <1>4, <1>5, <1>6, StagingDoneInv, CommitDoneInv, RestoreDoneInv, DropJournalInv
  DEF TransactionStep
-----------------------------------------------------------------------------
(* The inductive invariant. *)

LEMMA InitInv == Init => IInv
<1> SUFFICES ASSUME Init PROVE IInv
  OBVIOUS
<1>1. TransactionInv
  BY InitKeeps DEF Init
<1>2. TypeOK
  BY <1>1, CrashesAssumption DEF TransactionInv, TypeOK, Init, Places
<1>3. InstallInv
  BY ItemFacts
  DEF Init, TransactionInit, InstallInv, WholeInPhase, SupportInJournal, NoneForeign, InPhase, Pending
<1>4. Idle
  BY DEF Init, TransactionInit, Idle
<1> QED
  BY <1>1, <1>2, <1>3, <1>4 DEF IInv

\* An operation that the command begins, with its place afterwards.
LEMMA CommandKeeps ==
  ASSUME IInv, TransactionInv', InstallInv', cli' \in Places \ {"off"}, UNCHANGED crashes
  PROVE  IInv'
<1>1. TypeOK'
  BY DEF IInv, TypeOK, TransactionInv
<1> QED
  BY <1>1 DEF IInv

LEMMA RecoverInv == InstallInv /\ TransactionInv /\ Recover => InstallInv' /\ TransactionInv'
  BY BeginRecoveryInv, RecoverKeeps DEF Recover

LEMMA ExitKeeps == ASSUME IInv, Exit, Idle PROVE IInv'
<1>1. TransactionInv' /\ InstallInv'
  BY EndTaskKeeps, QuietKeeps DEF IInv, Exit, Idle, transactionVars, diskVars, KeepDisk
<1>2. TypeOK' /\ Idle'
  BY <1>1 DEF IInv, TypeOK, TransactionInv, Exit, Goto, Places, transactionVars, Idle
<1> QED
  BY <1>1, <1>2 DEF IInv

LEMMA CommandStep == IInv /\ (Run \/ Command) => IInv'
<1> SUFFICES ASSUME IInv, Run \/ Command PROVE IInv'
  OBVIOUS
<1> USE DEF Goto, Places
<1>1. TransactionInv /\ InstallInv
  BY DEF IInv
<1>2. CASE Run
  BY <1>1, <1>2, RecoverInv, CommandKeeps DEF Run
<1>3. CASE Begin
  BY <1>1, <1>3, PrepareKeeps, PrepareInv, CommandKeeps DEF Begin
<1>4. CASE StageSupport
  BY <1>1, <1>4, PrepareSupportKeeps, PrepareSupportInv, CommandKeeps DEF StageSupport
<1>5. CASE ActivatePrefix
  BY <1>1, <1>5, ActivateKeeps, ActivateInv, CommandKeeps DEF ActivatePrefix
<1>6. CASE CommitAtOnce
  BY <1>1, <1>6, CommitKeeps, CommitInv, CommandKeeps DEF CommitAtOnce
<1>7. CASE Abort
  BY <1>1, <1>7, RecoverInv, CommandKeeps DEF Abort
<1>8. CASE RefreshAndCommit
  <2>1. ~InPhase({"Prepared"})
    BY <1>8 DEF RefreshAndCommit, ActivatedPrefix, InPhase
  <2> QED
    BY <1>1, <1>8, <2>1, CommitKeeps, CommitInv, CommandKeeps DEF RefreshAndCommit
<1>9. CASE RefreshFails
  BY <1>1, <1>9, RecoverInv, CommandKeeps DEF RefreshFails
<1>10. CASE End
  BY <1>10, ExitKeeps DEF End, At
<1>11. CASE WorkOnTask
  <2>1. cli # "off"
    BY <1>11, <1>1 DEF WorkOnTask, IInv, Idle, TransactionStep, StageItem, CommitItem, RestoreItem,
       ActivateFile, DropFileScratch, StagingDone, ActivationDone, CommitDone, RestoreOnError,
       RestoreDone, DropSupportScratch, DropJournal
  <2> QED
    BY <1>1, <1>11, <2>1, TransactionStepInv, CommandKeeps DEF WorkOnTask, IInv, TypeOK
<1> QED
  BY <1>2, <1>3, <1>4, <1>5, <1>6, <1>7, <1>8, <1>9, <1>10, <1>11 DEF Command

LEMMA CrashStep == IInv /\ Crash => IInv'
<1> SUFFICES ASSUME IInv, Crash PROVE IInv'
  OBVIOUS
<1>1. TransactionInv'
  BY EndTaskKeeps DEF IInv, Crash
<1>2. InstallInv'
  BY QuietKeeps DEF IInv, Crash, KeepDisk, diskVars
<1>3. TypeOK' /\ Idle'
  BY <1>1, CrashesAssumption DEF IInv, TypeOK, TransactionInv, Crash, Places, Idle
<1> QED
  BY <1>1, <1>2, <1>3 DEF IInv

LEMMA EditStep == ASSUME NEW i \in Items PROVE IInv /\ Edit(i) => IInv'
<1> SUFFICES ASSUME IInv, Edit(i) PROVE IInv'
  OBVIOUS
<1>1. /\ task = "idle" /\ UNCHANGED <<journal, stage, rollback, supportDir, task, withSupport, cli, crashes>>
      /\ Entries' = Entries
  BY DEF IInv, Edit, Idle, Entries
<1>2. live' = [live EXCEPT ![i] = "foreign"] /\ live' \in [Items -> Contents]
  BY DEF IInv, TypeOK, DiskTypeOK, Edit, Contents
<1>3. \A k \in Items : live'[k] = live[k] \/ live'[k] = "foreign"
  BY <1>2 DEF IInv, TypeOK, DiskTypeOK
<1>4. DiskTypeOK'
  BY <1>1, <1>2 DEF IInv, TypeOK, DiskTypeOK
<1>5. LastCopy' /\ TaskInPhase'
  BY <1>1, <1>3, EntryFacts
  DEF IInv, TransactionInv, LastCopy, TaskInPhase, InPhase, Pending, Kept
<1>6. InstallInv'
  BY <1>1, <1>3, EntryFacts, ItemFacts
  DEF IInv, InstallInv, WholeInPhase, SupportInJournal, NoneForeign, InPhase, Pending
<1> QED
  BY <1>1, <1>4, <1>5, <1>6 DEF IInv, TypeOK, TransactionInv, Idle

LEMMA StepInv == IInv /\ [Next]_vars => IInv'
<1> SUFFICES ASSUME IInv, [Next]_vars PROVE IInv'
  OBVIOUS
<1>1. CASE TaskFails
  <2>1. cli # "off" /\ TransactionInv' /\ InstallInv'
    BY <1>1, FaultKeeps, FaultInv DEF IInv, TaskFails, Fault, Idle
  <2> QED
    BY <1>1, <2>1, CommandKeeps DEF TaskFails, IInv, TypeOK
<1>2. CASE UNCHANGED vars
  BY <1>2 DEF vars, transactionVars, diskVars, IInv, TypeOK, DiskTypeOK, TransactionInv, TaskInPhase, LastCopy,
     InstallInv, WholeInPhase, SupportInJournal, NoneForeign, InPhase, Pending, Entries, Kept, AllOriginal, Idle
<1> QED
  BY <1>1, <1>2, CommandStep, CrashStep, EditStep DEF Next

THEOREM Invariance == Spec => []IInv
  BY InitInv, StepInv, PTL DEF Spec

-----------------------------------------------------------------------------
(* The properties. *)

\* The journal, the scratch and the command stay well typed: what is written
\* to the journal is always a whole journal.
THEOREM UpdateTypeCorrect == Spec => []TypeOK
<1>1. IInv => TypeOK
  BY DEF IInv
<1> QED
  BY <1>1, Invariance, PTL

\* However often the command is killed, and whatever fails, neither a commit nor
\* a recovery consumes the last copy of an original before the commit is whole.
THEOREM RollbackAlwaysKept == Spec => []RollbackKept
<1>1. IInv => RollbackKept
  BY DEF IInv, TransactionInv, LastCopy, RollbackKept, InPhase
<1> QED
  BY <1>1, Invariance, PTL

\* What an operation begins it does not do: only steps of a task change items.
LEMMA BeginsQuietly ==
  Run \/ Begin \/ StageSupport \/ ActivatePrefix \/ CommitAtOnce \/ Abort \/ RefreshAndCommit
      \/ RefreshFails \/ End \/ TaskFails \/ Crash
  => live' = live
<1>1. Recover \/ Prepare \/ PrepareSupport \/ Activate \/ Commit \/ Fault => live' = live
  BY DEF Recover, BeginRecovery, Prepare, PrepareSupport, Activate, Commit, Fault, KeepDisk, diskVars
<1> QED
  BY <1>1 DEF Run, Begin, StageSupport, ActivatePrefix, CommitAtOnce, Abort, RefreshAndCommit,
     RefreshFails, End, Exit, TaskFails, Crash, transactionVars, KeepDisk, diskVars

\* The steps of a task that change an item.
LEMMA MovesOnly ==
  ASSUME TransactionStep
  PROVE  \/ live' = live
         \/ \E i \in Items : CommitItem(i) \/ RestoreItem(i)
         \/ \E f \in Files : ActivateFile(f)
<1>1. ASSUME NEW i \in Items, StageItem(i) PROVE live' = live
  BY <1>1 DEF StageItem
<1>2. ASSUME NEW f \in Files, DropFileScratch(f) PROVE live' = live
  BY <1>2 DEF DropFileScratch
<1>3. StagingDone \/ ActivationDone \/ CommitDone \/ RestoreOnError \/ RestoreDone \/ DropJournal => live' = live
  BY DEF StagingDone, ActivationDone, CommitDone, RestoreOnError, BeginRecovery, RestoreDone, DropJournal,
     KeepDisk, diskVars
<1>4. DropSupportScratch => live' = live
  BY DEF DropSupportScratch
<1> QED
  BY <1>1, <1>2, <1>3, <1>4 DEF TransactionStep

\* A move concerns one item of the journal, one that is not foreign.
LEMMA MovesKeepEdits ==
  ASSUME IInv, TransactionStep, NEW k \in Items PROVE EditKept(k)
<1>1. ASSUME NEW i \in Entries, live[i] # "foreign", MoveIn(i) \/ MoveBack(i) PROVE EditKept(k)
  BY <1>1, EntryFacts DEF MoveIn, MoveBack, EditKept, IInv, TypeOK, DiskTypeOK
<1>2. ASSUME Support \in Entries, live[Support] # "foreign", RemoveLiveSupport PROVE EditKept(k)
  BY <1>2, EntryFacts DEF RemoveLiveSupport, EditKept, IInv, TypeOK, DiskTypeOK
<1>3. ASSUME NEW i \in Items, CommitItem(i) \/ RestoreItem(i) PROVE EditKept(k)
  BY <1>1, <1>2, <1>3 DEF CommitItem, RestoreItem, IInv, InstallInv, NoneForeign
<1>4. ASSUME NEW f \in Files, ActivateFile(f) PROVE EditKept(k)
  BY <1>1, <1>4, EntryFacts DEF ActivateFile, IInv, InstallInv, NoneForeign
<1> QED
  BY <1>3, <1>4, MovesOnly DEF EditKept

\* A file that its owner has edited is never overwritten, by no update and no
\* recovery, however the command is interrupted.
THEOREM EditsAlwaysKept == Spec => EditsKept
<1>1. ASSUME IInv, [Next]_vars PROVE [StepKeepsEdits]_vars
  <2> SUFFICES ASSUME ~UNCHANGED vars, NEW k \in Items PROVE EditKept(k)
    BY DEF StepKeepsEdits
  <2>1. ASSUME NEW i \in Items, Edit(i) PROVE EditKept(k)
    BY <1>1, <2>1 DEF Edit, EditKept, IInv, TypeOK, DiskTypeOK
  <2>2. CASE WorkOnTask
    BY <1>1, <2>2, MovesKeepEdits DEF WorkOnTask
  <2> QED
    BY <1>1, <2>1, <2>2, BeginsQuietly DEF Next, Command, EditKept
<1> QED
  BY <1>1, Invariance, PTL DEF Spec, EditsKept

-----------------------------------------------------------------------------
(* The refinement of ReleaseSwitch. *)

\* Whether a journal is there changes with the first write and the last removal,
\* and without one nothing is changed.
LEMMA PendingSteps ==
  ASSUME IInv, Next
  PROVE  \/ Pending /\ Pending'
         \/ ~Pending /\ ~Pending' /\ live' = live /\ withSupport' = withSupport
         \/ ~Pending /\ Prepare
         \/ Pending /\ DropJournal
<1> DEFINE Kind ==
         \/ Pending /\ Pending'
         \/ ~Pending /\ ~Pending' /\ live' = live /\ withSupport' = withSupport
         \/ ~Pending /\ Prepare
         \/ Pending /\ DropJournal
<1>1. TransactionInv /\ (Pending => journal \in Journal)
  BY DEF IInv, TransactionInv, DiskTypeOK, Pending
<1>2. ASSUME UNCHANGED <<journal, live, withSupport>> PROVE Kind
  BY <1>2 DEF Pending
<1>3. ASSUME Pending, KeepDisk, NEW phase \in {"Staging", "Prepared", "Committing", "Committed", "Recovering"},
             Write([journal EXCEPT !.phase = phase]) PROVE Pending'
  BY <1>1, <1>3, PhaseFacts
<1>4. ASSUME NEW b \in BOOLEAN, BeginRecovery(b) PROVE Kind
  BY <1>1, <1>2, <1>4, RecoveringFacts
  DEF BeginRecovery, BeginRestore, RestartPhases, KeepDisk, diskVars
<1>5. Recover \/ RestoreOnError => Kind
  BY <1>4 DEF Recover, RestoreOnError
<1>6. ASSUME PrepareSupport PROVE Kind
  <2>1. Pending /\ journal' = [journal EXCEPT !.phase = "Staging", !.support = TRUE]
    BY <1>6 DEF PrepareSupport, Write, InPhase
  <2>2. journal' \in Journal
    BY <1>1, <2>1, JournalFacts
  <2> QED
    BY <2>1, <2>2, JournalAssumption DEF Pending
<1>7. Activate \/ Commit => Kind
  BY <1>3 DEF Activate, Commit, InPhase
<1>8. Fault => Kind
  <2>1. CASE UNCHANGED journal
    BY <1>2, <2>1 DEF Fault, KeepDisk, diskVars
  <2>2. CASE ~UNCHANGED journal
    BY <1>1, <1>3, <2>2 DEF Fault, TaskInPhase, InPhase, TransactionInv
  <2> QED
    BY <2>1, <2>2
<1>9. ASSUME TransactionStep PROVE Kind
  <2>1. task \notin {"idle", "failing"} => Pending
    BY <1>1 DEF TransactionInv, TaskInPhase, InPhase, DiskTypeOK, Tasks
  <2>2. ASSUME NEW i \in Items, StageItem(i) \/ CommitItem(i) \/ RestoreItem(i) PROVE Kind
    BY <2>1, <2>2 DEF StageItem, CommitItem, RestoreItem, MoveIn, MoveBack, RemoveLiveSupport, Pending
  <2>3. ASSUME NEW f \in Files, ActivateFile(f) \/ DropFileScratch(f) PROVE Kind
    BY <2>1, <2>3 DEF ActivateFile, MoveIn, DropFileScratch, Pending
  <2>4. StagingDone \/ CommitDone => Kind
    BY <1>3, <2>1 DEF StagingDone, CommitDone
  <2>5. ActivationDone \/ DropSupportScratch => Kind
    BY <2>1 DEF ActivationDone, DropSupportScratch, Pending
  <2>6. RestoreDone => Kind
    BY <1>1, <2>1, RecoveringFacts DEF RestoreDone, RestartPhases, Pending
  <2>7. DropJournal => Kind
    BY <2>1 DEF DropJournal
  <2> QED
    BY <1>5, <1>9, <2>2, <2>3, <2>4, <2>5, <2>6, <2>7 DEF TransactionStep
<1>10. Prepare => Kind
  BY DEF Prepare, Preparable
<1>11. ASSUME NEW i \in Items, Edit(i) PROVE Kind
  BY <1>11 DEF Edit, Pending
<1>12. End \/ Crash => Kind
  BY <1>2 DEF End, Exit, Crash, transactionVars, diskVars, KeepDisk
<1> QED
  BY <1>5, <1>6, <1>7, <1>8, <1>9, <1>10, <1>11, <1>12
  DEF Next, Command, Run, Begin, StageSupport, ActivatePrefix, CommitAtOnce, Abort, RefreshAndCommit,
      RefreshFails, WorkOnTask, TaskFails

\* Once the journal is removed the installation is one release.
LEMMA WholeWithoutJournal ==
  ASSUME IInv, DropJournal PROVE Holds(Original)' \/ Holds(Candidate)'
<1>1. /\ InPhase({"Staging", "Committed", "Recovering"}) /\ task = "cleaning"
      /\ live' = live /\ Replaced' = Replaced
  BY DEF IInv, TransactionInv, TaskInPhase, DropJournal, KeepDisk, diskVars, Replaced
<1>2. CASE InPhase({"Staging"})
  <2>1. \A i \in Items : live[i] \in {Original(i), "foreign"}
    BY <1>2 DEF IInv, InstallInv, WholeInPhase, InPhase
  <2> QED
    BY <1>1, <2>1, ItemFacts DEF Holds, Replaced
<1>3. CASE InPhase({"Committed"})
  <2>1. Replaced = Entries
    BY <1>3 DEF IInv, InstallInv, SupportInJournal, Replaced, Entries, InPhase
  <2> QED
    BY <1>1, <1>3, <2>1 DEF IInv, InstallInv, WholeInPhase, Holds
<1>4. CASE InPhase({"Recovering"})
  <2>1. \A i \in Entries : live[i] = Original(i)
    BY <1>1, <1>4 DEF IInv, TransactionInv, LastCopy, AllOriginal
  <2>2. ~journal.support => live[Support] \in {Original(Support), "foreign"}
    BY <1>4 DEF IInv, InstallInv, SupportInJournal, InPhase
  <2>3. \A i \in Items : live[i] \in {Original(i), "foreign"}
    BY <2>1, <2>2, ItemFacts DEF Entries
  <2> QED
    BY <1>1, <2>3, ItemFacts DEF Holds, Replaced
<1> QED
  BY <1>1, <1>2, <1>3, <1>4 DEF InPhase

\* If some release file changes at all, the update implements ReleaseSwitch: the
\* installation goes from the previous release to the candidate as a whole or
\* not at all, whatever is killed, fails, is edited or is run again.
THEOREM UpdateSwitchesAtomically == ASSUME Same # Files PROVE Spec => SwitchesAtomically
<1> DEFINE release == IF Pending THEN "changing"
                      ELSE IF Holds(Candidate) THEN "candidate"
                      ELSE IF Holds(Original) THEN "previous" ELSE "mixed"
<1>1. PICK f \in Files : Candidate(f) = "new"
  BY FilesAssumption DEF Files, Candidate
<1>2. ASSUME \A i \in Items : live[i] = Original(i) PROVE Holds(Original) /\ ~Holds(Candidate)
  <2>1. f \in Replaced /\ live[f] \notin {Candidate(f), "foreign"}
    BY <1>1, <1>2, ItemFacts, ContentFacts DEF Replaced
  <2> QED
    BY <1>2, <2>1, ItemFacts DEF Holds, Replaced
<1>3. Init => Switch!Init
  BY <1>2 DEF Init, TransactionInit, Pending, Switch!Init
<1>4. IInv /\ [Next]_vars => [Switch!Open \/ Switch!Close]_release
  <2> SUFFICES ASSUME IInv, [Next]_vars PROVE [Switch!Open \/ Switch!Close]_release
    OBVIOUS
  <2>1. CASE UNCHANGED vars
    BY <2>1 DEF vars, transactionVars, diskVars, Pending, Holds, Replaced
  <2>2. CASE Pending /\ Pending'
    BY <2>2
  <2>3. CASE ~Pending /\ ~Pending' /\ live' = live /\ withSupport' = withSupport
    BY <2>3 DEF Holds, Replaced
  <2>4. CASE ~Pending /\ Prepare
    <3>1. release = "previous"
      BY <1>2, <2>4 DEF Prepare, Preparable
    <3>2. release' = "changing"
      BY <2>4, FirstJournal, JournalAssumption DEF Prepare, Write, Pending
    <3> QED
      BY <3>1, <3>2 DEF Switch!Open
  <2>5. CASE Pending /\ DropJournal
    <3>1. release = "changing"
      BY <2>5
    <3>2. release' \in {"previous", "candidate"}
      BY <2>5, WholeWithoutJournal DEF DropJournal, Pending
    <3> QED
      BY <3>1, <3>2 DEF Switch!Close
  <2> QED
    BY <2>1, <2>2, <2>3, <2>4, <2>5, PendingSteps
<1> QED
  BY <1>3, <1>4, Invariance, PTL DEF Spec, SwitchesAtomically, Switch!Spec
=============================================================================
