----------------------- MODULE InstallTransaction_proofs -----------------------
(***************************************************************************)
(* What every operation of an installation transaction keeps, whoever owns *)
(* it: types, which phase of the journal a task belongs to, and that the   *)
(* last copy of an original is never consumed.  The proofs about the two   *)
(* owners, CommandLineUpdate and UpdateController, rest on these lemmas.   *)
(***************************************************************************)
EXTENDS InstallTransaction, TLAPS

\* A task is the work of one phase.
TaskInPhase ==
    /\ task = "staging" => InPhase({"Staging"})
    /\ task \in {"activating", "committing"} => InPhase({"Committing"})
    /\ task = "restoring" => InPhase({"Recovering"})
    /\ task = "cleaning" => InPhase({"Staging", "Committed", "Recovering"})

\* The strengthening of RollbackKept: from Prepared to the end of a commit every
\* original has its copy, and scratch is dropped after a roll-back only once all
\* originals are back.
LastCopy ==
    /\ InPhase({"Prepared", "Committing"}) => \A i \in Entries : Kept(i)
    /\ InPhase({"Recovering"}) => \A i \in Entries : live[i] \in {Original(i), "foreign"} \/ Kept(i)
    /\ task = "cleaning" /\ InPhase({"Recovering"}) => AllOriginal

TransactionInv == DiskTypeOK /\ TaskInPhase /\ LastCopy

-----------------------------------------------------------------------------
(* The constants and the operators on data. *)

LEMMA ItemFacts ==
    /\ Files \subseteq Items /\ Support \in Items /\ Support \notin Files
    /\ \A i \in Items : i \in Files \/ i = Support
    /\ \A i \in Items : i \in Nat
    /\ \A f \in Files : f < Support
  BY FilesAssumption DEF Files, Items, Support

LEMMA EntryFacts == Entries \subseteq Items /\ Files \subseteq Entries
  BY ItemFacts DEF Entries

LEMMA ContentFacts ==
    \A i : /\ Original(i) \in {"old", "none"} /\ Candidate(i) \in {"old", "new"}
           /\ Original(i) \in Contents /\ Candidate(i) \in Contents
  BY DEF Original, Candidate, Contents

LEMMA ScratchFacts == \A s \in Scratch : Further(s) \in Scratch /\ Less(s) \in Scratch
  BY DEF Scratch, Further, Less

LEMMA RemovedFacts == \A c : Removed(c) \in {"torn", "none"}
  BY DEF Removed

\* The journal that a write leaves is a journal.
LEMMA JournalFacts ==
  ASSUME NEW j \in Journal, NEW phase \in {"Staging", "Prepared", "Committing", "Committed", "Recovering"}
  PROVE  /\ [j EXCEPT !.phase = phase] \in Journal
         /\ [j EXCEPT !.phase = phase, !.support = TRUE] \in Journal
         /\ [j EXCEPT !.phase = phase] # NoJournal
         /\ [j EXCEPT !.phase = phase].phase = phase
         /\ [j EXCEPT !.phase = phase].support = j.support
         /\ [j EXCEPT !.phase = phase].restart = j.restart
         /\ j # NoJournal
<1>1. [j EXCEPT !.phase = phase] \in Journal /\ [j EXCEPT !.phase = phase, !.support = TRUE] \in Journal
  BY DEF Journal
<1>2. /\ [j EXCEPT !.phase = phase].phase = phase
      /\ [j EXCEPT !.phase = phase].support = j.support
      /\ [j EXCEPT !.phase = phase].restart = j.restart
  BY DEF Journal
<1> QED
  BY <1>1, <1>2, JournalAssumption

LEMMA NoGeneration == 0 \in Generations
  BY FilesAssumption DEF Generations

LEMMA RestartingFacts ==
  ASSUME journal \in Journal, NEW phase \in RestartPhases
  PROVE  /\ Restarting(phase) \in Journal
         /\ Restarting(phase).phase = "Recovering"
         /\ Restarting(phase).support = journal.support
<1> DEFINE restart == IF journal.restart = "none" THEN "none" ELSE phase
<1>1. restart \in RestartPhases \cup {"none"}
  OBVIOUS
<1>2. Restarting(phase) = [journal EXCEPT !.phase = "Recovering", !.restart = restart, !.generation = 0]
  BY DEF Restarting
<1> HIDE DEF restart
<1> QED
  BY <1>1, <1>2, NoGeneration DEF Journal

LEMMA FirstJournal ==
    [phase |-> "Staging", support |-> FALSE, restart |-> "none", generation |-> 0] \in Journal
  BY NoGeneration DEF Journal
-----------------------------------------------------------------------------
(* Every operation keeps TransactionInv. *)

LEMMA InitKeeps == TransactionInit => TransactionInv
<1> SUFFICES ASSUME TransactionInit PROVE TransactionInv
  OBVIOUS
<1>1. DiskTypeOK
  BY ContentFacts DEF TransactionInit, DiskTypeOK, Scratch, Tasks
<1>2. TaskInPhase /\ LastCopy
  BY DEF TransactionInit, TaskInPhase, LastCopy, InPhase, Pending
<1> QED
  BY <1>1, <1>2 DEF TransactionInv

LEMMA PrepareKeeps == TransactionInv /\ Prepare => TransactionInv'
<1> SUFFICES ASSUME TransactionInv, Prepare PROVE TransactionInv'
  OBVIOUS
<1>1. DiskTypeOK'
  BY FirstJournal DEF TransactionInv, Prepare, DiskTypeOK, Write, Tasks, diskVars
<1>2. TaskInPhase' /\ LastCopy'
  BY FirstJournal, JournalAssumption
  DEF Prepare, Write, TaskInPhase, LastCopy, InPhase, Pending, diskVars
<1> QED
  BY <1>1, <1>2 DEF TransactionInv

LEMMA PrepareSupportKeeps == TransactionInv /\ PrepareSupport => TransactionInv'
<1> SUFFICES ASSUME TransactionInv, PrepareSupport PROVE TransactionInv'
  OBVIOUS
<1>1. journal \in Journal
  BY DEF TransactionInv, DiskTypeOK, PrepareSupport, InPhase, Pending
<1>2. DiskTypeOK'
  BY <1>1, JournalFacts DEF TransactionInv, PrepareSupport, DiskTypeOK, Write, Tasks, KeepDisk, diskVars
<1>3. journal'.phase = "Staging"
  BY <1>1 DEF PrepareSupport, Write, Journal
<1>4. TaskInPhase' /\ LastCopy'
  BY <1>1, <1>2, <1>3, JournalFacts, JournalAssumption
  DEF PrepareSupport, Write, TaskInPhase, LastCopy, InPhase, Pending
<1> QED
  BY <1>2, <1>4 DEF TransactionInv

LEMMA StageItemKeeps == ASSUME NEW i \in Items PROVE TransactionInv /\ StageItem(i) => TransactionInv'
<1> SUFFICES ASSUME TransactionInv, StageItem(i) PROVE TransactionInv'
  OBVIOUS
<1>1. DiskTypeOK'
  BY ScratchFacts DEF TransactionInv, StageItem, DiskTypeOK
<1>2. TaskInPhase' /\ LastCopy'
  BY DEF TransactionInv, StageItem, TaskInPhase, LastCopy, InPhase, Pending
<1> QED
  BY <1>1, <1>2 DEF TransactionInv

LEMMA StagingDoneKeeps == TransactionInv /\ StagingDone => TransactionInv'
<1> SUFFICES ASSUME TransactionInv, StagingDone PROVE TransactionInv'
  OBVIOUS
<1>1. journal \in Journal
  BY DEF TransactionInv, TaskInPhase, DiskTypeOK, StagingDone, InPhase, Pending
<1>2. DiskTypeOK'
  BY <1>1, JournalFacts DEF TransactionInv, StagingDone, DiskTypeOK, Write, Tasks, KeepDisk, diskVars
<1>3. journal'.phase = "Prepared" /\ journal'.support = journal.support
  BY <1>1 DEF StagingDone, Write, Journal
<1>4. \A i \in Entries' : Kept(i)'
  BY <1>3 DEF StagingDone, Entries, Staged, Kept, KeepDisk, diskVars
<1>5. TaskInPhase' /\ LastCopy'
  BY <1>3, <1>4 DEF StagingDone, TaskInPhase, LastCopy, InPhase, Pending
<1> QED
  BY <1>2, <1>5 DEF TransactionInv

\* Activate and Commit write the phase Committing and touch nothing else.
LEMMA CommittingKeeps ==
  ASSUME TransactionInv, journal \in Journal, KeepDisk,
         Write([journal EXCEPT !.phase = "Committing"]),
         task' \in {"activating", "committing"},
         \A i \in Entries : Kept(i)
  PROVE  TransactionInv'
<1>2. DiskTypeOK'
  BY JournalFacts DEF TransactionInv, DiskTypeOK, Write, Tasks, KeepDisk, diskVars
<1>3. /\ journal'.phase = "Committing" /\ journal'.support = journal.support
      /\ journal' \in Journal /\ journal' # NoJournal
  BY JournalFacts DEF Write
<1>4. \A i \in Entries' : Kept(i)'
  BY <1>3 DEF Entries, Kept, KeepDisk, diskVars
<1>5. TaskInPhase' /\ LastCopy'
  BY <1>3, <1>4 DEF TaskInPhase, LastCopy, InPhase, Pending
<1> QED
  BY <1>2, <1>5 DEF TransactionInv

LEMMA ActivateKeeps == TransactionInv /\ Activate => TransactionInv'
<1> SUFFICES ASSUME TransactionInv, Activate PROVE TransactionInv'
  OBVIOUS
<1>1. journal \in Journal /\ \A i \in Entries : Kept(i)
  BY DEF TransactionInv, LastCopy, DiskTypeOK, Activate, InPhase, Pending
<1> QED
  BY <1>1, CommittingKeeps DEF Activate

LEMMA CommitKeeps == TransactionInv /\ Commit => TransactionInv'
<1> SUFFICES ASSUME TransactionInv, Commit PROVE TransactionInv'
  OBVIOUS
<1>1. journal \in Journal /\ \A i \in Entries : Kept(i)
  BY DEF TransactionInv, LastCopy, DiskTypeOK, Commit, InPhase, Pending
<1> QED
  BY <1>1, CommittingKeeps DEF Commit

\* While it commits, every step leaves the copies alone.
LEMMA MoveInKeeps ==
  ASSUME NEW i \in Items, TransactionInv, task \in {"activating", "committing"}, MoveIn(i)
  PROVE  TransactionInv'
<1>1. DiskTypeOK'
  BY ContentFacts DEF TransactionInv, MoveIn, DiskTypeOK, Scratch
<1>2. TaskInPhase' /\ LastCopy'
  BY DEF TransactionInv, MoveIn, TaskInPhase, LastCopy, InPhase, Pending, Kept, Entries
<1> QED
  BY <1>1, <1>2 DEF TransactionInv

LEMMA ActivateFileKeeps == ASSUME NEW f \in Files PROVE TransactionInv /\ ActivateFile(f) => TransactionInv'
  BY MoveInKeeps, ItemFacts DEF ActivateFile

LEMMA RemoveLiveSupportKeeps ==
  ASSUME TransactionInv, task \in {"committing", "restoring"}, RemoveLiveSupport,
         Support \in Entries, live[Support] # Original(Support) \/ task = "committing",
         live[Support] # "foreign" \/ task = "committing"
  PROVE  TransactionInv'
<1>1. DiskTypeOK'
  BY RemovedFacts, ItemFacts DEF TransactionInv, RemoveLiveSupport, DiskTypeOK, Contents
<1>2. TaskInPhase' /\ LastCopy'
  BY DEF TransactionInv, RemoveLiveSupport, TaskInPhase, LastCopy, InPhase, Pending, Kept, Entries, DiskTypeOK
<1> QED
  BY <1>1, <1>2 DEF TransactionInv

LEMMA CommitItemKeeps == ASSUME NEW i \in Items PROVE TransactionInv /\ CommitItem(i) => TransactionInv'
  BY MoveInKeeps, RemoveLiveSupportKeeps DEF CommitItem

\* A journal that says Committed, or a task that ends, promises nothing new.
LEMMA CommittedKeeps ==
  ASSUME TransactionInv, journal \in Journal, KeepDisk,
         Write([journal EXCEPT !.phase = "Committed"]),
         task' \in {"idle", "failing", "cleaning"}
  PROVE  TransactionInv'
<1>2. DiskTypeOK'
  BY JournalFacts DEF TransactionInv, DiskTypeOK, Write, Tasks, KeepDisk, diskVars
<1>3. journal'.phase = "Committed" /\ journal' # NoJournal
  BY JournalFacts DEF Write
<1>5. TaskInPhase' /\ LastCopy'
  BY <1>3 DEF TaskInPhase, LastCopy, InPhase, Pending
<1> QED
  BY <1>2, <1>5 DEF TransactionInv

LEMMA EndTaskKeeps ==
  ASSUME TransactionInv, UNCHANGED journal, KeepDisk, task' \in {"idle", "failing"}
  PROVE  TransactionInv'
<1>2. DiskTypeOK'
  BY DEF TransactionInv, DiskTypeOK, Tasks, KeepDisk, diskVars
<1>5. TaskInPhase' /\ LastCopy'
  BY DEF TransactionInv, TaskInPhase, LastCopy, InPhase, Pending, Entries, Kept, KeepDisk, diskVars
<1> QED
  BY <1>2, <1>5 DEF TransactionInv

LEMMA JournalThere == TransactionInv /\ task \notin {"idle", "failing"} => journal \in Journal
  BY DEF TransactionInv, TaskInPhase, DiskTypeOK, InPhase, Pending, Tasks

LEMMA CommitDoneKeeps == TransactionInv /\ CommitDone => TransactionInv'
  BY CommittedKeeps, JournalThere DEF CommitDone

LEMMA ActivationDoneKeeps == TransactionInv /\ ActivationDone => TransactionInv'
  BY EndTaskKeeps DEF ActivationDone

LEMMA FaultKeeps == TransactionInv /\ Fault => TransactionInv'
  BY CommittedKeeps, EndTaskKeeps, JournalThere DEF Fault

-----------------------------------------------------------------------------
(* Recovery and cleanup. *)

\* What a recovery may undo it can undo: every entry is original or has a copy.
LEMMA RestorableFacts ==
  ASSUME TransactionInv, Pending, Restorable
  PROVE  \A i \in Entries : /\ live[i] = Original(i) \/ Kept(i)
                            /\ live[i] # "foreign"
  BY ItemFacts, EntryFacts, ContentFacts
  DEF Restorable, RestorableFile, RestorableSupport, Entries, Items

LEMMA BeginRestoreKeeps ==
  ASSUME TransactionInv, Pending, Restorable, BeginRestore, KeepDisk
  PROVE  TransactionInv'
<1>1. journal \in Journal
  BY DEF TransactionInv, DiskTypeOK, Pending
<1>2. /\ journal' \in Journal /\ journal' # NoJournal
      /\ journal'.phase = "Recovering" /\ journal'.support = journal.support
  BY <1>1, RestartingFacts, JournalAssumption DEF BeginRestore, Write, RestartPhases
<1>3. DiskTypeOK'
  BY <1>2 DEF TransactionInv, DiskTypeOK, BeginRestore, Tasks, KeepDisk, diskVars
<1>4. \A i \in Entries' : live'[i] \in {Original(i), "foreign"} \/ Kept(i)'
  BY <1>2, RestorableFacts DEF Entries, Kept, KeepDisk, diskVars
<1>5. TaskInPhase' /\ LastCopy'
  BY <1>2, <1>4 DEF TaskInPhase, LastCopy, InPhase, Pending, BeginRestore
<1> QED
  BY <1>3, <1>5 DEF TransactionInv

\* To drop the scratch is right while staging, and once all is one release.
LEMMA BeginCleaningKeeps ==
  ASSUME TransactionInv, InPhase({"Staging", "Committed"}),
         UNCHANGED journal, KeepDisk, task' = "cleaning"
  PROVE  TransactionInv'
<1>1. DiskTypeOK'
  BY DEF TransactionInv, DiskTypeOK, Tasks, KeepDisk, diskVars
<1>2. TaskInPhase' /\ LastCopy'
  BY DEF TransactionInv, TaskInPhase, LastCopy, InPhase, Pending, Entries, Kept, KeepDisk, diskVars
<1> QED
  BY <1>1, <1>2 DEF TransactionInv

LEMMA BeginRecoveryKeeps ==
  ASSUME NEW b \in BOOLEAN PROVE TransactionInv /\ BeginRecovery(b) => TransactionInv'
<1> SUFFICES ASSUME TransactionInv, BeginRecovery(b) PROVE TransactionInv'
  OBVIOUS
<1>1. CASE ~Pending \/ ~Recoverable(b)
  BY <1>1, EndTaskKeeps DEF BeginRecovery
<1>2. CASE Pending /\ Recoverable(b) /\ (journal.phase = "Staging" \/ KeepsCommitted(b))
  BY <1>2, BeginCleaningKeeps DEF BeginRecovery, KeepsCommitted, InPhase
<1>3. CASE Pending /\ Recoverable(b) /\ ~(journal.phase = "Staging" \/ KeepsCommitted(b))
  <2>1. Restorable
    BY <1>3 DEF Recoverable
  <2> QED
    BY <1>3, <2>1, BeginRestoreKeeps DEF BeginRecovery
<1> QED
  BY <1>1, <1>2, <1>3

LEMMA RecoverKeeps == TransactionInv /\ Recover => TransactionInv'
  BY BeginRecoveryKeeps DEF Recover

LEMMA RestoreOnErrorKeeps == TransactionInv /\ RestoreOnError => TransactionInv'
  BY BeginRecoveryKeeps DEF RestoreOnError

LEMMA RestoreItemKeeps ==
  ASSUME NEW i \in Items, live[i] # "foreign"
  PROVE  TransactionInv /\ RestoreItem(i) => TransactionInv'
<1> SUFFICES ASSUME TransactionInv, RestoreItem(i) PROVE TransactionInv'
  OBVIOUS
<1>1. CASE i = Support /\ live[i] # "none"
  BY <1>1, RemoveLiveSupportKeeps DEF RestoreItem
<1>2. CASE ~(i = Support /\ live[i] # "none")
  <2>1. MoveBack(i) /\ task = "restoring"
    BY <1>2 DEF RestoreItem
  <2>2. DiskTypeOK'
    BY <2>1, ContentFacts DEF TransactionInv, MoveBack, DiskTypeOK, Scratch
  <2>3. \A k \in Entries : live'[k] = IF k = i THEN Original(i) ELSE live[k]
    BY <2>1, EntryFacts DEF MoveBack, TransactionInv, DiskTypeOK
  <2>4. \A k \in Entries : k # i => Kept(k)' = Kept(k)
    BY <2>1, EntryFacts DEF MoveBack, TransactionInv, DiskTypeOK, Kept
  <2>5. InPhase({"Recovering"}) /\ UNCHANGED <<journal, task>> /\ Entries' = Entries
    BY <2>1 DEF MoveBack, TransactionInv, TaskInPhase, Entries
  <2>6. TaskInPhase' /\ LastCopy'
    BY <2>1, <2>3, <2>4, <2>5 DEF TransactionInv, TaskInPhase, LastCopy, InPhase, Pending
  <2> QED
    BY <2>2, <2>6 DEF TransactionInv
<1> QED
  BY <1>1, <1>2

LEMMA RestoreDoneKeeps == TransactionInv /\ RestoreDone => TransactionInv'
<1> SUFFICES ASSUME TransactionInv, RestoreDone PROVE TransactionInv'
  OBVIOUS
<1>1. journal \in Journal /\ InPhase({"Recovering"})
  BY DEF TransactionInv, TaskInPhase, DiskTypeOK, RestoreDone, InPhase, Pending
<1>2. /\ journal' \in Journal /\ journal' # NoJournal
      /\ journal'.phase = "Recovering" /\ journal'.support = journal.support
  BY <1>1, RestartingFacts, JournalAssumption DEF RestoreDone, Write, RestartPhases, InPhase
<1>3. DiskTypeOK'
  BY <1>2 DEF TransactionInv, DiskTypeOK, RestoreDone, Tasks, KeepDisk, diskVars
<1>4. AllOriginal'
  BY <1>2 DEF RestoreDone, AllOriginal, Entries, KeepDisk, diskVars
<1>5. TaskInPhase' /\ LastCopy'
  BY <1>2, <1>4 DEF TaskInPhase, LastCopy, InPhase, Pending, RestoreDone, AllOriginal
<1> QED
  BY <1>3, <1>5 DEF TransactionInv

\* What is dropped is not the last copy of anything.
LEMMA DroppedKeeps ==
  ASSUME TransactionInv, task = "cleaning", UNCHANGED <<journal, live, task, withSupport>>, DiskTypeOK'
  PROVE  TransactionInv'
<1>1. TaskInPhase' /\ LastCopy'
  BY DEF TransactionInv, TaskInPhase, LastCopy, InPhase, Pending, Entries, AllOriginal
<1> QED
  BY <1>1 DEF TransactionInv

\* A step on one scratch directory leaves the scratch of every item typed.
LEMMA LessScratch ==
  ASSUME NEW f \in [Items -> Scratch]
  PROVE  [f EXCEPT ![Support] = Less(@)] \in [Items -> Scratch]
<1>1. Less(f[Support]) \in Scratch
  BY ScratchFacts, ItemFacts
<1> HIDE DEF Scratch, Less, Items
<1> QED
  BY <1>1

LEMMA DropSupportScratchKeeps == TransactionInv /\ DropSupportScratch => TransactionInv'
<1> SUFFICES ASSUME TransactionInv, DropSupportScratch PROVE TransactionInv'
  OBVIOUS
<1>1. /\ stage \in [Items -> Scratch]
      /\ rollback \in [Items -> Scratch]
      /\ supportDir \in BOOLEAN
  BY DEF TransactionInv, DiskTypeOK
<1>2. \/ /\ stage' = [stage EXCEPT ![Support] = Less(@)]
         /\ UNCHANGED <<rollback, supportDir>>
      \/ /\ rollback' = [rollback EXCEPT ![Support] = Less(@)]
         /\ UNCHANGED <<stage, supportDir>>
      \/ /\ supportDir' = FALSE
         /\ UNCHANGED <<stage, rollback>>
  BY DEF DropSupportScratch
<1>3. UNCHANGED <<journal, live, task, withSupport>> /\ task = "cleaning"
  BY DEF DropSupportScratch
<1>4. [stage EXCEPT ![Support] = Less(@)] \in [Items -> Scratch]
  BY <1>1, LessScratch
<1>5. [rollback EXCEPT ![Support] = Less(@)] \in [Items -> Scratch]
  BY <1>1, LessScratch
<1>6. stage' \in [Items -> Scratch] /\ rollback' \in [Items -> Scratch] /\ supportDir' \in BOOLEAN
  BY <1>1, <1>2, <1>4, <1>5
<1>7. DiskTypeOK'
  BY <1>3, <1>6 DEF TransactionInv, DiskTypeOK
<1> QED
  BY <1>3, <1>7, DroppedKeeps

LEMMA DropFileScratchKeeps ==
  ASSUME NEW f \in Files PROVE TransactionInv /\ DropFileScratch(f) => TransactionInv'
<1> SUFFICES ASSUME TransactionInv, DropFileScratch(f) PROVE TransactionInv'
  OBVIOUS
<1>1. DiskTypeOK'
  BY ItemFacts DEF TransactionInv, DropFileScratch, DiskTypeOK, Scratch
<1> QED
  BY <1>1, DroppedKeeps DEF DropFileScratch

LEMMA DropJournalKeeps == TransactionInv /\ DropJournal => TransactionInv'
<1> SUFFICES ASSUME TransactionInv, DropJournal PROVE TransactionInv'
  OBVIOUS
<1>1. DiskTypeOK'
  BY DEF TransactionInv, DropJournal, DiskTypeOK, Tasks, KeepDisk, diskVars
<1>2. TaskInPhase' /\ LastCopy'
  BY DEF DropJournal, TaskInPhase, LastCopy, InPhase, Pending
<1> QED
  BY <1>1, <1>2 DEF TransactionInv

\* While a task restores, what is live can be recognised: nothing is foreign.
LEMMA TransactionStepKeeps ==
  ASSUME TransactionInv, TransactionStep,
         task = "restoring" => \A i \in Entries : live[i] # "foreign"
  PROVE  TransactionInv'
<1>1. ASSUME NEW i \in Items, StageItem(i) \/ CommitItem(i) PROVE TransactionInv'
  BY <1>1, StageItemKeeps, CommitItemKeeps
<1>2. ASSUME NEW i \in Items, RestoreItem(i) PROVE TransactionInv'
  BY <1>2, RestoreItemKeeps DEF RestoreItem
<1>3. ASSUME NEW f \in Files, ActivateFile(f) \/ DropFileScratch(f) PROVE TransactionInv'
  BY <1>3, ActivateFileKeeps, DropFileScratchKeeps
<1> QED
  BY <1>1, <1>2, <1>3, StagingDoneKeeps, ActivationDoneKeeps, CommitDoneKeeps, RestoreOnErrorKeeps,
     RestoreDoneKeeps, DropSupportScratchKeeps, DropJournalKeeps DEF TransactionStep
=============================================================================
