------------------------- MODULE InstallTransaction -------------------------
(***************************************************************************)
(* elastos-server/src/install_transaction.rs and its support.rs: the       *)
(* journalled replacement of the release files of an installation, as the  *)
(* operations an owner of the transaction calls.  Each operation that      *)
(* touches files is a task made of steps; the owner's process may be gone  *)
(* after any of them, and what a step has done to the disk then stays (the *)
(* code syncs the directory after every rename, so a lost rename is the    *)
(* state before the step).                                                 *)
(*                                                                         *)
(* The items are the release files, 1 .. FileCount in the order of         *)
(* ReleaseFile::ALL, and one tree of support assets.  The journal is the   *)
(* one file that tells a later owner what to do with them.                 *)
(***************************************************************************)
EXTENDS Naturals, FiniteSets

CONSTANTS FileCount,     \* release files of the transaction
          Prefix,        \* how many of them activate_artifacts_for_support moves
          SupportIsTree, \* whether the support assets are a directory, not a single file
          Fresh,         \* items the installation does not have yet
          Same,          \* files that the release does not change
          MaxStarts,     \* bound: Home processes started under a claim or without one
          NoJournal

ASSUME FilesAssumption ==
    /\ FileCount \in Nat \ {0} /\ Prefix \in 1 .. FileCount
    /\ SupportIsTree \in BOOLEAN
    /\ Fresh \subseteq 1 .. FileCount /\ Same \subseteq 1 .. FileCount /\ Fresh \cap Same = {}
    /\ MaxStarts \in Nat

Files == 1 .. FileCount
Support == FileCount + 1
Items == 1 .. Support

\* What a path of the installation holds; torn: a tree removed in part.
Contents == {"old", "new", "none", "torn", "foreign"}
Original(i) == IF i \in Fresh THEN "none" ELSE "old"
Candidate(i) == IF i \in Same THEN "old" ELSE "new"

Generations == 0 .. MaxStarts   \* 0: the empty generation
CandidatePhases == {"CandidateStartClaimed", "CandidateRunning", "CandidateReady"}
PreviousPhases == {"PreviousStartClaimed", "PreviousRunning", "PreviousReady"}
RestartPhases == {"CandidatePending", "Restoring", "Restored"} \cup CandidatePhases \cup PreviousPhases
Journal == [phase : {"Staging", "Prepared", "Committing", "Committed", "Recovering"},
            support : BOOLEAN,                 \* whether entries for support are there
            restart : RestartPhases \cup {"none"},
            generation : Generations]

ASSUME JournalAssumption == NoJournal \notin Journal

VARIABLES journal,     \* .elastos.update-journal.json
          live,        \* the installed items
          stage,       \* their candidates in .elastos.update-stage
          rollback,    \* the copies of the originals in .elastos.update-rollback
          supportDir,  \* whether .elastos.update-support exists
          task,        \* what the owner's process is doing
          withSupport  \* whether the latest update replaces support assets too

diskVars == <<live, stage, rollback, supportDir>>
transactionVars == <<journal, live, stage, rollback, supportDir, task, withSupport>>
Scratch == {"none", "partial", "whole"}
Tasks == {"idle", "staging", "activating", "committing", "failing", "restoring", "cleaning"}

DiskTypeOK ==
    /\ journal \in Journal \cup {NoJournal}
    /\ live \in [Items -> Contents]
    /\ stage \in [Items -> Scratch]
    /\ rollback \in [Items -> Scratch]
    /\ supportDir \in BOOLEAN
    /\ task \in Tasks
    /\ withSupport \in BOOLEAN

TransactionInit ==
    /\ journal = NoJournal
    /\ live = [i \in Items |-> Original(i)]
    /\ stage = [i \in Items |-> "none"]
    /\ rollback = [i \in Items |-> "none"]
    /\ supportDir = FALSE
    /\ task = "idle"
    /\ withSupport = FALSE

Pending == journal # NoJournal
Idle == task = "idle"
InPhase(phases) == Pending /\ journal.phase \in phases
InRestart(phases) == Pending /\ journal.restart \in phases
Entries == IF journal.support THEN Items ELSE Files
AllOriginal == \A i \in Entries : live[i] = Original(i)
AllCandidate == \A i \in Entries : live[i] = Candidate(i)
Kept(i) == Original(i) = "none" \/ rollback[i] = "whole"
\* Mutant: the candidate is copied, the original is not.
Staged_candidate(i) == stage[i] = "whole"
Staged(i) == stage[i] = "whole" /\ Kept(i)

Write(record) == journal' = record
KeepDisk == UNCHANGED <<diskVars, withSupport>>

-----------------------------------------------------------------------------
\* validate_scratch: what is in the scratch directories is what the journal
\* says, but for partial copies while it is being staged.
SupportScratchValid ==
    journal.phase # "Staging" =>
      IF supportDir
      THEN /\ "partial" \notin {stage[Support], rollback[Support]}
           /\ journal.phase = "Prepared" => Staged(Support)
      ELSE \/ journal.restart = "CandidateReady" /\ live[Support] = Candidate(Support)
           \/ journal.restart = "PreviousReady" /\ live[Support] = Original(Support)

ScratchValid ==
    /\ journal.support => SupportScratchValid
    /\ journal.phase # "Staging" => \A f \in Files : "partial" \notin {stage[f], rollback[f]}

-----------------------------------------------------------------------------
\* Staging: the journal first, then every candidate and every original is
\* copied under a partial name and renamed.
Preparable ==   \* bound: the one update there is has not been installed
    /\ ~Pending
    /\ \A i \in Items : live[i] = Original(i) /\ stage[i] = "none" /\ rollback[i] = "none"

Prepare ==
    /\ Idle /\ Preparable
    /\ Write([phase |-> "Staging", support |-> FALSE, restart |-> "none", generation |-> 0])
    /\ task' = "staging"
    /\ withSupport' \in BOOLEAN
    /\ UNCHANGED diskVars

PrepareSupport ==
    /\ Idle /\ withSupport /\ InPhase({"Prepared"})
    /\ ~journal.support /\ journal.restart = "none" /\ ~supportDir
    /\ Write([journal EXCEPT !.phase = "Staging", !.support = TRUE])
    /\ task' = "staging"
    /\ KeepDisk

Further(scratch) == IF scratch = "none" THEN "partial" ELSE "whole"

StageItem(i) ==
    /\ task = "staging"
    /\ i \in Entries /\ ~Staged(i)
    /\ \A k \in Entries : k < i => Staged(k)
    /\ IF stage[i] # "whole"
       THEN stage' = [stage EXCEPT ![i] = Further(@)] /\ UNCHANGED rollback
       ELSE rollback' = [rollback EXCEPT ![i] = Further(@)] /\ UNCHANGED stage
    /\ supportDir' = (supportDir \/ i = Support)
    /\ UNCHANGED <<journal, live, task, withSupport>>

StagingDone ==
    /\ task = "staging"
    /\ \A i \in Entries : Staged(i)
    /\ Write([journal EXCEPT !.phase = "Prepared"])
    /\ task' = "idle"
    /\ KeepDisk

-----------------------------------------------------------------------------
\* activate_artifacts_for_support: the command-line update moves the first
\* files before it refreshes support with them.
Activate ==
    /\ Idle /\ InPhase({"Prepared"}) /\ journal.restart = "none"
    /\ ScratchValid /\ \A f \in Files : live[f] = Original(f)
    /\ Write([journal EXCEPT !.phase = "Committing"])
    /\ task' = "activating"
    /\ KeepDisk

MoveIn(i) ==
    /\ live' = [live EXCEPT ![i] = Candidate(i)]
    /\ stage' = [stage EXCEPT ![i] = "none"]
    /\ UNCHANGED <<journal, rollback, supportDir, task, withSupport>>

ActivateFile(f) ==
    /\ task = "activating"
    /\ f <= Prefix /\ stage[f] = "whole"
    /\ \A k \in Files : k < f => stage[k] = "none"
    /\ MoveIn(f)

ActivationDone ==
    /\ task = "activating"
    /\ \A f \in 1 .. Prefix : stage[f] = "none"
    /\ task' = "idle"
    /\ UNCHANGED journal /\ KeepDisk

\* authorize_principal_root_migration: exactly that prefix is in place.
ActivatedPrefix ==
    /\ InPhase({"Committing"}) /\ journal.restart = "none" /\ ScratchValid
    /\ \A f \in Files :
         /\ live[f] = IF f <= Prefix THEN Candidate(f) ELSE Original(f)
         /\ stage[f] = IF f <= Prefix THEN "none" ELSE "whole"
         /\ Kept(f)

-----------------------------------------------------------------------------
\* commit_with: only a prefix of the files may already be in place.
PrefixAdmitted ==
    /\ \A f \in Files :
         /\ \/ live[f] = Original(f)
            \/ /\ journal.phase = "Committing" /\ live[f] = Candidate(f)
               /\ \A k \in Files : k < f => live[k] = Candidate(k)
         /\ live[f] # Candidate(f) => stage[f] = "whole"
         /\ Kept(f)
    /\ journal.support => live[Support] = Original(Support)

Commit ==
    /\ Idle /\ InPhase({"Prepared", "Committing"})
    /\ ScratchValid /\ PrefixAdmitted
    /\ Write([journal EXCEPT !.phase = "Committing"])
    /\ task' = "committing"
    /\ KeepDisk

\* A tree is removed entry by entry, a file at once.
Removed(content) == IF SupportIsTree /\ content # "torn" THEN "torn" ELSE "none"

RemoveLiveSupport ==
    /\ live' = [live EXCEPT ![Support] = Removed(@)]
    /\ UNCHANGED <<journal, stage, rollback, supportDir, task, withSupport>>

CommitItem(i) ==
    /\ task = "committing"
    /\ i \in Entries /\ live[i] # Candidate(i)
    /\ \A k \in Entries : k < i => live[k] = Candidate(k)
    /\ IF i = Support /\ live[i] # "none" THEN RemoveLiveSupport ELSE MoveIn(i)

\* Mutant: only the release files are looked at.
CommitDone_files ==
    /\ task = "committing"
    /\ \A f \in Files : live[f] = Candidate(f)
    /\ Write([journal EXCEPT !.phase = "Committed"])
    /\ task' = IF journal.restart = "none" THEN "cleaning" ELSE "idle"
    /\ KeepDisk

CommitDone ==
    /\ task = "committing" /\ AllCandidate
    /\ Write([journal EXCEPT !.phase = "Committed"])
    /\ task' = IF journal.restart = "none" THEN "cleaning" ELSE "idle"
    /\ KeepDisk

\* A step that fails, the caller's last check included; and the last journal
\* write, which may fail after the rename.
Fault ==
    /\ task \in {"staging", "activating", "committing"}
    /\ \/ UNCHANGED journal
       \/ /\ task = "committing" /\ AllCandidate
          /\ Write([journal EXCEPT !.phase = "Committed"])
    /\ task' = "failing"
    /\ KeepDisk

-----------------------------------------------------------------------------
\* recover_inner(rollback_committed).
\* Mutant: whatever is there is written over.
RestorableFile_blind(f) == Kept(f)

RestorableFile(f) ==
    /\ live[f] \in {Original(f), Candidate(f)}
    /\ live[f] # Original(f) => Kept(f)

\* Mutant: a support asset between its removal and its rename is foreign.
RestorableSupport_present ==
    /\ live[Support] \in {Original(Support), Candidate(Support)}
    /\ live[Support] # Original(Support) => Kept(Support)

RestorableSupport ==
    /\ \/ live[Support] \in {Original(Support), Candidate(Support)}
       \/ journal.phase \in {"Committing", "Recovering"} /\ live[Support] = "none"
    /\ live[Support] # Original(Support) => Kept(Support)

Restorable == (\A f \in Files : RestorableFile(f)) /\ (journal.support => RestorableSupport)

\* Mutant: a commit that has begun counts as committed.
KeepsCommitted_begun(rollbackCommitted) ==
    journal.phase \in {"Committing", "Committed"} /\ ~rollbackCommitted
KeepsCommitted(rollbackCommitted) == journal.phase = "Committed" /\ ~rollbackCommitted
OwnedHere(rollbackCommitted) == journal.restart = "none" \/ rollbackCommitted

Recoverable(rollbackCommitted) ==
    /\ OwnedHere(rollbackCommitted) /\ ScratchValid
    /\ IF journal.phase = "Staging" THEN AllOriginal
       ELSE IF KeepsCommitted(rollbackCommitted) THEN \A f \in Files : live[f] # "none"
       ELSE Restorable

\* Mutant: the generation is moved on, not cleared.
Restarting_next(phase) ==
    [journal EXCEPT !.phase = "Recovering",
                    !.restart = IF @ = "none" THEN @ ELSE phase,
                    !.generation = @ + 1]

Restarting(phase) ==
    [journal EXCEPT !.phase = "Recovering",
                    !.restart = IF @ = "none" THEN @ ELSE phase,
                    !.generation = 0]

BeginRestore ==
    /\ Write(Restarting("Restoring"))
    /\ task' = "restoring"

BeginRecovery(rollbackCommitted) ==
    /\ KeepDisk
    /\ IF ~Pending \/ ~Recoverable(rollbackCommitted)
       THEN task' = "idle" /\ UNCHANGED journal
       ELSE IF journal.phase = "Staging" \/ KeepsCommitted(rollbackCommitted)
       THEN task' = "cleaning" /\ UNCHANGED journal
       ELSE BeginRestore

\* recover, called by an owner with nothing else in progress, and the
\* recovery of restore_on_error.
Recover == Idle /\ BeginRecovery(FALSE)
RestoreOnError == task = "failing" /\ BeginRecovery(TRUE)

RestoreBefore(k, i) == IF i = Support THEN FALSE ELSE k = Support \/ k < i

MoveBack(i) ==
    /\ live' = [live EXCEPT ![i] = Original(i)]
    /\ rollback' = [rollback EXCEPT ![i] = "none"]
    /\ UNCHANGED <<journal, stage, supportDir, task, withSupport>>

RestoreItem(i) ==
    /\ task = "restoring"
    /\ i \in Entries /\ live[i] # Original(i)
    /\ \A k \in Entries : RestoreBefore(k, i) => live[k] = Original(k)
    /\ IF i = Support /\ live[i] # "none" THEN RemoveLiveSupport ELSE MoveBack(i)

RestoreDone ==
    /\ task = "restoring" /\ AllOriginal
    /\ IF journal.restart = "none"
       THEN task' = "cleaning" /\ UNCHANGED journal
       ELSE task' = "idle" /\ Write(Restarting("Restored"))
    /\ KeepDisk

-----------------------------------------------------------------------------
\* cleanup: the scratch of the support assets, that of the files, the journal.
Less(scratch) == IF SupportIsTree /\ scratch = "whole" THEN "partial" ELSE "none"
SupportScratchGone == stage[Support] = "none" /\ rollback[Support] = "none"

DropSupportScratch ==
    /\ task = "cleaning" /\ supportDir
    /\ \/ /\ stage[Support] # "none"
          /\ stage' = [stage EXCEPT ![Support] = Less(@)]
          /\ UNCHANGED <<rollback, supportDir>>
       \/ /\ rollback[Support] # "none"
          /\ rollback' = [rollback EXCEPT ![Support] = Less(@)]
          /\ UNCHANGED <<stage, supportDir>>
       \/ /\ SupportScratchGone
          /\ supportDir' = FALSE
          /\ UNCHANGED <<stage, rollback>>
    /\ UNCHANGED <<journal, live, task, withSupport>>

DropFileScratch(f) ==
    /\ task = "cleaning" /\ ~supportDir
    /\ IF stage[f] # "none"
       THEN stage' = [stage EXCEPT ![f] = "none"] /\ UNCHANGED rollback
       ELSE /\ rollback[f] # "none"
            /\ rollback' = [rollback EXCEPT ![f] = "none"]
            /\ UNCHANGED stage
    /\ UNCHANGED <<journal, live, supportDir, task, withSupport>>

DropJournal ==
    /\ task = "cleaning" /\ ~supportDir
    /\ \A f \in Files : stage[f] = "none" /\ rollback[f] = "none"
    /\ journal' = NoJournal
    /\ task' = "idle"
    /\ KeepDisk

-----------------------------------------------------------------------------
\* The steps of a task, in the order the code takes them.
TransactionStep ==
    \/ \E i \in Items : StageItem(i) \/ CommitItem(i) \/ RestoreItem(i)
    \/ \E f \in Files : ActivateFile(f) \/ DropFileScratch(f)
    \/ StagingDone \/ ActivationDone \/ CommitDone
    \/ RestoreOnError \/ RestoreDone
    \/ DropSupportScratch \/ DropJournal

-----------------------------------------------------------------------------
(* Properties, of whoever owns the transaction. *)

Replaced == IF withSupport THEN Items ELSE Files
Holds(content(_)) == \A i \in Replaced : live[i] \in {content(i), "foreign"}

\* Whatever is killed, fails or is started again, the installation at rest is
\* the previous release or the candidate, never a mixture, and never goes back.
Switch == INSTANCE ReleaseSwitch WITH
    release <- IF Pending THEN "changing"
               ELSE IF Holds(Candidate) THEN "candidate"
               ELSE IF Holds(Original) THEN "previous"
               ELSE "mixed"
SwitchesAtomically == Switch!Spec

\* Until a transaction is committed, and again from its roll-back on, the
\* original of every item is still in the installation or in its rollback:
\* commit_with and recover_inner never consume the last copy.
\* (An item that its owner has edited is the owner's.)
RollbackKept ==
    InPhase({"Prepared", "Committing", "Recovering"}) =>
      \A i \in Entries : live[i] \in {Original(i), "foreign"} \/ Kept(i)

\* What no owner of the transaction can undo any more: the support assets or
\* their scratch removed in part, or that scratch gone and the journal not.
Stranded ==
    /\ Pending /\ journal.support
    /\ \/ live[Support] = "torn"
       \/ journal.phase # "Staging" /\ ~SupportScratchValid
=============================================================================
