-------------------------- MODULE CommandLineUpdate --------------------------
(***************************************************************************)
(* elastos-server/src/update.rs: the owner of an installation transaction  *)
(* that a terminal runs, `elastos update` with its support refresh and     *)
(* principal-root migration, and install.sh's `install-release`.  It holds *)
(* the installation lock while it runs.  It may be killed after any step,  *)
(* and is then run again, as its messages ask; while no owner runs, files  *)
(* of the installation may be edited by hand.                              *)
(***************************************************************************)
EXTENDS InstallTransaction

CONSTANTS MaxCrashes   \* bound: how often the owner's process is killed
ASSUME CrashesAssumption == MaxCrashes \in Nat

VARIABLES cli,         \* where the command is, "off" when it does not run
          crashes
vars == <<transactionVars, cli, crashes>>

Places == {"off", "recovering", "staging", "activating", "ending"}

\* TYPE: the type invariant.
TypeOK == DiskTypeOK /\ cli \in Places /\ crashes \in 0 .. MaxCrashes

Init == TransactionInit /\ cli = "off" /\ crashes = 0

At(place) == cli = place /\ Idle
Goto(place) == cli' = place /\ UNCHANGED crashes
Exit == Goto("off") /\ UNCHANGED transactionVars

-----------------------------------------------------------------------------
\* The command takes the lock and recovers what it finds.
Run == At("off") /\ Recover /\ Goto("recovering")

\* Nothing is pending any more: stage the new release.
Begin == At("recovering") /\ Prepare /\ Goto("staging")

StageSupport == At("staging") /\ PrepareSupport /\ Goto("staging")
AllStaged == InPhase({"Prepared"}) /\ journal.support = withSupport

\* `elastos update` activates a prefix first, `install-release` commits at once.
ActivatePrefix == At("staging") /\ AllStaged /\ Activate /\ Goto("activating")
CommitAtOnce == At("staging") /\ AllStaged /\ ~withSupport /\ Commit /\ Goto("ending")
Abort == At("staging") /\ Pending /\ Recover /\ Goto("ending")

\* The support refresh and the migration that the activated prefix admits.
RefreshAndCommit == At("activating") /\ ActivatedPrefix /\ Commit /\ Goto("ending")
RefreshFails == At("activating") /\ InPhase({"Committing"}) /\ Recover /\ Goto("ending")

\* It has nothing to do, has been refused, or has finished.
End ==
    \/ At("recovering") /\ ~Preparable /\ Exit
    \/ At("staging") /\ ~InPhase({"Prepared"}) /\ Exit
    \/ At("activating") /\ ~InPhase({"Committing"}) /\ Exit
    \/ At("ending") /\ Exit

WorkOnTask == TransactionStep /\ UNCHANGED <<cli, crashes>>
TaskFails == Fault /\ UNCHANGED <<cli, crashes>>

Command ==
    \/ Begin \/ StageSupport \/ ActivatePrefix \/ CommitAtOnce \/ Abort
    \/ RefreshAndCommit \/ RefreshFails \/ End \/ WorkOnTask

-----------------------------------------------------------------------------
Crash ==
    /\ cli # "off" /\ crashes < MaxCrashes
    /\ cli' = "off" /\ crashes' = crashes + 1
    /\ task' = "idle"
    /\ UNCHANGED journal /\ KeepDisk

\* bound: one item is edited, while a transaction is pending.
Edit(i) ==
    /\ cli = "off" /\ Pending
    /\ \A k \in Items : live[k] # "foreign"
    /\ live' = [live EXCEPT ![i] = "foreign"]
    /\ UNCHANGED <<journal, stage, rollback, supportDir, task, withSupport, cli, crashes>>

Next == Run \/ Command \/ TaskFails \/ Crash \/ (\E i \in Items : Edit(i))

\* The command, once started, takes its next step, and a command that was
\* killed or refused is run again.
Fairness == WF_vars(Command) /\ WF_vars(Run)

Spec == Init /\ [][Next]_vars /\ Fairness

-----------------------------------------------------------------------------
(* Properties. *)

Edited == \E i \in Items : live[i] = "foreign"

\* Neither an update nor a recovery overwrites a file its owner has edited:
\* recover_inner checks its whole plan before it changes the first file.
EditKept(i) == live[i] = "foreign" => live'[i] = "foreign"
StepKeepsEdits == \A i \in Items : EditKept(i)
EditsKept == [][StepKeepsEdits]_vars

\* An interrupted update is finished or undone, unless the owner has edited a
\* file or the interruption was one that strands the transaction.
RecoveryEnds == Pending ~> (~Pending \/ Edited \/ Stranded)

\* "An interrupted command-line update requires recovery. Run `elastos update`
\* again": what an interrupted command leaves behind can be recovered.
InterruptedIsRecoverable == cli = "off" /\ Pending /\ ~Edited => Recoverable(FALSE)
=============================================================================
