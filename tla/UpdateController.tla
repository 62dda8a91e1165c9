-------------------------- MODULE UpdateController --------------------------
(***************************************************************************)
(* elastos-server/src/update_controller.rs, the restarting part of         *)
(* update.rs, and the host lock of host_lock.rs: the controller owns the   *)
(* Home process, stages an update beside it, stops it, installs the        *)
(* release, starts the candidate under a claim in the journal, and goes    *)
(* back to the previous release when that does not become ready.  The      *)
(* controller may die at any point; the next one reconciles what it finds. *)
(*                                                                         *)
(* A Home process has the generation it was spawned with, and reads the    *)
(* journal before it takes the host lock (authorize_host_start); one that  *)
(* the owner starts by hand has generation 0.                              *)
(***************************************************************************)
EXTENDS InstallTransaction

CONSTANTS MaxCrashes,      \* bound: how often the controller dies
          MaxAttempts      \* PREVIOUS_START_ATTEMPTS

ASSUME ControllerAssumption == MaxCrashes \in Nat /\ MaxAttempts \in Nat \ {0}

Homes == Generations
Nobody == MaxStarts + 1   \* no holder of the host lock, no child
Offline == MaxStarts + 2  \* the controller's own hold of the host lock
ByHand == 0

VARIABLES ctl,       \* where the controller is, "down" when there is none
          child,     \* the Home it owns
          attempt,   \* start_restored_previous's attempt, 0 within an update
          request,   \* active-request.json: the update it has consumed
          homes,     \* every Home process, by generation
          hostLock,  \* holder of host-process.lock
          crashes

controllerVars == <<ctl, child, attempt, request, homes, hostLock, crashes>>
vars == <<transactionVars, controllerVars>>

Places == {"down", "reconciling", "discarding", "initial", "booting", "home",
           "preparing", "unplanned", "aborting", "planned", "stopped", "offline", "committing",
           "failed", "restoring", "restored", "claimed", "spawned", "waiting",
           "ready", "settling", "retrying", "rescuing"}
Home == [state : {"unborn", "named", "spawned", "admitted", "running", "gone"},
         binary : Contents,    \* what it executes
         claimed : BOOLEAN]    \* spawned while a transaction was pending
Alive(g) == g \in Homes /\ homes[g].state \in {"spawned", "admitted", "running"}

\* TYPE: the type invariant.
TypeOK ==
    /\ DiskTypeOK
    /\ ctl \in Places
    /\ child \in Homes \cup {Nobody}
    /\ attempt \in 0 .. MaxAttempts
    /\ request \in BOOLEAN
    /\ homes \in [Homes -> Home]
    /\ hostLock \in Homes \cup {Nobody, Offline}
    /\ crashes \in 0 .. MaxCrashes

Init ==
    /\ TransactionInit
    /\ ctl = "down" /\ child = Nobody /\ attempt = 0 /\ request = FALSE
    /\ homes = [g \in Homes |-> [state |-> "unborn", binary |-> "none", claimed |-> FALSE]]
    /\ hostLock = Nobody /\ crashes = 0

At(place) == ctl = place /\ Idle
Goto(place) == ctl' = place
KeepJournal == UNCHANGED transactionVars
KeepRest == UNCHANGED <<child, attempt, request, homes, hostLock, crashes>>

\* The generation is drawn at random: never one that was used.
Unused == {g \in Homes \ {ByHand} : homes[g].state = "unborn"}
NewGeneration(g) == g \in Unused /\ \A k \in Unused : g <= k

-----------------------------------------------------------------------------
\* Home processes.
Spawned == [state |-> "spawned", binary |-> live[1], claimed |-> Pending]

\* authorize_host_start: nothing is pending, or this is the claimed start.
ClaimOf(g) == InRestart({"CandidateStartClaimed", "CandidateRunning"} \cup
                        {"PreviousStartClaimed", "PreviousRunning"})
              /\ g # ByHand /\ journal.generation = g
Claimed(i) == IF journal.restart \in CandidatePhases THEN Candidate(i) ELSE Original(i)
Authorized(g) == Pending => ClaimOf(g) /\ live[1] = Claimed(1)

HomeDoes(g, state) == homes' = [homes EXCEPT ![g].state = state]
OnlyHomes == UNCHANGED <<transactionVars, ctl, child, attempt, request, crashes>>

HomeAuthorizes(g) ==
    /\ homes[g].state = "spawned"
    /\ HomeDoes(g, IF Authorized(g) THEN "admitted" ELSE "gone")
    /\ UNCHANGED hostLock /\ OnlyHomes

HomeLocks(g) ==
    /\ homes[g].state = "admitted"
    /\ IF hostLock = Nobody
       THEN HomeDoes(g, "running") /\ hostLock' = g
       ELSE HomeDoes(g, "gone") /\ UNCHANGED hostLock
    /\ OnlyHomes

Released(g) == IF hostLock = g THEN Nobody ELSE hostLock

\* It crashes, is stopped by its owner, sees its parent's pipe close, or finds
\* its binary replaced.
HomeExits(g) ==
    /\ Alive(g)
    /\ HomeDoes(g, "gone") /\ hostLock' = Released(g)
    /\ OnlyHomes

StartByHand ==
    /\ homes[ByHand].state = "unborn"
    /\ homes' = [homes EXCEPT ![ByHand] = Spawned]
    /\ UNCHANGED hostLock /\ OnlyHomes

-----------------------------------------------------------------------------
\* The controller's own start and stop of its child.
Spawn(g) ==
    /\ child = Nobody
    /\ child' = g
    /\ homes' = [homes EXCEPT ![g] = Spawned]
    /\ UNCHANGED <<attempt, request, hostLock, crashes>>

\* stop_child: the process group is gone and reaped, and nobody owns Home.
\* Mutant: the process is told to end and not waited for.
Reaped_not == homes
Reaped == IF child = Nobody THEN homes ELSE [homes EXCEPT ![child].state = "gone"]
StopChild(place) ==
    /\ homes' = Reaped
    /\ child' = Nobody
    /\ hostLock' = Released(child)
    /\ Goto(IF Released(child) = Nobody THEN place ELSE "down")
    /\ KeepJournal /\ UNCHANGED <<attempt, request, crashes>>

\* The controller ends with an error; run() stops its child.
EndAt(place) == At(place) /\ StopChild("down")

\* acquire_host_process_lock(.., "update" or "update-recovery", "offline")
GoOffline == hostLock = Nobody /\ hostLock' = Offline
LockBusy == hostLock # Nobody
GoOnline == hostLock' = Released(Offline)

StartController ==
    /\ At("down") /\ Goto("reconciling")
    /\ attempt' = 0
    /\ KeepJournal /\ UNCHANGED <<child, request, homes, hostLock, crashes>>

Crash ==
    /\ ctl # "down" /\ crashes < MaxCrashes
    /\ crashes' = crashes + 1
    /\ ctl' = "down" /\ child' = Nobody
    /\ hostLock' = Released(Offline)
    /\ task' = "idle"
    /\ UNCHANGED <<journal, attempt, request, homes>> /\ KeepDisk

-----------------------------------------------------------------------------
\* reconcile_pending.
ReconcileNothing ==
    /\ At("reconciling") /\ ~Pending
    /\ request' = FALSE /\ Goto("initial")
    /\ KeepJournal /\ UNCHANGED <<child, attempt, homes, hostLock, crashes>>

ReconcileUnplanned ==
    /\ At("reconciling") /\ request
    /\ InPhase({"Staging", "Prepared"}) /\ journal.restart = "none"
    /\ GoOffline /\ Recover /\ Goto("discarding")
    /\ UNCHANGED <<child, attempt, request, homes, crashes>>

Discarded ==
    /\ At("discarding")
    /\ request' = (request /\ Pending)
    /\ Goto(IF Pending THEN "down" ELSE "initial")
    /\ GoOnline
    /\ KeepJournal /\ UNCHANGED <<child, attempt, homes, crashes>>

\* The claimed generation has left the host lock, and its process is gone.
Quiet == hostLock = Nobody /\ ~Alive(journal.generation)
ReceiptPhases == {"CandidateRunning", "CandidateReady", "PreviousRunning", "PreviousReady"}
\* Mutant: a restoration that was under way is not taken up.
Reconcilable_settled ==
    /\ request
    /\ InRestart(RestartPhases \ {"CandidateStartClaimed", "PreviousStartClaimed", "Restoring"})
    /\ hostLock = Nobody
    /\ journal.restart \in ReceiptPhases => Quiet
Reconcilable ==
    /\ request
    /\ InRestart(RestartPhases \ {"CandidateStartClaimed", "PreviousStartClaimed"})
    /\ hostLock = Nobody
    /\ journal.restart \in ReceiptPhases => Quiet

Finishable == ScratchValid /\ \A i \in Entries : live[i] = Claimed(i)
FinishRestart ==
    /\ InRestart({"CandidateReady", "PreviousReady"}) /\ Finishable
    /\ task' = "cleaning"
    /\ UNCHANGED journal /\ KeepDisk

ReconcileReady ==
    /\ At("reconciling") /\ Reconcilable
    /\ FinishRestart /\ Goto("discarding") /\ KeepRest

\* retire_previous_start
Retire ==
    /\ InPhase({"Recovering"}) /\ InRestart({"PreviousStartClaimed", "PreviousRunning"})
    /\ AllOriginal
    /\ Write(Restarting("Restored"))
    /\ UNCHANGED task /\ KeepDisk

ReconcileFailedStart ==
    /\ At("reconciling") /\ Reconcilable /\ journal.restart = "PreviousRunning"
    /\ Retire /\ Goto("restored")
    /\ attempt' = 1
    /\ UNCHANGED <<child, request, homes, hostLock, crashes>>

\* restore_for_restart
MayRestore == InRestart({"CandidatePending", "CandidateStartClaimed", "CandidateRunning",
                         "Restoring", "Restored"})

\* Mutant: the host lock is looked at and not taken.
ReconcileCandidate_unlocked ==
    /\ At("reconciling") /\ Reconcilable /\ MayRestore
    /\ Idle /\ BeginRecovery(TRUE)
    /\ attempt' = 1 /\ Goto("restoring")
    /\ UNCHANGED <<child, request, homes, hostLock, crashes>>

ReconcileCandidate ==
    /\ At("reconciling") /\ Reconcilable /\ MayRestore
    /\ GoOffline /\ Idle /\ BeginRecovery(TRUE)
    /\ attempt' = 1 /\ Goto("restoring")
    /\ UNCHANGED <<child, request, homes, crashes>>

\* It refuses: there is no receipt to go by, no owner, a process that has not
\* ended in time, or a disk that is not as it should be.
Unplanned == InPhase({"Staging", "Prepared"}) /\ journal.restart = "none"
ReconcileRefuses ==
    /\ Pending /\ ~(request /\ Unplanned /\ hostLock = Nobody)
    /\ \/ ~Reconcilable
       \/ InRestart({"CandidateReady", "PreviousReady"}) /\ ~Finishable
       \/ InRestart({"PreviousRunning"}) /\ ~AllOriginal
    /\ EndAt("reconciling")

\* `elastos update` and the installer recover a journal without a restart record,
\* before anything else and under the host lock (recover_pending_installation).
Rescue ==
    /\ At("down") /\ Pending /\ journal.restart = "none"
    /\ GoOffline /\ Recover /\ Goto("rescuing")
    /\ UNCHANGED <<child, attempt, request, homes, crashes>>

Rescued ==
    /\ At("rescuing") /\ GoOnline /\ Goto("down")
    /\ KeepJournal /\ UNCHANGED <<child, attempt, request, homes, crashes>>

-----------------------------------------------------------------------------
\* start_initial: a Home with a generation that no journal names.
StartInitial(g) ==
    /\ At("initial") /\ NewGeneration(g) /\ Spawn(g) /\ Goto("booting")
    /\ KeepJournal

Booted == At("booting") /\ hostLock = child /\ Goto("home") /\ KeepJournal /\ KeepRest

\* serve and apply: a request is consumed and a release staged beside Home.
TakeRequest ==
    /\ At("home") /\ ~request /\ Prepare
    /\ request' = TRUE /\ Goto("preparing")
    /\ UNCHANGED <<child, attempt, homes, hostLock, crashes>>

StageSupport == At("preparing") /\ PrepareSupport /\ Goto("preparing") /\ KeepRest

PrepareRestart ==
    /\ At("preparing") /\ InPhase({"Prepared"}) /\ journal.restart = "none"
    /\ journal.support = withSupport
    /\ Fresh = {}   \* it is refused without a complete previous release
    /\ Write([journal EXCEPT !.restart = "CandidatePending"])
    /\ attempt' = 0 /\ Goto("planned")
    /\ UNCHANGED <<task, child, request, homes, hostLock, crashes>> /\ KeepDisk

AbortPreparing == At("preparing") /\ Pending /\ Recover /\ Goto("aborting") /\ KeepRest

\* abort_pre_activation_restart: its first write, then recover.
AbortPlanned ==
    /\ At("planned") /\ InPhase({"Prepared"})
    /\ Write([journal EXCEPT !.restart = "none"])
    /\ Goto("unplanned")
    /\ UNCHANGED task /\ KeepDisk /\ KeepRest

FinishAbort == At("unplanned") /\ Recover /\ Goto("aborting") /\ KeepRest

\* The update is refused and Home still runs: the request is retired, unless
\* a journal is left.
KeepHome ==
    /\ \/ At("preparing") /\ ~InPhase({"Prepared"})
       \/ At("aborting")
    /\ request' = Pending /\ Goto("home")
    /\ KeepJournal /\ UNCHANGED <<child, attempt, homes, hostLock, crashes>>

-----------------------------------------------------------------------------
\* Activation, with Home stopped and its lock held.
StopHome == At("planned") /\ StopChild("stopped")
TakeOffline ==
    /\ At("stopped") /\ GoOffline /\ Goto("offline")
    /\ KeepJournal /\ UNCHANGED <<child, attempt, request, homes, crashes>>
Install == At("offline") /\ Commit /\ Goto("committing") /\ KeepRest

\* claim_start
Claim(g, phase) ==
    /\ NewGeneration(g)
    /\ Write([journal EXCEPT !.restart = phase, !.generation = g])
    /\ HomeDoes(g, "named")
    /\ UNCHANGED task /\ KeepDisk

ClaimCandidate(g) ==
    /\ At("committing") /\ InPhase({"Committed"}) /\ InRestart({"CandidatePending"})
    /\ Claim(g, "CandidateStartClaimed")
    /\ GoOnline /\ Goto("claimed")
    /\ UNCHANGED <<child, attempt, request, crashes>>

ActivationFailed ==   \* or the release's network could not be joined
    /\ At("committing") /\ GoOnline /\ Goto("failed")
    /\ KeepJournal /\ UNCHANGED <<child, attempt, request, homes, crashes>>

\* RestartOwner::start: spawn, receipt, readiness.
StartClaimed ==
    /\ At("claimed") /\ Spawn(journal.generation) /\ Goto("spawned")
    /\ KeepJournal

RunningPhase == IF journal.restart = "CandidateStartClaimed" THEN "CandidateRunning"
                ELSE "PreviousRunning"
RecordStarted ==
    /\ At("spawned")
    /\ InRestart({"CandidateStartClaimed", "PreviousStartClaimed"}) /\ journal.generation = child
    /\ Write([journal EXCEPT !.restart = RunningPhase])
    /\ Goto("waiting")
    /\ UNCHANGED task /\ KeepDisk /\ KeepRest

Ready == At("waiting") /\ hostLock = child /\ Goto("ready") /\ KeepJournal /\ KeepRest

\* finish_ready_restart, then finish_restart.
SupportAsClaimed == journal.support => live[Support] = Claimed(Support)
ReadyPhase == IF journal.restart = "CandidateRunning" THEN "CandidateReady" ELSE "PreviousReady"
RecordReady ==
    /\ At("ready") /\ InRestart({"CandidateRunning", "PreviousRunning"})
    /\ SupportAsClaimed /\ journal.generation = child
    /\ Write([journal EXCEPT !.restart = ReadyPhase])
    /\ UNCHANGED <<ctl, task>> /\ KeepDisk /\ KeepRest

Settle == At("ready") /\ FinishRestart /\ Goto("settling") /\ KeepRest
Settled ==
    /\ At("settling") /\ ~Pending
    /\ request' = FALSE /\ Goto("home")
    /\ KeepJournal /\ UNCHANGED <<child, attempt, homes, hostLock, crashes>>

\* It fails: an update leaves Home running and the journal behind.
Unfinished ==
    IF attempt = 0 THEN Goto("home") /\ KeepJournal /\ KeepRest ELSE StopChild("down")
FinishFails == At("ready") /\ Unfinished
CleanupFails == At("settling") /\ Pending /\ Unfinished

\* The start fails: no process, no receipt, or not ready in time.
Starting == ctl \in {"claimed", "spawned", "waiting"} /\ Idle
CandidateFails ==
    /\ Starting /\ journal.restart \in CandidatePhases
    /\ Goto("failed") /\ KeepJournal /\ KeepRest
PreviousFails ==
    /\ Starting /\ journal.restart \in PreviousPhases
    /\ StopChild("retrying")

\* Back to the previous release.
StopCandidate == At("failed") /\ child # Nobody /\ StopChild("failed")
\* Mutant: the candidate need not be gone.
RestorePrevious_beside ==
    /\ At("failed") /\ GoOffline
    /\ MayRestore /\ BeginRecovery(TRUE)
    /\ Goto("restoring")
    /\ UNCHANGED <<child, attempt, request, homes, crashes>>

RestorePrevious ==
    /\ At("failed") /\ child = Nobody /\ GoOffline
    /\ MayRestore /\ BeginRecovery(TRUE)
    /\ Goto("restoring")
    /\ UNCHANGED <<child, attempt, request, homes, crashes>>
PreviousRestored ==
    /\ At("restoring") /\ InRestart({"Restored"}) /\ GoOnline /\ Goto("restored")
    /\ KeepJournal /\ UNCHANGED <<child, attempt, request, homes, crashes>>
RestoreRefused ==
    /\ At("restoring") /\ ~InRestart({"Restored"}) /\ GoOnline /\ Goto("down")
    /\ KeepJournal /\ UNCHANGED <<child, attempt, request, homes, crashes>>
ClaimPrevious(g) ==
    /\ At("restored") /\ InRestart({"Restored"})
    /\ Claim(g, "PreviousStartClaimed")
    /\ Goto("claimed") /\ UNCHANGED <<child, attempt, request, hostLock, crashes>>

\* A stopped previous Home is retired; a reconciling controller tries again.
\* Mutant: one attempt more.
LastAttempt_later == attempt \in {0, MaxAttempts + 1}
LastAttempt == attempt \in {0, MaxAttempts}
TryAgain ==
    /\ At("retrying") /\ ~LastAttempt /\ hostLock = Nobody
    /\ Retire /\ Goto("restored")
    /\ attempt' = attempt + 1
    /\ UNCHANGED <<child, request, homes, hostLock, crashes>>
GiveUp ==
    /\ At("retrying") /\ LastAttempt
    /\ IF InRestart({"PreviousStartClaimed"}) /\ hostLock = Nobody
       THEN Retire
       ELSE KeepJournal
    /\ Goto("down") /\ KeepRest

\* Home is gone, or a journal is left behind that only the next controller
\* reconciles: the owner ends and restarts.
HomeEnds == (Pending \/ ~Alive(child)) /\ EndAt("home")
Refused ==
    \/ LockBusy /\ \E place \in {"stopped", "failed", "retrying"} : EndAt(place)
    \/ EndAt("booting")
    \/ Unused = {} /\ \E place \in {"initial", "restored"} : EndAt(place)   \* bound

-----------------------------------------------------------------------------
WorkOnTask == TransactionStep /\ UNCHANGED controllerVars
TaskFails == Fault /\ UNCHANGED controllerVars
StepBreaksOff ==   \* an operation returns an error in the middle of a task
    /\ task \in {"restoring", "cleaning"} /\ crashes < MaxCrashes
    /\ crashes' = crashes + 1
    /\ task' = "idle"
    /\ UNCHANGED <<journal, ctl, child, attempt, request, homes, hostLock>> /\ KeepDisk

Controller ==
    \/ StartController
    \/ ReconcileNothing \/ ReconcileUnplanned \/ Discarded \/ ReconcileReady
    \/ ReconcileFailedStart \/ ReconcileCandidate \/ ReconcileRefuses
    \/ Rescued
    \/ StageSupport \/ PrepareRestart \/ FinishAbort \/ KeepHome
    \/ StopHome \/ TakeOffline \/ Install \/ ActivationFailed
    \/ StartClaimed \/ RecordStarted \/ Booted \/ Ready \/ RecordReady \/ Settle \/ Settled \/ CleanupFails
    \/ CandidateFails \/ PreviousFails \/ StopCandidate \/ RestorePrevious
    \/ PreviousRestored \/ RestoreRefused \/ TryAgain \/ GiveUp
    \/ HomeEnds \/ WorkOnTask
    \/ \E g \in Generations \ {ByHand} :
         StartInitial(g) \/ ClaimCandidate(g) \/ ClaimPrevious(g)

Process(g) == HomeAuthorizes(g) \/ HomeLocks(g)

Next ==
    \/ Controller
    \/ TakeRequest \/ Rescue \/ AbortPreparing \/ AbortPlanned
    \/ Refused \/ FinishFails \/ TaskFails \/ StepBreaksOff
    \/ StartByHand \/ Crash
    \/ \E g \in Homes : Process(g) \/ HomeExits(g)

\* The controller takes its next step and is started again when it is down; the
\* owner runs the command its messages name; a Home whose controller is gone
\* finds its pipe closed and exits, and any other makes up its mind.
Orphan(g) == g # child /\ g # ByHand
Fairness ==
    /\ WF_vars(Controller) /\ SF_vars(Rescue)
    /\ \A g \in Homes : WF_vars(Process(g)) /\ WF_vars(Orphan(g) /\ HomeExits(g))

Spec == Init /\ [][Next]_vars /\ Fairness

-----------------------------------------------------------------------------
(* Properties. *)

Started(g) == Alive(g) /\ g # ByHand /\ homes[g].claimed
\* Release files and support assets change only while nobody holds the host
\* lock but the controller, and no Home started under a claim is alive.
QuietSwitch == live' # live => hostLock = Offline /\ \A g \in Homes : ~Started(g)
SwitchesQuietly == [][QuietSwitch]_vars

\* A Home that runs under a claim runs on one release as a whole, the one that
\* was claimed: binary, metadata and support assets.
WholeUnderClaim ==
    \A g \in Homes : Pending /\ homes[g].state = "running" /\ ClaimOf(g) =>
        /\ homes[g].binary = Claimed(1)
        /\ \A i \in Entries : live[i] = Claimed(i)

\* The failed new release is never started again: once the controller goes
\* back, no process of the candidate is left and none comes.
NoCandidateAfterRollback ==
    InPhase({"Recovering"}) =>
        \A g \in Homes : Started(g) => homes[g].binary = Original(1)

\* There is no second Home beside the one a claim is for.
OneHome == \A g, h \in Homes : Started(g) /\ Started(h) /\ ClaimOf(g) => g = h

\* An update ends: committed and Home told so, or undone, unless the owner must
\* look (a claim without a receipt, a Home of the owner's own) or the transaction
\* is stranded; or the bound on generations is reached.
Unreceipted == InRestart({"CandidateStartClaimed", "PreviousStartClaimed"}) /\ ctl = "down"
OutOfBound == Unused = {} /\ ctl \in {"initial", "restored"}
UpdateEnds ==
    Pending ~> (~Pending \/ Unreceipted \/ Stranded \/ hostLock = ByHand \/ OutOfBound)

\* "A pending transaction admits only its controller's claimed host generation."
AdmitsOnlyClaimed ==
    [][\A g \in Homes : homes[g].state # "running" /\ homes'[g].state = "running" =>
          (Pending => ClaimOf(g))]_vars
=============================================================================
