----------------------- MODULE UpdateController_proofs -----------------------
(***************************************************************************)
(* What holds of every update the controller makes, for any number of      *)
(* files, generations, attempts, crashes and errors.  Four parts make the  *)
(* invariant: who may hold the host lock, what the controller knows where  *)
(* it is, what the journal says of the disk, and what it says of the Home  *)
(* processes that were started under a claim.                              *)
(***************************************************************************)
EXTENDS UpdateController, InstallTransaction_proofs

StartPhases == {"CandidateStartClaimed", "PreviousStartClaimed"}
ClaimPhases == CandidatePhases \cup PreviousPhases

\* A running Home holds the host lock, and nobody else's number is in it.
LockInv == \A g \in Homes : homes[g].state = "running" <=> hostLock = g

\* What the journal says of the disk.
JournalInv ==
    Pending =>
      /\ journal.phase = "Staging" => journal.restart = "none"
      /\ journal.phase \in {"Staging", "Prepared"} => \A i \in Items : live[i] = Original(i)
      /\ journal.phase = "Committed" => AllCandidate
      /\ journal.restart = "CandidatePending"
           => journal.phase \in {"Prepared", "Committing", "Committed"}
      /\ journal.restart \in CandidatePhases => journal.phase = "Committed"
      /\ journal.restart = "Restoring" => journal.phase = "Recovering"
      /\ journal.restart \in PreviousPhases \cup {"Restored"}
           => journal.phase = "Recovering" /\ AllOriginal

\* What the controller knows where it is, and when it has nothing in progress.
PlaceInv ==
    /\ ctl = "initial" => ~Pending
    /\ ctl \in {"preparing", "unplanned"} =>
         (Pending => journal.phase \in {"Staging", "Prepared"} /\ journal.restart = "none")
    /\ ctl \in {"planned", "stopped", "offline"} =>
         InPhase({"Prepared"}) /\ journal.restart = "CandidatePending"
    /\ ctl = "claimed" =>
         /\ InRestart(StartPhases) /\ journal.generation \in Homes \ {ByHand}
         /\ homes[journal.generation].state = "named"
    /\ ctl \in {"initial", "planned", "stopped", "offline", "unplanned", "claimed"} => Idle
    /\ ctl \in {"offline", "committing", "restoring"} => hostLock = Offline
    /\ ctl = "retrying" => child = Nobody
    /\ child # ByHand
    /\ ctl = "ready" => (Alive(child) => hostLock = child)

\* What is in progress, where, and what the journal says meanwhile.
TaskInv ==
    /\ task # "idle" => Pending
    /\ task # "activating"
    /\ task = "staging" => ctl = "preparing" /\ journal.phase = "Staging"
    /\ task = "committing" =>
         /\ ctl = "committing"
         /\ journal.phase = "Committing" /\ journal.restart = "CandidatePending"
    /\ task = "failing" =>
         \/ ctl = "preparing" /\ journal.phase = "Staging"
         \/ /\ ctl = "committing" /\ journal.restart = "CandidatePending"
            /\ journal.phase \in {"Committing", "Committed"}
    /\ task = "restoring" =>
         /\ journal.phase = "Recovering" /\ journal.restart \in {"none", "Restoring"}
         /\ hostLock = Offline \/ AllOriginal
         /\ ctl \in IF journal.restart = "none" THEN {"aborting", "discarding", "rescuing"}
                    ELSE {"committing", "restoring"}
    /\ task = "cleaning" =>
         /\ journal.restart \in {"none", "CandidateReady", "PreviousReady"}
         /\ ctl \in {"preparing", "aborting", "discarding", "settling", "rescuing"}

\* A Home that was started under a claim runs the release it was claimed for,
\* is the controller's while that is at work, and is the only one; when the
\* journal no longer names it, it holds the host lock.
ClaimedNow(g) == g # ByHand /\ InRestart(ClaimPhases) /\ journal.generation = g
Unnamed == Pending => journal.restart = "none" \/ journal.phase = "Prepared"
StartedInv == \A g \in Homes : Started(g) => ClaimedNow(g) \/ (hostLock = g /\ Unnamed)
ClaimedInv == \A g \in Homes : ClaimedNow(g) /\ Alive(g) =>
    /\ homes[g].binary = Claimed(1)
    /\ ctl \notin {"down", "reconciling"} => child = g
    /\ journal.restart \in {"CandidateReady", "PreviousReady"} => hostLock = g
CandidateInv == \A g \in Homes : Started(g) /\ homes[g].binary # Original(1) =>
    (Pending => journal.phase = "Committed") /\ live[1] # Original(1)

NoForeign == \A i \in Items : live[i] # "foreign"

HomeInv == LockInv /\ StartedInv /\ ClaimedInv /\ CandidateInv
UInv == TypeOK /\ TransactionInv /\ NoForeign /\ JournalInv /\ PlaceInv /\ TaskInv /\ HomeInv

-----------------------------------------------------------------------------
(* Facts about the constants and the records. *)

LEMMA HolderFacts ==
    /\ Homes = 0 .. MaxStarts /\ MaxStarts \in Nat /\ ByHand \in Homes
    /\ Nobody \notin Homes /\ Offline \notin Homes /\ Nobody # Offline /\ Nobody # ByHand
  BY FilesAssumption DEF Homes, Generations, Nobody, Offline, ByHand

LEMMA HomeFacts ==
  ASSUME homes \in [Homes -> Home], NEW g \in Homes,
         NEW s \in {"unborn", "named", "spawned", "admitted", "running", "gone"}
  PROVE  LET after == [homes EXCEPT ![g].state = s]
         IN  /\ after \in [Homes -> Home]
             /\ \A h \in Homes : /\ after[h].state = IF h = g THEN s ELSE homes[h].state
                                 /\ after[h].binary = homes[h].binary
                                 /\ after[h].claimed = homes[h].claimed
  BY DEF Home

LEMMA SpawnedFacts ==
  ASSUME TypeOK
  PROVE  Spawned \in Home /\ Spawned.state = "spawned" /\ Spawned.binary = live[1]
         /\ Spawned.claimed = Pending
  BY FilesAssumption, ItemFacts DEF Spawned, Home, TypeOK, DiskTypeOK, Pending, Files

LEMMA RestartWritten ==
  ASSUME journal \in Journal, NEW r \in RestartPhases \cup {"none"}, NEW g \in Generations
  PROVE  /\ [journal EXCEPT !.restart = r] \in Journal
         /\ [journal EXCEPT !.restart = r].phase = journal.phase
         /\ [journal EXCEPT !.restart = r].support = journal.support
         /\ [journal EXCEPT !.restart = r].restart = r
         /\ [journal EXCEPT !.restart = r].generation = journal.generation
         /\ [journal EXCEPT !.restart = r, !.generation = g] \in Journal
         /\ [journal EXCEPT !.restart = r, !.generation = g].phase = journal.phase
         /\ [journal EXCEPT !.restart = r, !.generation = g].support = journal.support
         /\ [journal EXCEPT !.restart = r, !.generation = g].restart = r
         /\ [journal EXCEPT !.restart = r, !.generation = g].generation = g
  BY DEF Journal

LEMMA RestartingWritten ==
  ASSUME journal \in Journal, NEW phase \in RestartPhases
  PROVE  /\ Restarting(phase) \in Journal /\ Restarting(phase).phase = "Recovering"
         /\ Restarting(phase).support = journal.support
         /\ Restarting(phase).restart = IF journal.restart = "none" THEN "none" ELSE phase
<1>1. Restarting(phase).restart = IF journal.restart = "none" THEN "none" ELSE phase
  BY DEF Restarting, Journal
<1> QED
  BY <1>1, RestartingFacts

LEMMA JournalTyped == UInv /\ Pending => journal \in Journal
  BY DEF UInv, TypeOK, DiskTypeOK, Pending

\* Whoever has been started under a claim is claimed, or holds the lock.
LEMMA NoneStarted ==
  ASSUME UInv, hostLock \notin Homes \/ ~Unnamed,
         InRestart(ClaimPhases) => ~Alive(journal.generation) \/ journal.generation = ByHand
  PROVE  \A g \in Homes : ~Started(g)
  BY DEF UInv, HomeInv, StartedInv, ClaimedNow, Started

LEMMA OneRelease ==
  ASSUME UInv, InRestart(ClaimPhases)
  PROVE  /\ \A i \in Entries : live[i] = Claimed(i)
         /\ live[1] = Claimed(1)
         /\ ~Unnamed
         /\ journal.phase = IF journal.restart \in CandidatePhases THEN "Committed" ELSE "Recovering"
<1>1. 1 \in Entries
  BY FilesAssumption, EntryFacts DEF Files
<1> QED
  BY <1>1 DEF UInv, JournalInv, InRestart, ClaimPhases, CandidatePhases, PreviousPhases, Claimed,
              AllCandidate, AllOriginal, Unnamed

-----------------------------------------------------------------------------
(* What Home processes do. *)

\* Steps that leave everything to the Home processes and their lock.
LEMMA HomeStepKeeps ==
  ASSUME UInv, OnlyHomes, HomeInv',
         homes' \in [Homes -> Home], hostLock' \in Homes \cup {Nobody, Offline},
         hostLock = Offline => hostLock' = Offline,
         ctl = "claimed" => homes'[journal.generation].state = "named",
         ctl = "ready" => (Alive(child)' => hostLock' = child)
  PROVE  UInv'
<1>1. TypeOK'
  BY DEF UInv, TypeOK, OnlyHomes, DiskTypeOK, transactionVars
<1>2. TransactionInv' /\ NoForeign' /\ JournalInv'
  BY DEF UInv, OnlyHomes, transactionVars, TransactionInv, DiskTypeOK, TaskInPhase, LastCopy, NoForeign,
         JournalInv, InPhase, Pending, Entries, Kept, AllOriginal, AllCandidate
<1>3. PlaceInv'
  BY DEF UInv, PlaceInv, OnlyHomes, transactionVars, Pending, InPhase, InRestart, Idle
<1>4. TaskInv'
  BY DEF UInv, TaskInv, OnlyHomes, transactionVars, Pending, AllOriginal, Entries
<1> QED
  BY <1>1, <1>2, <1>3, <1>4 DEF UInv

\* A Home that is alive goes on: it keeps what it runs and how it was started.
LEMMA HomeMovesOn ==
  ASSUME UInv, NEW g \in Homes, Alive(g), OnlyHomes,
         NEW s \in {"admitted", "running", "gone"}, HomeDoes(g, s),
         hostLock' \in Homes \cup {Nobody, Offline},
         \/ s = "admitted" /\ homes[g].state = "spawned" /\ hostLock' = hostLock
         \/ s = "gone" /\ hostLock' = Released(g)
         \/ s = "running" /\ hostLock = Nobody /\ hostLock' = g
  PROVE  UInv'
<1>0. homes \in [Homes -> Home] /\ s \in {"unborn", "named", "spawned", "admitted", "running", "gone"}
  BY DEF UInv, TypeOK
<1>1. /\ homes' \in [Homes -> Home]
      /\ \A h \in Homes : /\ homes'[h].state = IF h = g THEN s ELSE homes[h].state
                          /\ homes'[h].binary = homes[h].binary
                          /\ homes'[h].claimed = homes[h].claimed
  BY <1>0 DEF HomeDoes, Home
<1>2. \A h \in Homes : (Alive(h)' => Alive(h)) /\ (Started(h)' => Started(h))
  BY <1>1 DEF Alive, Started
<1>3. LockInv'
  BY <1>1, HolderFacts DEF UInv, HomeInv, LockInv, Released, Alive
<1>4. StartedInv'
  BY <1>1, <1>2, HolderFacts
  DEF UInv, HomeInv, StartedInv, OnlyHomes, transactionVars, ClaimedNow, Started, Alive, Unnamed, InRestart,
      Pending, Released
<1>5. ClaimedInv'
  BY <1>1, <1>2, HolderFacts
  DEF UInv, HomeInv, ClaimedInv, OnlyHomes, transactionVars, ClaimedNow, Alive, InRestart, Pending, Claimed,
      Released
<1>6. CandidateInv'
  BY <1>1, <1>2 DEF UInv, HomeInv, CandidateInv, OnlyHomes, transactionVars, Pending
<1>7. ctl = "claimed" => homes'[journal.generation].state = "named"
  BY <1>1 DEF UInv, PlaceInv, Alive
<1>8. ctl = "ready" => (Alive(child)' => hostLock' = child)
  BY <1>1, <1>2, HolderFacts DEF UInv, PlaceInv, Alive, OnlyHomes, Released
<1> QED
  BY <1>1, <1>3, <1>4, <1>5, <1>6, <1>7, <1>8, HomeStepKeeps, HolderFacts DEF HomeInv, Released

LEMMA ProcessKeeps ==
  ASSUME UInv, NEW g \in Homes, Process(g) \/ HomeExits(g) PROVE UInv'
<1>1. hostLock \in Homes \cup {Nobody, Offline} /\ Released(g) \in Homes \cup {Nobody, Offline}
  BY DEF UInv, TypeOK, Released
<1>2. CASE HomeAuthorizes(g)
  <2> DEFINE s == IF Authorized(g) THEN "admitted" ELSE "gone"
  <2>1. s \in {"admitted", "gone"} /\ HomeDoes(g, s) /\ Alive(g) /\ hostLock' = hostLock /\ OnlyHomes
    BY <1>2 DEF HomeAuthorizes, Alive
  <2>2. s = "gone" => hostLock' = Released(g)
    BY <1>2, <2>1, HolderFacts DEF Released, UInv, HomeInv, LockInv, HomeAuthorizes
  <2> HIDE DEF s
  <2> QED
    BY <1>1, <1>2, <2>1, <2>2, HomeMovesOn DEF HomeAuthorizes
<1>3. CASE HomeLocks(g)
  <2>1. Alive(g) /\ OnlyHomes /\ hostLock # g
    BY <1>3 DEF HomeLocks, Alive, UInv, HomeInv, LockInv
  <2> QED
    BY <1>1, <1>3, <2>1, HomeMovesOn DEF HomeLocks, Released
<1>4. CASE HomeExits(g)
  BY <1>1, <1>4, HomeMovesOn DEF HomeExits
<1> QED
  BY <1>2, <1>3, <1>4 DEF Process

LEMMA StartByHandKeeps == ASSUME UInv, StartByHand PROVE UInv'
<1>1. /\ homes' \in [Homes -> Home]
      /\ \A h \in Homes \ {ByHand} : homes'[h] = homes[h]
      /\ homes[ByHand].state = "unborn" /\ homes'[ByHand].state = "spawned" /\ hostLock' = hostLock
      /\ OnlyHomes
  BY SpawnedFacts, HolderFacts DEF StartByHand, UInv, TypeOK
<1>2. \A h \in Homes \ {ByHand} : (Alive(h)' = Alive(h)) /\ (Started(h)' = Started(h))
  BY <1>1 DEF Alive, Started
<1>3. LockInv'
  BY <1>1 DEF UInv, HomeInv, LockInv
<1>4. StartedInv' /\ ClaimedInv' /\ CandidateInv'
  BY <1>1, <1>2
  DEF UInv, HomeInv, StartedInv, ClaimedInv, CandidateInv, OnlyHomes, transactionVars, ClaimedNow, Started,
      Unnamed, InRestart, Pending, Claimed
<1> QED
  BY <1>1, <1>2, <1>3, <1>4, HomeStepKeeps, HolderFacts DEF HomeInv, UInv, TypeOK, PlaceInv, OnlyHomes, Alive

-----------------------------------------------------------------------------
(* What the controller does to Home and to the lock. *)

LEMMA DiskFrame ==
  ASSUME UInv, UNCHANGED transactionVars
  PROVE  DiskTypeOK' /\ TransactionInv' /\ NoForeign' /\ JournalInv'
  BY DEF UInv, TypeOK, transactionVars, TransactionInv, DiskTypeOK, TaskInPhase, LastCopy, NoForeign,
         JournalInv, InPhase, Pending, Entries, Kept, AllOriginal, AllCandidate

LEMMA ReapedFacts ==
  ASSUME UInv
  PROVE  /\ Reaped \in [Homes -> Home]
         /\ \A h \in Homes : /\ Reaped[h].state = IF h = child THEN "gone" ELSE homes[h].state
                             /\ Reaped[h].binary = homes[h].binary
                             /\ Reaped[h].claimed = homes[h].claimed
<1>1. homes \in [Homes -> Home] /\ child \in Homes \cup {Nobody}
  BY DEF UInv, TypeOK
<1>2. CASE child = Nobody
  BY <1>1, <1>2, HolderFacts DEF Reaped
<1>3. CASE child # Nobody
  BY <1>1, <1>3, HomeFacts DEF Reaped
<1> QED
  BY <1>2, <1>3

\* Once its child is stopped the controller owns no Home, and a claimed one was
\* its child.
LEMMA StopKeeps ==
  ASSUME UInv, Idle, NEW place \in Places, StopChild(place),
         \/ place = "down"
         \/ /\ ctl \notin {"down", "reconciling"}
            /\ place \in {"failed", "retrying"} \/ (place = "stopped" /\ ctl = "planned")
  PROVE  UInv'
<1>1. /\ homes' = Reaped /\ child' = Nobody /\ hostLock' = Released(child)
      /\ UNCHANGED transactionVars /\ UNCHANGED <<attempt, request, crashes>>
      /\ ctl' \in {place, "down"}
  BY DEF StopChild, Goto, KeepJournal
<1>2. /\ homes' \in [Homes -> Home]
      /\ \A h \in Homes : /\ homes'[h].state = IF h = child THEN "gone" ELSE homes[h].state
                          /\ homes'[h].binary = homes[h].binary
                          /\ homes'[h].claimed = homes[h].claimed
  BY <1>1, ReapedFacts
<1>3. /\ UNCHANGED <<journal, live, stage, rollback, supportDir, task, withSupport>>
      /\ Entries' = Entries
  BY <1>1 DEF transactionVars, Entries
<1>4. \A h \in Homes : /\ Alive(h)' => Alive(h) /\ h # child
                       /\ Started(h)' => Started(h) /\ h # child
  BY <1>2 DEF Alive, Started
<1>5. TypeOK'
  BY <1>1, <1>2, DiskFrame DEF UInv, TypeOK, Released, Places
<1>6. LockInv'
  BY <1>1, <1>2, HolderFacts DEF UInv, TypeOK, HomeInv, LockInv, Released
<1>7. StartedInv'
  BY <1>1, <1>2, <1>3, <1>4
  DEF UInv, HomeInv, StartedInv, ClaimedNow, Unnamed, InRestart, Pending, Released
<1>8. ClaimedInv'
  <2>1. ASSUME NEW h \in Homes, ClaimedNow(h)', Alive(h)'
        PROVE  ctl' = "down" /\ homes'[h].binary = Claimed(1)'
               /\ (journal'.restart \in {"CandidateReady", "PreviousReady"} => hostLock' = h)
    <3>1. ClaimedNow(h) /\ Alive(h) /\ h # child /\ Claimed(1)' = Claimed(1)
      BY <1>3, <1>4, <2>1 DEF ClaimedNow, InRestart, Pending, Claimed
    <3> QED
      BY <1>1, <1>2, <1>3, <3>1 DEF UInv, HomeInv, ClaimedInv, Released
  <2> QED
    BY <2>1 DEF ClaimedInv
<1>9. CandidateInv'
  BY <1>2, <1>3, <1>4 DEF UInv, HomeInv, CandidateInv, Pending
<1>10. PlaceInv'
  BY <1>1, <1>3, HolderFacts DEF UInv, PlaceInv, Idle, InPhase, Pending
<1>11. TaskInv'
  BY <1>3 DEF TaskInv, Idle
<1> QED
  BY <1>1, <1>5, <1>6, <1>7, <1>8, <1>9, <1>10, <1>11, DiskFrame DEF UInv, HomeInv

\* Nothing of what the Home processes are held to changes.
LEMMA HomeFrame ==
  ASSUME UInv, UNCHANGED <<journal, live, child, homes, hostLock>>,
         ctl \in {"down", "reconciling"} =>
            ctl' \in {"down", "reconciling"} \/ ~InRestart(ClaimPhases) \/ ~Alive(journal.generation)
  PROVE  HomeInv'
  BY DEF UInv, HomeInv, LockInv, StartedInv, ClaimedInv, CandidateInv, ClaimedNow, Started, Alive, Unnamed,
         InRestart, Pending, Claimed

\* Steps that take the controller from one place to another.
LEMMA MoveKeeps ==
  ASSUME UInv, UNCHANGED <<journal, child, homes, hostLock>>, KeepDisk,
         ctl' \in Places, attempt' \in 0 .. MaxAttempts, request' \in BOOLEAN, crashes' \in 0 .. MaxCrashes,
         task' = task \/ (task' = "cleaning" /\ InPhase({"Committed", "Recovering"})
                          /\ (InPhase({"Recovering"}) => AllOriginal)),
         PlaceInv', TaskInv',
         ctl \in {"down", "reconciling"} =>
            ctl' \in {"down", "reconciling"} \/ ~InRestart(ClaimPhases) \/ ~Alive(journal.generation)
  PROVE  UInv'
<1>1. UNCHANGED <<journal, live, stage, rollback, supportDir, withSupport, child, homes, hostLock>>
      /\ Entries' = Entries
  BY DEF KeepDisk, diskVars, Entries
<1>2. TypeOK'
  BY <1>1 DEF UInv, TypeOK, DiskTypeOK, Tasks
<1>3. TransactionInv' /\ NoForeign' /\ JournalInv'
  BY <1>1, <1>2 DEF UInv, TypeOK, TransactionInv, TaskInPhase, LastCopy, NoForeign, JournalInv, InPhase,
                    Pending, Kept, AllOriginal, AllCandidate
<1>4. HomeInv'
  BY <1>1, HomeFrame
<1> QED
  BY <1>2, <1>3, <1>4 DEF UInv

LEMMA AttemptFacts == 0 \in 0 .. MaxAttempts /\ 1 \in 0 .. MaxAttempts
  BY ControllerAssumption

\* Where nothing is asked of the controller, the journal or the lock.
Carefree == {"down", "reconciling", "booting", "home", "waiting", "failed", "retrying"}

LEMMA CarefreeMoveKeeps ==
  ASSUME UInv, Idle, UNCHANGED transactionVars, UNCHANGED <<child, homes, hostLock>>,
         attempt' \in 0 .. MaxAttempts, request' \in BOOLEAN, crashes' \in 0 .. MaxCrashes,
         ctl' \in Carefree \ {"retrying"} \/ (ctl' = "initial" /\ ~Pending) \/ (ctl' = "ready" /\ hostLock = child),
         ctl \in {"down", "reconciling"} => ctl' \in {"down", "reconciling"} \/ ~Pending
  PROVE  UInv'
<1>1. UNCHANGED <<journal, live, task, child, homes, hostLock>> /\ KeepDisk
  BY DEF transactionVars, KeepDisk, diskVars
<1>2. PlaceInv'
  BY <1>1 DEF UInv, PlaceInv, Carefree, Idle, Pending, Alive
<1>3. TaskInv'
  BY <1>1 DEF TaskInv, Idle
<1>4. ctl' \in Places
  BY DEF Carefree, Places
<1> QED
  BY <1>1, <1>2, <1>3, <1>4, MoveKeeps DEF InRestart

LEMMA MovesKeep ==
  ASSUME UInv,
         \/ StartController \/ ReconcileNothing \/ Booted \/ Ready \/ KeepHome \/ Settled
         \/ CandidateFails \/ (At("retrying") /\ KeepJournal /\ Goto("down") /\ KeepRest)
         \/ ((At("ready") \/ At("settling")) /\ Goto("home") /\ KeepJournal /\ KeepRest)
  PROVE  UInv'
<1>0. /\ attempt \in 0 .. MaxAttempts /\ request \in BOOLEAN /\ crashes \in 0 .. MaxCrashes
      /\ Pending \in BOOLEAN
  BY DEF UInv, TypeOK, Pending
<1>1. CASE StartController \/ ReconcileNothing
  BY <1>0, <1>1, CarefreeMoveKeeps, AttemptFacts
  DEF StartController, ReconcileNothing, At, Goto, KeepJournal, Carefree
<1>2. CASE Booted \/ Ready \/ KeepHome \/ Settled
  BY <1>0, <1>2, CarefreeMoveKeeps DEF Booted, Ready, KeepHome, Settled, At, Goto, KeepJournal, KeepRest, Carefree
<1>3. CASE CandidateFails
  BY <1>0, <1>3, CarefreeMoveKeeps DEF CandidateFails, Starting, Goto, KeepJournal, KeepRest, Carefree
<1>4. CASE At("retrying") /\ KeepJournal /\ Goto("down") /\ KeepRest
  BY <1>0, <1>4, CarefreeMoveKeeps DEF At, Goto, KeepJournal, KeepRest, Carefree
<1>5. CASE (At("ready") \/ At("settling")) /\ Goto("home") /\ KeepJournal /\ KeepRest
  BY <1>0, <1>5, CarefreeMoveKeeps DEF At, Goto, KeepJournal, KeepRest, Carefree
<1> QED
  BY <1>1, <1>2, <1>3, <1>4, <1>5

LEMMA StopsKeep ==
  ASSUME UInv,
         \/ ReconcileRefuses \/ StopHome \/ PreviousFails \/ StopCandidate \/ HomeEnds \/ Refused
         \/ FinishFails \/ CleanupFails
  PROVE  UInv'
<1>1. ASSUME NEW place \in Places, EndAt(place) PROVE UInv'
  BY <1>1, StopKeeps DEF EndAt, At, Places
<1>2. CASE ReconcileRefuses \/ HomeEnds \/ Refused
  BY <1>1, <1>2 DEF ReconcileRefuses, HomeEnds, Refused, Places
<1>3. CASE StopHome \/ PreviousFails \/ StopCandidate
  BY <1>3, StopKeeps DEF StopHome, PreviousFails, StopCandidate, Starting, At, Places
<1>4. CASE FinishFails \/ CleanupFails
  <2>1. CASE attempt = 0
    BY <1>4, <2>1, MovesKeep DEF FinishFails, CleanupFails, Unfinished
  <2>2. CASE attempt # 0
    BY <1>4, <2>2, StopKeeps DEF FinishFails, CleanupFails, Unfinished, At, Places
  <2> QED
    BY <2>1, <2>2
<1> QED
  BY <1>2, <1>3, <1>4

\* FinishRestart begins to clean up, and only where all is one release.
LEMMA FinishesKeep ==
  ASSUME UInv, ReconcileReady \/ Settle
  PROVE  UInv'
<1>1. /\ FinishRestart /\ UNCHANGED <<child, attempt, request, homes, hostLock, crashes>>
      /\ \/ ctl = "reconciling" /\ ctl' = "discarding" /\ ~Alive(journal.generation)
         \/ ctl = "ready" /\ ctl' = "settling"
  BY DEF ReconcileReady, Settle, At, Goto, KeepRest, Reconcilable, FinishRestart, InRestart, ReceiptPhases, Quiet
<1>2. /\ task' = "cleaning" /\ UNCHANGED journal /\ KeepDisk
      /\ InRestart({"CandidateReady", "PreviousReady"}) /\ UNCHANGED live
  BY <1>1 DEF FinishRestart, KeepDisk, diskVars
<1>3. /\ InPhase({"Committed", "Recovering"}) /\ (InPhase({"Recovering"}) => AllOriginal)
  BY <1>2 DEF UInv, JournalInv, InRestart, InPhase, CandidatePhases, PreviousPhases
<1>4. PlaceInv'
  BY <1>1 DEF UInv, PlaceInv
<1>5. TaskInv'
  BY <1>1, <1>2 DEF TaskInv, InRestart, Pending
<1>6. ctl' \in Places
  BY <1>1 DEF Places
<1> QED
  BY <1>1, <1>2, <1>3, <1>4, <1>5, <1>6, MoveKeeps DEF UInv, TypeOK

\* Taking the lock for itself, and giving it back.
LEMMA LockStepKeeps ==
  ASSUME UInv, Idle, UNCHANGED transactionVars, UNCHANGED <<child, homes>>,
         attempt' \in 0 .. MaxAttempts, request' \in BOOLEAN, crashes' \in 0 .. MaxCrashes,
         \/ hostLock = Nobody /\ hostLock' = Offline
         \/ hostLock' = Released(Offline),
         \/ ctl \notin {"down", "reconciling"} \/ ~InRestart(ClaimPhases),
         \/ ctl' = "offline" /\ hostLock' = Offline /\ ctl = "stopped"
         \/ ctl' \in {"down", "failed", "restored"}
         \/ ctl' = "initial" /\ ~Pending
  PROVE  UInv'
<1>1. UNCHANGED <<journal, live, task, child, homes>>
  BY DEF transactionVars
<1>2. hostLock' \in Homes \cup {Nobody, Offline}
      /\ \A g \in Homes : hostLock = g <=> hostLock' = g
  BY HolderFacts DEF Released, UInv, TypeOK
<1>3. TypeOK'
  BY <1>1, <1>2, DiskFrame DEF UInv, TypeOK, Places
<1>4. HomeInv'
  BY <1>1, <1>2
  DEF UInv, HomeInv, LockInv, StartedInv, ClaimedInv, CandidateInv, ClaimedNow, Started, Alive, Unnamed,
      InRestart, Pending, Claimed
<1>5. PlaceInv'
  BY <1>1 DEF UInv, PlaceInv, Idle, InPhase, Pending
<1>6. TaskInv'
  BY <1>1 DEF TaskInv, Idle
<1> QED
  BY <1>3, <1>4, <1>5, <1>6, DiskFrame DEF UInv

LEMMA LockStepsKeep ==
  ASSUME UInv, Discarded \/ Rescued \/ TakeOffline \/ ActivationFailed \/ PreviousRestored \/ RestoreRefused
  PROVE  UInv'
<1>0. /\ attempt \in 0 .. MaxAttempts /\ request \in BOOLEAN /\ crashes \in 0 .. MaxCrashes
      /\ Pending \in BOOLEAN /\ (request /\ Pending) \in BOOLEAN
  BY DEF UInv, TypeOK, Pending
<1>1. CASE Discarded
  BY <1>0, <1>1, LockStepKeeps DEF Discarded, At, Goto, GoOnline, KeepJournal
<1>2. CASE Rescued \/ ActivationFailed \/ PreviousRestored \/ RestoreRefused
  BY <1>0, <1>2, LockStepKeeps
  DEF Rescued, ActivationFailed, PreviousRestored, RestoreRefused, At, Goto, GoOnline, KeepJournal
<1>3. CASE TakeOffline
  BY <1>0, <1>3, LockStepKeeps DEF TakeOffline, At, Goto, GoOffline, KeepJournal
<1> QED
  BY <1>1, <1>2, <1>3

LEMMA CrashKeeps == ASSUME UInv, Crash PROVE UInv'
<1>1. /\ UNCHANGED <<journal, live, stage, rollback, supportDir, withSupport, attempt, request, homes>>
      /\ ctl' = "down" /\ child' = Nobody /\ hostLock' = Released(Offline) /\ task' = "idle"
      /\ Entries' = Entries
  BY DEF Crash, KeepDisk, diskVars, Entries
<1>2. crashes' \in 0 .. MaxCrashes
  BY ControllerAssumption DEF Crash, UInv, TypeOK
<1>3. hostLock' \in Homes \cup {Nobody, Offline}
      /\ \A g \in Homes : hostLock = g <=> hostLock' = g
  BY <1>1, HolderFacts DEF Released, UInv, TypeOK
<1>4. TypeOK'
  BY <1>1, <1>2, <1>3 DEF UInv, TypeOK, DiskTypeOK, Places, Tasks
<1>5. TransactionInv' /\ NoForeign' /\ JournalInv'
  BY <1>1, <1>4 DEF UInv, TypeOK, TransactionInv, TaskInPhase, LastCopy, NoForeign, JournalInv, InPhase,
                    Pending, Kept, AllOriginal, AllCandidate
<1>6. HomeInv'
  BY <1>1, <1>3
  DEF UInv, HomeInv, LockInv, StartedInv, ClaimedInv, CandidateInv, ClaimedNow, Started, Alive, Unnamed,
      InRestart, Pending, Claimed
<1>7. PlaceInv' /\ TaskInv'
  BY <1>1, HolderFacts DEF PlaceInv, TaskInv
<1> QED
  BY <1>4, <1>5, <1>6, <1>7 DEF UInv

LEMMA StepBreaksOffKeeps == ASSUME UInv, StepBreaksOff PROVE UInv'
<1>1. /\ UNCHANGED <<journal, live, stage, rollback, supportDir, withSupport, ctl, child, attempt, request>>
      /\ UNCHANGED <<homes, hostLock>> /\ task' = "idle" /\ Entries' = Entries
  BY DEF StepBreaksOff, KeepDisk, diskVars, Entries
<1>2. crashes' \in 0 .. MaxCrashes
  BY ControllerAssumption DEF StepBreaksOff, UInv, TypeOK
<1>3. TypeOK'
  BY <1>1, <1>2 DEF UInv, TypeOK, DiskTypeOK, Tasks
<1>4. TransactionInv' /\ NoForeign' /\ JournalInv'
  BY <1>1, <1>3 DEF UInv, TypeOK, TransactionInv, TaskInPhase, LastCopy, NoForeign, JournalInv, InPhase,
                    Pending, Kept, AllOriginal, AllCandidate
<1>5. HomeInv'
  BY <1>1, HomeFrame
<1>6. PlaceInv' /\ TaskInv'
  BY <1>1 DEF UInv, PlaceInv, TaskInv, InPhase, InRestart, Pending, Idle, Alive
<1> QED
  BY <1>3, <1>4, <1>5, <1>6 DEF UInv

-----------------------------------------------------------------------------
(* Spawning a Home. *)

LEMMA SpawnFacts ==
  ASSUME UInv, NEW g \in Homes, g # ByHand, homes[g].state \in {"unborn", "named"}, Spawn(g), KeepJournal,
         ctl' \in Places
  PROVE  /\ TypeOK' /\ LockInv' /\ child' = g /\ hostLock' = hostLock
         /\ UNCHANGED <<journal, live, task>>
         /\ \A h \in Homes : h # g => homes'[h] = homes[h]
         /\ Alive(g)' /\ homes'[g].binary = live[1] /\ homes'[g].claimed = Pending
<1>1. /\ child' = g /\ homes' = [homes EXCEPT ![g] = Spawned]
      /\ UNCHANGED <<attempt, request, hostLock, crashes>> /\ UNCHANGED transactionVars
      /\ homes \in [Homes -> Home]
  BY DEF Spawn, KeepJournal, UInv, TypeOK
<1>2. Spawned \in Home /\ Spawned.state = "spawned" /\ Spawned.binary = live[1] /\ Spawned.claimed = Pending
  BY SpawnedFacts DEF UInv
<1>3. /\ homes' \in [Homes -> Home] /\ homes'[g] = Spawned
      /\ \A h \in Homes : h # g => homes'[h] = homes[h]
  BY <1>1, <1>2
<1>4. TypeOK'
  BY <1>1, <1>3, DiskFrame DEF UInv, TypeOK
<1>5. LockInv'
  BY <1>1, <1>2, <1>3 DEF UInv, HomeInv, LockInv
<1> QED
  BY <1>1, <1>2, <1>3, <1>4, <1>5 DEF Alive, transactionVars

LEMMA StartInitialKeeps ==
  ASSUME UInv, NEW g \in Generations \ {ByHand}, StartInitial(g) PROVE UInv'
<1>1. /\ g \in Homes /\ g # ByHand /\ homes[g].state = "unborn" /\ Spawn(g) /\ KeepJournal
      /\ ctl' = "booting" /\ Idle /\ ~Pending
  BY DEF StartInitial, NewGeneration, Unused, At, Goto, Homes, UInv, PlaceInv
<1>2. /\ TypeOK' /\ LockInv' /\ child' = g /\ hostLock' = hostLock
      /\ UNCHANGED <<journal, live, task>>
      /\ \A h \in Homes : h # g => homes'[h] = homes[h]
      /\ ~homes'[g].claimed
  BY <1>1, SpawnFacts DEF Places
<1>3. ~Pending'
  BY <1>1, <1>2 DEF Pending
<1>4. StartedInv' /\ ClaimedInv' /\ CandidateInv'
  BY <1>2, <1>3, <1>1
  DEF UInv, HomeInv, StartedInv, ClaimedInv, CandidateInv, ClaimedNow, Started, Alive, Unnamed, InRestart
<1>5. PlaceInv' /\ TaskInv'
  BY <1>1, <1>2, <1>3 DEF PlaceInv, TaskInv, Idle
<1> QED
  BY <1>1, <1>2, <1>4, <1>5, DiskFrame DEF UInv, HomeInv, KeepJournal

LEMMA StartClaimedKeeps == ASSUME UInv, StartClaimed PROVE UInv'
<1>0. PICK g \in Homes : g = journal.generation
  BY DEF StartClaimed, At, UInv, PlaceInv
<1>1. /\ g # ByHand /\ homes[g].state = "named" /\ Spawn(g) /\ KeepJournal
      /\ ctl' = "spawned" /\ Idle /\ InRestart(StartPhases)
  BY <1>0 DEF StartClaimed, At, Goto, UInv, PlaceInv
<1>2. /\ TypeOK' /\ LockInv' /\ child' = g /\ hostLock' = hostLock
      /\ UNCHANGED <<journal, live, task>>
      /\ \A h \in Homes : h # g => homes'[h] = homes[h]
      /\ Alive(g)' /\ homes'[g].binary = live[1]
  BY <1>1, SpawnFacts DEF Places
<1>3. /\ InRestart(ClaimPhases) /\ live[1] = Claimed(1) /\ ~Unnamed
      /\ journal.phase = IF journal.restart \in CandidatePhases THEN "Committed" ELSE "Recovering"
  BY <1>1, OneRelease DEF InRestart, StartPhases, ClaimPhases, CandidatePhases, PreviousPhases
<1>4. StartedInv'
  BY <1>0, <1>1, <1>2, <1>3
  DEF UInv, HomeInv, StartedInv, ClaimedNow, Started, Alive, Unnamed, InRestart, Pending
<1>5. ClaimedInv'
  BY <1>0, <1>1, <1>2, <1>3
  DEF ClaimedInv, ClaimedNow, InRestart, Pending, Claimed, StartPhases
<1>6. CandidateInv'
  BY <1>1, <1>2, <1>3
  DEF UInv, HomeInv, CandidateInv, Started, Alive, Claimed, InRestart, Pending
<1>7. PlaceInv' /\ TaskInv'
  BY <1>1, <1>2 DEF PlaceInv, TaskInv, Idle
<1> QED
  BY <1>1, <1>2, <1>4, <1>5, <1>6, <1>7, DiskFrame DEF UInv, HomeInv, KeepJournal

-----------------------------------------------------------------------------
(* What the controller writes to the journal with nothing in progress. *)

\* A write that keeps the phase and the entries.
LEMMA RestartWriteKeeps ==
  ASSUME UInv, Idle, Pending, KeepDisk, UNCHANGED task,
         journal' \in Journal, journal'.phase = journal.phase, journal'.support = journal.support
  PROVE  /\ DiskTypeOK' /\ TransactionInv' /\ NoForeign' /\ Pending' /\ Idle'
         /\ UNCHANGED live /\ Entries' = Entries /\ TaskInv'
<1>1. /\ UNCHANGED <<live, stage, rollback, supportDir, withSupport, task>> /\ Entries' = Entries
      /\ Pending' /\ Idle'
  BY JournalAssumption DEF KeepDisk, diskVars, Entries, Pending, Idle
<1>2. DiskTypeOK'
  BY <1>1 DEF UInv, TypeOK, DiskTypeOK
<1>3. TransactionInv' /\ NoForeign' /\ TaskInv'
  BY <1>1, <1>2 DEF UInv, TransactionInv, TaskInPhase, LastCopy, NoForeign, InPhase, Pending, Kept, Idle,
                    TaskInv
<1> QED
  BY <1>1, <1>2, <1>3

\* With no Home started under a claim, none is held to anything.
LEMMA NoneHeld ==
  ASSUME UInv, UNCHANGED homes, \A g \in Homes : ~Started(g),
         hostLock' = hostLock \/ (hostLock \in {Nobody, Offline} /\ hostLock' \in {Nobody, Offline}),
         ~InRestart(ClaimPhases)'
  PROVE  HomeInv'
<1>1. \A g \in Homes : ~Started(g)'
  BY DEF Started, Alive
<1>2. LockInv'
  BY HolderFacts DEF UInv, HomeInv, LockInv
<1> QED
  BY <1>1, <1>2 DEF HomeInv, StartedInv, ClaimedInv, CandidateInv, ClaimedNow

LEMMA PrepareRestartKeeps == ASSUME UInv, PrepareRestart PROVE UInv'
<1>0. /\ journal \in Journal /\ Pending /\ Idle /\ journal.phase = "Prepared" /\ journal.restart = "none"
      /\ KeepDisk /\ UNCHANGED <<task, child, request, homes, hostLock, crashes>>
      /\ attempt' = 0 /\ ctl' = "planned"
      /\ journal' = [journal EXCEPT !.restart = "CandidatePending"]
  BY JournalTyped DEF PrepareRestart, At, InPhase, Write, Goto
<1>1. /\ journal' \in Journal /\ journal'.phase = "Prepared" /\ journal'.support = journal.support
      /\ journal'.restart = "CandidatePending"
  BY <1>0, RestartWritten, NoGeneration DEF RestartPhases
<1>2. /\ DiskTypeOK' /\ TransactionInv' /\ NoForeign' /\ Pending' /\ Idle' /\ UNCHANGED live /\ TaskInv'
  BY <1>0, <1>1, RestartWriteKeeps
<1>3. TypeOK'
  BY <1>0, <1>2, AttemptFacts DEF UInv, TypeOK, Places
<1>4. JournalInv'
  BY <1>0, <1>1, <1>2 DEF UInv, JournalInv, CandidatePhases, PreviousPhases
<1>5. PlaceInv'
  BY <1>0, <1>1, <1>2 DEF UInv, PlaceInv, InPhase
<1>6. HomeInv'
  BY <1>0, <1>1, <1>2
  DEF UInv, HomeInv, LockInv, StartedInv, ClaimedInv, CandidateInv, ClaimedNow, Started, Alive, Unnamed,
      InRestart, ClaimPhases, CandidatePhases, PreviousPhases
<1> QED
  BY <1>2, <1>3, <1>4, <1>5, <1>6 DEF UInv

LEMMA AbortPlannedKeeps == ASSUME UInv, AbortPlanned PROVE UInv'
<1>0. /\ journal \in Journal /\ Pending /\ Idle /\ journal.phase = "Prepared"
      /\ journal.restart = "CandidatePending"
      /\ KeepDisk /\ UNCHANGED <<task, child, attempt, request, homes, hostLock, crashes>>
      /\ ctl' = "unplanned" /\ journal' = [journal EXCEPT !.restart = "none"]
  BY JournalTyped DEF AbortPlanned, At, InPhase, Write, Goto, KeepRest, UInv, PlaceInv
<1>1. /\ journal' \in Journal /\ journal'.phase = "Prepared" /\ journal'.support = journal.support
      /\ journal'.restart = "none"
  BY <1>0, RestartWritten, NoGeneration
<1>2. /\ DiskTypeOK' /\ TransactionInv' /\ NoForeign' /\ Pending' /\ Idle' /\ UNCHANGED live /\ TaskInv'
  BY <1>0, <1>1, RestartWriteKeeps
<1>3. TypeOK'
  BY <1>0, <1>2 DEF UInv, TypeOK, Places
<1>4. JournalInv'
  BY <1>0, <1>1, <1>2 DEF UInv, JournalInv, CandidatePhases, PreviousPhases, RestartPhases
<1>5. PlaceInv'
  BY <1>0, <1>1, <1>2 DEF UInv, PlaceInv, InPhase
<1>6. HomeInv'
  BY <1>0, <1>1, <1>2
  DEF UInv, HomeInv, LockInv, StartedInv, ClaimedInv, CandidateInv, ClaimedNow, Started, Alive, Unnamed,
      InRestart, ClaimPhases, CandidatePhases, PreviousPhases
<1> QED
  BY <1>2, <1>3, <1>4, <1>5, <1>6 DEF UInv

\* The receipt of a start: the claim is still for the same Home.
LEMMA RecordStartedKeeps == ASSUME UInv, RecordStarted PROVE UInv'
<1>0. PICK r \in RestartPhases :
        /\ r = RunningPhase
        /\ r = IF journal.restart = "CandidateStartClaimed" THEN "CandidateRunning" ELSE "PreviousRunning"
  BY DEF RunningPhase, RestartPhases, CandidatePhases, PreviousPhases
<1>1. /\ journal \in Journal /\ Pending /\ Idle /\ InRestart(StartPhases)
      /\ KeepDisk /\ UNCHANGED <<task, child, attempt, request, homes, hostLock, crashes>>
      /\ ctl = "spawned" /\ ctl' = "waiting" /\ journal' = [journal EXCEPT !.restart = r]
  BY <1>0, JournalTyped DEF RecordStarted, At, InRestart, Write, Goto, KeepRest, StartPhases
<1>2. /\ journal' \in Journal /\ journal'.phase = journal.phase /\ journal'.support = journal.support
      /\ journal'.restart = r /\ journal'.generation = journal.generation
  BY <1>1, <1>0, RestartWritten, NoGeneration
<1>3. /\ DiskTypeOK' /\ TransactionInv' /\ NoForeign' /\ Pending' /\ Idle' /\ UNCHANGED live /\ TaskInv'
      /\ Entries' = Entries
  BY <1>1, <1>2, RestartWriteKeeps
<1>4. TypeOK'
  BY <1>1, <1>3 DEF UInv, TypeOK, Places
<1>5. /\ InRestart(ClaimPhases) /\ ~Unnamed
      /\ journal.restart \in CandidatePhases <=> r \in CandidatePhases
      /\ r \in ClaimPhases \ {"CandidateReady", "PreviousReady"}
      /\ journal.restart \in PreviousPhases <=> r \in PreviousPhases
  BY <1>1, <1>0, OneRelease DEF InRestart, StartPhases, ClaimPhases, CandidatePhases, PreviousPhases
<1>6. JournalInv'
  BY <1>1, <1>2, <1>3, <1>5
  DEF UInv, JournalInv, AllCandidate, AllOriginal, ClaimPhases, CandidatePhases, PreviousPhases
<1>7. PlaceInv'
  BY <1>1, <1>2, <1>3 DEF UInv, PlaceInv
<1>8. StartedInv'
  BY <1>1, <1>2, <1>3, <1>5 DEF UInv, HomeInv, StartedInv, ClaimedNow, Started, Alive, InRestart
<1>9. ClaimedInv'
  BY <1>1, <1>2, <1>3, <1>5 DEF UInv, HomeInv, ClaimedInv, ClaimedNow, Alive, InRestart, Claimed
<1>10. LockInv' /\ CandidateInv'
  BY <1>1, <1>2, <1>3 DEF UInv, HomeInv, LockInv, CandidateInv, Started, Alive
<1> QED
  BY <1>3, <1>4, <1>6, <1>7, <1>8, <1>9, <1>10 DEF UInv, HomeInv

\* The receipt of readiness: the Home that is named holds the host lock.
LEMMA RecordReadyKeeps == ASSUME UInv, RecordReady PROVE UInv'
<1>0. PICK r \in RestartPhases :
        /\ r = ReadyPhase
        /\ r = IF journal.restart = "CandidateRunning" THEN "CandidateReady" ELSE "PreviousReady"
  BY DEF ReadyPhase, RestartPhases, CandidatePhases, PreviousPhases
<1>1. /\ journal \in Journal /\ Pending /\ Idle /\ InRestart({"CandidateRunning", "PreviousRunning"})
      /\ KeepDisk /\ UNCHANGED <<task, ctl, child, attempt, request, homes, hostLock, crashes>>
      /\ ctl = "ready" /\ journal' = [journal EXCEPT !.restart = r] /\ journal.generation = child
  BY <1>0, JournalTyped DEF RecordReady, At, InRestart, Write, KeepRest
<1>2. /\ journal' \in Journal /\ journal'.phase = journal.phase /\ journal'.support = journal.support
      /\ journal'.restart = r /\ journal'.generation = journal.generation
  BY <1>1, <1>0, RestartWritten, NoGeneration
<1>3. /\ DiskTypeOK' /\ TransactionInv' /\ NoForeign' /\ Pending' /\ Idle' /\ UNCHANGED live /\ TaskInv'
      /\ Entries' = Entries
  BY <1>1, <1>2, RestartWriteKeeps
<1>4. TypeOK'
  BY <1>1, <1>3 DEF UInv, TypeOK, Places
<1>5. /\ InRestart(ClaimPhases) /\ ~Unnamed
      /\ journal.restart \in CandidatePhases <=> r \in CandidatePhases
      /\ r \in ClaimPhases
      /\ journal.restart \in PreviousPhases <=> r \in PreviousPhases
  BY <1>1, <1>0, OneRelease DEF InRestart, ClaimPhases, CandidatePhases, PreviousPhases
<1>6. JournalInv'
  BY <1>1, <1>2, <1>3, <1>5
  DEF UInv, JournalInv, AllCandidate, AllOriginal, ClaimPhases, CandidatePhases, PreviousPhases
<1>7. PlaceInv'
  BY <1>1, <1>2, <1>3 DEF UInv, PlaceInv, Alive
<1>8. StartedInv'
  BY <1>1, <1>2, <1>3, <1>5 DEF UInv, HomeInv, StartedInv, ClaimedNow, Started, Alive, InRestart
<1>9. ClaimedInv'
  BY <1>1, <1>2, <1>3, <1>5 DEF UInv, HomeInv, PlaceInv, ClaimedInv, ClaimedNow, Alive, InRestart, Claimed
<1>10. LockInv' /\ CandidateInv'
  BY <1>1, <1>2, <1>3 DEF UInv, HomeInv, LockInv, CandidateInv, Started, Alive
<1> QED
  BY <1>3, <1>4, <1>6, <1>7, <1>8, <1>9, <1>10 DEF UInv, HomeInv

\* A claim names a generation no Home has had, while no other Home is claimed.
LEMMA ClaimKeeps ==
  ASSUME UInv, Idle, Pending, NEW g \in Generations \ {ByHand}, NEW phase \in StartPhases, Claim(g, phase),
         \A h \in Homes : ~Started(h), ctl' = "claimed",
         phase = "CandidateStartClaimed" => journal.phase = "Committed",
         phase = "PreviousStartClaimed" => journal.phase = "Recovering" /\ AllOriginal,
         hostLock' = hostLock \/ (hostLock = Offline /\ hostLock' = Nobody),
         UNCHANGED <<child, attempt, request, crashes>>
  PROVE  UInv'
<1>0. /\ journal \in Journal /\ homes \in [Homes -> Home] /\ g \in Homes /\ g # ByHand
      /\ homes[g].state = "unborn" /\ KeepDisk /\ UNCHANGED task
      /\ journal' = [journal EXCEPT !.restart = phase, !.generation = g]
      /\ homes' = [homes EXCEPT ![g].state = "named"]
      /\ phase \in RestartPhases
  BY JournalTyped DEF Claim, NewGeneration, Unused, HomeDoes, Write, Homes, UInv, TypeOK, StartPhases,
                      RestartPhases, CandidatePhases, PreviousPhases
<1>1. /\ journal' \in Journal /\ journal'.phase = journal.phase /\ journal'.support = journal.support
      /\ journal'.restart = phase /\ journal'.generation = g
  BY <1>0 DEF Homes, Journal
<1>2. /\ homes' \in [Homes -> Home]
      /\ \A h \in Homes : homes'[h].state = IF h = g THEN "named" ELSE homes[h].state
      /\ \A h \in Homes : homes'[h].claimed = homes[h].claimed
  BY <1>0, HomeFacts
<1>3. /\ DiskTypeOK' /\ TransactionInv' /\ NoForeign' /\ Pending' /\ Idle' /\ UNCHANGED live /\ TaskInv'
      /\ Entries' = Entries
  BY <1>0, <1>1, RestartWriteKeeps
<1>4. TypeOK'
  BY <1>2, <1>3, HolderFacts DEF UInv, TypeOK, Places
<1>5. JournalInv'
  BY <1>1, <1>3
  DEF UInv, JournalInv, AllCandidate, AllOriginal, StartPhases, CandidatePhases, PreviousPhases
<1>6. PlaceInv'
  BY <1>0, <1>1, <1>2, <1>3 DEF UInv, PlaceInv, InRestart
<1>7. LockInv'
  BY <1>0, <1>2, HolderFacts DEF UInv, HomeInv, LockInv
<1>8. \A h \in Homes : ~Started(h)' /\ (ClaimedNow(h)' => ~Alive(h)')
  BY <1>1, <1>2 DEF Started, Alive, ClaimedNow
<1>9. StartedInv' /\ ClaimedInv' /\ CandidateInv'
  BY <1>8 DEF StartedInv, ClaimedInv, CandidateInv
<1> QED
  BY <1>3, <1>4, <1>5, <1>6, <1>7, <1>9 DEF UInv, HomeInv

LEMMA ClaimsKeep ==
  ASSUME UInv, NEW g \in Generations \ {ByHand}, ClaimCandidate(g) \/ ClaimPrevious(g) PROVE UInv'
<1>1. CASE ClaimCandidate(g)
  <2>1. /\ Idle /\ Pending /\ journal.phase = "Committed" /\ journal.restart = "CandidatePending"
        /\ hostLock = Offline /\ hostLock' = Nobody
    BY <1>1, HolderFacts
    DEF ClaimCandidate, At, InPhase, InRestart, GoOnline, Released, UInv, PlaceInv
  <2>2. \A h \in Homes : ~Started(h)
    BY <2>1, NoneStarted, HolderFacts DEF InRestart, ClaimPhases, CandidatePhases, PreviousPhases
  <2> QED
    BY <1>1, <2>1, <2>2, ClaimKeeps DEF ClaimCandidate, StartPhases, Goto
<1>2. CASE ClaimPrevious(g)
  <2>1. /\ Idle /\ Pending /\ journal.phase = "Recovering" /\ journal.restart = "Restored" /\ AllOriginal
    BY <1>2 DEF ClaimPrevious, At, InRestart, UInv, JournalInv
  <2>2. \A h \in Homes : ~Started(h)
    BY <2>1, NoneStarted DEF InRestart, ClaimPhases, CandidatePhases, PreviousPhases, Unnamed
  <2> QED
    BY <1>2, <2>1, <2>2, ClaimKeeps DEF ClaimPrevious, StartPhases, Goto
<1> QED
  BY <1>1, <1>2

\* A previous Home that is gone is retired.
LEMMA RetireKeeps ==
  ASSUME UInv, Idle, Retire, \A h \in Homes : ~Started(h), ctl' \in {"down", "restored"},
         attempt' \in 0 .. MaxAttempts, UNCHANGED <<child, request, homes, hostLock, crashes>>
  PROVE  UInv'
<1>0. /\ journal \in Journal /\ Pending /\ journal.phase = "Recovering" /\ journal.restart # "none"
      /\ KeepDisk /\ UNCHANGED task /\ AllOriginal /\ journal' = Restarting("Restored")
  BY JournalTyped DEF Retire, InPhase, InRestart, Write
<1>1. /\ journal' \in Journal /\ journal'.phase = "Recovering" /\ journal'.support = journal.support
      /\ journal'.restart = "Restored"
  BY <1>0, RestartingWritten DEF RestartPhases
<1>2. /\ DiskTypeOK' /\ TransactionInv' /\ NoForeign' /\ Pending' /\ Idle' /\ UNCHANGED live /\ TaskInv'
      /\ Entries' = Entries
  BY <1>0, <1>1, RestartWriteKeeps
<1>3. TypeOK'
  BY <1>2 DEF UInv, TypeOK, Places
<1>4. JournalInv'
  BY <1>0, <1>1, <1>2 DEF JournalInv, AllOriginal, CandidatePhases
<1>5. PlaceInv'
  BY <1>1, <1>2 DEF UInv, PlaceInv
<1>6. HomeInv'
  BY <1>1, NoneHeld DEF InRestart, ClaimPhases, CandidatePhases, PreviousPhases
<1> QED
  BY <1>2, <1>3, <1>4, <1>5, <1>6 DEF UInv

LEMMA RetiresKeep == ASSUME UInv, ReconcileFailedStart \/ TryAgain \/ GiveUp PROVE UInv'
<1>0. hostLock = Nobody => hostLock \notin Homes
  BY HolderFacts
<1>1. CASE ReconcileFailedStart
  <2>1. InRestart(ClaimPhases) => ~Alive(journal.generation)
    BY <1>1 DEF ReconcileFailedStart, Reconcilable, ReceiptPhases, Quiet
  <2>2. \A h \in Homes : ~Started(h)
    BY <1>0, <1>1, <2>1, NoneStarted DEF ReconcileFailedStart, Reconcilable
  <2> QED
    BY <1>1, <2>2, RetireKeeps, AttemptFacts DEF ReconcileFailedStart, At, Goto
<1>2. ASSUME At("retrying"), hostLock = Nobody PROVE \A h \in Homes : ~Started(h)
  <2>1. InRestart(ClaimPhases) => ~Alive(journal.generation) \/ journal.generation = ByHand
    BY <1>2, HolderFacts
    DEF At, UInv, PlaceInv, HomeInv, ClaimedInv, LockInv, ClaimedNow, InRestart, Alive
  <2> QED
    BY <1>0, <1>2, <2>1, NoneStarted
<1>3. CASE TryAgain
  <2>1. attempt' \in 0 .. MaxAttempts
    BY <1>3, ControllerAssumption DEF TryAgain, LastAttempt, UInv, TypeOK
  <2> QED
    BY <1>2, <1>3, <2>1, RetireKeeps DEF TryAgain, At, Goto
<1>4. CASE GiveUp
  <2>1. attempt \in 0 .. MaxAttempts
    BY DEF UInv, TypeOK
  <2>2. CASE InRestart({"PreviousStartClaimed"}) /\ hostLock = Nobody
    BY <1>2, <1>4, <2>1, <2>2, RetireKeeps DEF GiveUp, At, Goto, KeepRest
  <2>3. CASE ~(InRestart({"PreviousStartClaimed"}) /\ hostLock = Nobody)
    BY <1>4, <2>3, MovesKeep DEF GiveUp
  <2> QED
    BY <2>2, <2>3
<1> QED
  BY <1>1, <1>3, <1>4

-----------------------------------------------------------------------------
(* What the controller begins. *)

\* A recovery leaves all to its owner, begins to clean up, or begins to restore.
LEMMA RecoveryOutcomes ==
  ASSUME UInv, NEW b \in BOOLEAN, BeginRecovery(b)
  PROVE  \/ task' = "idle" /\ UNCHANGED journal
         \/ /\ Pending /\ task' = "cleaning" /\ UNCHANGED journal
            /\ journal.restart = "none"
         \/ /\ Pending /\ task' = "restoring" /\ journal.phase # "Staging"
            /\ journal' \in Journal /\ journal'.phase = "Recovering" /\ journal'.support = journal.support
            /\ journal'.restart = IF journal.restart = "none" THEN "none" ELSE "Restoring"
            /\ b \/ journal.restart = "none"
<1>1. CASE ~Pending \/ ~Recoverable(b)
  BY <1>1 DEF BeginRecovery
<1>2. CASE Pending /\ Recoverable(b) /\ (journal.phase = "Staging" \/ KeepsCommitted(b))
  BY <1>2 DEF BeginRecovery, KeepsCommitted, Recoverable, OwnedHere, UInv, JournalInv
<1>3. CASE Pending /\ Recoverable(b) /\ ~(journal.phase = "Staging" \/ KeepsCommitted(b))
  <2>1. "Restoring" \in RestartPhases
    BY DEF RestartPhases
  <2> QED
    BY <1>3, <2>1, JournalTyped, RestartingWritten
    DEF BeginRecovery, BeginRestore, Write, Recoverable, OwnedHere
<1> QED
  BY <1>1, <1>2, <1>3

\* What each place may begin to recover, and with which hold of the lock.
RecoveryPlace(b) ==
    \/ ctl' \in {"discarding", "rescuing", "aborting"} /\ ~b
    \/ ctl' \in {"restoring", "committing"} /\ hostLock' = Offline /\ Pending /\ journal.restart # "none"
    \/ ctl' = "preparing" /\ InPhase({"Staging"})

LEMMA RecoveryKeeps ==
  ASSUME UInv, NEW b \in BOOLEAN, BeginRecovery(b), RecoveryPlace(b),
         UNCHANGED <<child, homes>>,
         attempt' \in 0 .. MaxAttempts, request' \in BOOLEAN, crashes' \in 0 .. MaxCrashes,
         hostLock' = hostLock \/ (hostLock = Nobody /\ hostLock' = Offline),
         \/ (\A h \in Homes : ~Started(h)) /\ hostLock' = Offline
         \/ Pending => InPhase({"Staging", "Prepared"}) /\ journal.restart = "none",
         ctl \in {"down", "reconciling"} => ~InRestart(ClaimPhases) \/ ~Alive(journal.generation)
  PROVE  UInv'
<1>0. TransactionInv' /\ UNCHANGED <<live, withSupport>>
  BY BeginRecoveryKeeps DEF UInv, BeginRecovery, KeepDisk, diskVars
<1>1. TypeOK'
  BY <1>0, HolderFacts DEF UInv, TypeOK, TransactionInv, RecoveryPlace, Places
<1>2. NoForeign'
  BY <1>0 DEF UInv, NoForeign
<1>3. LockInv'
  BY HolderFacts DEF UInv, HomeInv, LockInv
<1>4. PlaceInv'
  <2>1. InPhase({"Staging"}) => UNCHANGED journal /\ journal.restart = "none"
    BY RecoveryOutcomes DEF InPhase, UInv, JournalInv
  <2> QED
    BY <2>1 DEF UInv, PlaceInv, RecoveryPlace, InPhase, Pending
<1>5. \A g \in Homes : (Started(g)' = Started(g)) /\ (Alive(g)' = Alive(g))
  BY DEF Started, Alive
<1>6. ASSUME UNCHANGED journal PROVE HomeInv' /\ JournalInv'
  <2>1. HomeInv'
    BY <1>0, <1>3, <1>5, <1>6, HolderFacts
    DEF UInv, HomeInv, StartedInv, ClaimedInv, CandidateInv, ClaimedNow, Unnamed, InRestart, Pending, Claimed,
        Alive
  <2>2. JournalInv'
    BY <1>0, <1>6 DEF UInv, JournalInv, Pending, AllCandidate, AllOriginal, Entries
  <2> QED
    BY <2>1, <2>2
<1>7. CASE task' = "idle" /\ UNCHANGED journal
  <2>1. TaskInv'
    BY <1>7 DEF TaskInv
  <2>2. PlaceInv'
    BY <1>7, <1>4
  <2> QED
    BY <1>0, <1>1, <1>2, <1>4, <1>6, <1>7, <2>1 DEF UInv
<1>8. CASE Pending /\ task' = "cleaning" /\ UNCHANGED journal /\ journal.restart = "none"
  <2>1. TaskInv'
    BY <1>8 DEF TaskInv, Pending, RecoveryPlace
  <2> QED
    BY <1>0, <1>1, <1>2, <1>4, <1>6, <1>8, <2>1 DEF UInv
<1>9. CASE /\ Pending /\ task' = "restoring" /\ journal.phase # "Staging"
           /\ journal' \in Journal /\ journal'.phase = "Recovering" /\ journal'.support = journal.support
           /\ journal'.restart = IF journal.restart = "none" THEN "none" ELSE "Restoring"
           /\ b \/ journal.restart = "none"
  <2>1. Pending' /\ Entries' = Entries
    BY <1>9, JournalAssumption DEF Pending, Entries
  <2>2. JournalInv'
    BY <1>9, <2>1 DEF JournalInv, CandidatePhases, PreviousPhases
  <2>3. hostLock' = Offline \/ AllOriginal'
    BY <1>0, <1>9, <2>1, EntryFacts DEF InPhase, UInv, JournalInv, AllOriginal
  <2>4. TaskInv'
    BY <1>9, <2>1, <2>3 DEF TaskInv, RecoveryPlace, InPhase
  <2>5. ~InRestart(ClaimPhases)'
    BY <1>9 DEF InRestart, ClaimPhases, CandidatePhases, PreviousPhases
  <2>6. HomeInv'
    <3>1. CASE (\A h \in Homes : ~Started(h)) /\ hostLock' = Offline
      BY <1>3, <1>5, <2>5, <3>1 DEF HomeInv, StartedInv, ClaimedInv, CandidateInv, ClaimedNow
    <3>2. CASE InPhase({"Staging", "Prepared"}) /\ journal.restart = "none"
      BY <1>0, <1>3, <1>5, <1>9, <2>1, <2>5, <3>2, HolderFacts
      DEF UInv, HomeInv, StartedInv, ClaimedInv, CandidateInv, ClaimedNow, InRestart, InPhase, Unnamed,
          ClaimPhases, CandidatePhases, PreviousPhases, Started
    <3> QED
      BY <1>9, <3>1, <3>2
  <2> QED
    BY <1>0, <1>1, <1>2, <1>4, <2>2, <2>4, <2>6 DEF UInv
<1> QED
  BY <1>7, <1>8, <1>9, RecoveryOutcomes

LEMMA RecoveriesKeep ==
  ASSUME UInv,
         \/ ReconcileUnplanned \/ ReconcileCandidate \/ Rescue \/ AbortPreparing \/ FinishAbort
         \/ RestorePrevious
  PROVE  UInv'
<1>0. /\ attempt \in 0 .. MaxAttempts /\ request \in BOOLEAN /\ crashes \in 0 .. MaxCrashes
      /\ 1 \in 0 .. MaxAttempts
      /\ hostLock = Nobody => hostLock \notin Homes
      /\ journal.restart = "none" => ~InRestart(ClaimPhases)
  BY AttemptFacts, HolderFacts
  DEF UInv, TypeOK, InRestart, ClaimPhases, CandidatePhases, PreviousPhases
<1>1. CASE ReconcileUnplanned
  <2>1. /\ BeginRecovery(FALSE) /\ RecoveryPlace(FALSE)
        /\ InPhase({"Staging", "Prepared"}) /\ journal.restart = "none"
        /\ hostLock = Nobody /\ hostLock' = Offline
        /\ UNCHANGED <<child, attempt, request, homes, crashes>>
    BY <1>1 DEF ReconcileUnplanned, Recover, RecoveryPlace, Goto, GoOffline
  <2> QED
    BY <1>0, <2>1, RecoveryKeeps
<1>2. CASE Rescue
  <2>1. /\ BeginRecovery(FALSE) /\ RecoveryPlace(FALSE) /\ journal.restart = "none"
        /\ hostLock = Nobody /\ hostLock' = Offline
        /\ UNCHANGED <<child, attempt, request, homes, crashes>>
    BY <1>2 DEF Rescue, Recover, RecoveryPlace, Goto, GoOffline
  <2>2. \A h \in Homes : ~Started(h)
    BY <1>0, <2>1, NoneStarted
  <2> QED
    BY <1>0, <2>1, <2>2, RecoveryKeeps
<1>3. CASE AbortPreparing \/ FinishAbort
  <2>1. /\ BeginRecovery(FALSE) /\ RecoveryPlace(FALSE)
        /\ Pending => InPhase({"Staging", "Prepared"}) /\ journal.restart = "none"
        /\ ctl \notin {"down", "reconciling"}
        /\ UNCHANGED <<child, attempt, request, homes, crashes, hostLock>>
    BY <1>3
    DEF AbortPreparing, FinishAbort, At, Recover, RecoveryPlace, Goto, KeepRest, UInv, PlaceInv, InPhase
  <2> QED
    BY <1>0, <2>1, RecoveryKeeps
<1>4. CASE ReconcileCandidate
  <2>1. /\ BeginRecovery(TRUE) /\ RecoveryPlace(TRUE) /\ hostLock = Nobody /\ hostLock' = Offline
        /\ attempt' = 1 /\ UNCHANGED <<child, request, homes, crashes>>
        /\ InRestart(ClaimPhases) => ~Alive(journal.generation)
    BY <1>4
    DEF ReconcileCandidate, At, RecoveryPlace, Goto, GoOffline, Reconcilable, MayRestore, InRestart, Quiet,
        ReceiptPhases, ClaimPhases, CandidatePhases, PreviousPhases
  <2>2. \A h \in Homes : ~Started(h)
    BY <1>0, <2>1, NoneStarted
  <2> QED
    BY <1>0, <2>1, <2>2, RecoveryKeeps
<1>5. CASE RestorePrevious
  <2>1. /\ BeginRecovery(TRUE) /\ RecoveryPlace(TRUE) /\ hostLock = Nobody /\ hostLock' = Offline
        /\ UNCHANGED <<child, attempt, request, homes, crashes>>
        /\ ctl = "failed" /\ child = Nobody
    BY <1>5 DEF RestorePrevious, At, RecoveryPlace, Goto, GoOffline, MayRestore, InRestart
  <2>2. InRestart(ClaimPhases) => ~Alive(journal.generation) \/ journal.generation = ByHand
    BY <2>1, HolderFacts DEF UInv, HomeInv, ClaimedInv, ClaimedNow, Alive
  <2>3. \A h \in Homes : ~Started(h)
    BY <1>0, <2>1, <2>2, NoneStarted
  <2> QED
    BY <1>0, <2>1, <2>3, RecoveryKeeps
<1> QED
  BY <1>1, <1>2, <1>3, <1>4, <1>5

LEMMA TakeRequestKeeps == ASSUME UInv, TakeRequest PROVE UInv'
<1>0. /\ Prepare /\ ~Pending /\ request' = TRUE /\ ctl' = "preparing" /\ task' = "staging"
      /\ UNCHANGED <<live, child, attempt, homes, hostLock, crashes>>
      /\ \A i \in Items : live[i] = Original(i)
      /\ ctl = "home"
  BY DEF TakeRequest, At, Goto, Prepare, Preparable, diskVars
<1>1. journal' \in Journal /\ journal'.phase = "Staging" /\ journal'.restart = "none"
  BY <1>0, FirstJournal DEF Prepare, Write
<1>2. TransactionInv'
  BY <1>0, PrepareKeeps DEF UInv
<1>3. TypeOK' /\ NoForeign'
  BY <1>0, <1>2 DEF UInv, TypeOK, TransactionInv, Places, NoForeign
<1>4. JournalInv' /\ PlaceInv' /\ TaskInv'
  BY <1>0, <1>1, JournalAssumption
  DEF UInv, JournalInv, PlaceInv, TaskInv, Pending, CandidatePhases, PreviousPhases, RestartPhases
<1>5. live[1] = Original(1)
  BY <1>0, FilesAssumption, ItemFacts DEF Files
<1>6. HomeInv'
  BY <1>0, <1>1, <1>5
  DEF UInv, HomeInv, LockInv, StartedInv, ClaimedInv, CandidateInv, ClaimedNow, Started, Alive, Unnamed,
      InRestart, ClaimPhases, CandidatePhases, PreviousPhases
<1> QED
  BY <1>2, <1>3, <1>4, <1>6 DEF UInv

\* What is staged or committed further on is the controller's own business.
LEMMA PhaseKeeps ==
  ASSUME UInv, journal \in Journal, TransactionInv', KeepDisk, UNCHANGED <<child, homes, hostLock>>,
         attempt' \in 0 .. MaxAttempts, request' \in BOOLEAN, crashes' \in 0 .. MaxCrashes,
         ctl' \in Places, journal' \in Journal, journal'.restart = journal.restart,
         ~InRestart(ClaimPhases),
         ctl \notin {"down", "reconciling"},
         journal.restart = "none" => InPhase({"Staging", "Prepared"}),
         journal.restart # "none" => (\A h \in Homes : ~Started(h)),
         JournalInv', PlaceInv', TaskInv'
  PROVE  UInv'
<1>1. UNCHANGED live /\ Pending /\ Pending'
  BY JournalAssumption DEF KeepDisk, diskVars, Pending
<1>2. TypeOK' /\ NoForeign'
  BY <1>1 DEF UInv, TypeOK, TransactionInv, NoForeign
<1>3. ~InRestart(ClaimPhases)'
  BY <1>1 DEF InRestart
<1>4. HomeInv'
  <2>1. CASE journal.restart # "none"
    BY <1>3, <2>1, NoneHeld
  <2>2. CASE journal.restart = "none"
    BY <1>1, <1>3, <2>2
    DEF UInv, HomeInv, LockInv, StartedInv, ClaimedInv, CandidateInv, ClaimedNow, Started, Alive, Unnamed,
        InRestart, InPhase
  <2> QED
    BY <2>1, <2>2
<1> QED
  BY <1>2, <1>4 DEF UInv

LEMMA StageSupportKeeps == ASSUME UInv, StageSupport PROVE UInv'
<1>0. /\ PrepareSupport /\ journal \in Journal /\ KeepDisk /\ task' = "staging" /\ ctl = "preparing"
      /\ ctl' = "preparing" /\ UNCHANGED <<child, attempt, request, homes, hostLock, crashes>>
      /\ journal.phase = "Prepared" /\ journal.restart = "none" /\ InPhase({"Prepared"})
      /\ journal' = [journal EXCEPT !.phase = "Staging", !.support = TRUE]
  BY JournalTyped DEF StageSupport, At, Goto, KeepRest, PrepareSupport, InPhase, Write
<1>1. journal' \in Journal /\ journal'.phase = "Staging" /\ journal'.restart = "none"
  <2>1. journal' \in Journal
    BY <1>0, JournalFacts
  <2>2. journal'.phase = "Staging" /\ journal'.restart = journal.restart
    BY <1>0 DEF Journal
  <2> QED
    BY <1>0, <2>1, <2>2
<1>2. TransactionInv' /\ UNCHANGED live
  BY <1>0, PrepareSupportKeeps DEF UInv, KeepDisk, diskVars
<1>3. JournalInv'
  BY <1>0, <1>1, <1>2
  DEF UInv, JournalInv, InPhase, CandidatePhases, PreviousPhases, RestartPhases
<1>4. PlaceInv' /\ TaskInv'
  BY <1>0, <1>1, JournalAssumption DEF UInv, PlaceInv, TaskInv, Pending
<1>5. ~InRestart(ClaimPhases) /\ InPhase({"Staging", "Prepared"})
  BY <1>0 DEF InRestart, InPhase, ClaimPhases, CandidatePhases, PreviousPhases
<1> QED
  BY <1>0, <1>1, <1>2, <1>3, <1>4, <1>5, PhaseKeeps DEF UInv, TypeOK

LEMMA InstallKeeps == ASSUME UInv, Install PROVE UInv'
<1>0. /\ Commit /\ journal \in Journal /\ KeepDisk /\ task' = "committing" /\ ctl = "offline"
      /\ ctl' = "committing" /\ UNCHANGED <<child, attempt, request, homes, hostLock, crashes>>
      /\ journal.phase = "Prepared" /\ journal.restart = "CandidatePending" /\ hostLock = Offline
      /\ journal' = [journal EXCEPT !.phase = "Committing"]
  BY JournalTyped DEF Install, At, Goto, KeepRest, Commit, InPhase, Write, UInv, PlaceInv
<1>1. journal' \in Journal /\ journal'.phase = "Committing" /\ journal'.restart = "CandidatePending"
  BY <1>0, JournalFacts
<1>2. TransactionInv'
  BY <1>0, CommitKeeps DEF UInv
<1>3. JournalInv' /\ PlaceInv' /\ TaskInv'
  BY <1>0, <1>1, JournalAssumption
  DEF UInv, JournalInv, PlaceInv, TaskInv, Pending, CandidatePhases, PreviousPhases
<1>4. ~InRestart(ClaimPhases) /\ \A h \in Homes : ~Started(h)
  BY <1>0, NoneStarted, HolderFacts DEF InRestart, ClaimPhases, CandidatePhases, PreviousPhases
<1>5. ctl' \in Places
  BY <1>0 DEF Places
<1> QED
  BY <1>0, <1>1, <1>2, <1>3, <1>4, <1>5, PhaseKeeps DEF UInv, TypeOK

-----------------------------------------------------------------------------
(* What is in progress. *)

LEMMA TaskFrame ==
  ASSUME UInv, UNCHANGED controllerVars, TransactionInv', NoForeign', JournalInv', PlaceInv', TaskInv', HomeInv'
  PROVE  UInv'
<1>1. TypeOK'
  BY DEF UInv, TypeOK, TransactionInv, controllerVars
<1> QED
  BY <1>1 DEF UInv

\* While items are moved in, and while they are moved back, no Home is started.
LEMMA NoneMeanwhile ==
  ASSUME UInv,
         \/ task = "committing"
         \/ task = "failing" /\ ctl = "committing"
         \/ task = "restoring" /\ (hostLock = Offline \/ journal.restart # "none")
  PROVE  /\ \A h \in Homes : ~Started(h)
         /\ ~InRestart(ClaimPhases)
<1>1. ~InRestart(ClaimPhases)
  BY DEF UInv, TaskInv, InRestart, ClaimPhases, CandidatePhases, PreviousPhases
<1>2. hostLock \notin Homes \/ ~Unnamed
  BY HolderFacts DEF UInv, TaskInv, PlaceInv, Unnamed
<1> QED
  BY <1>1, <1>2, NoneStarted

\* A step that leaves the items and the journal alone.
LEMMA ScratchStepKeeps ==
  ASSUME UInv, UNCHANGED controllerVars, TransactionInv', UNCHANGED <<journal, live, task>>
  PROVE  UInv'
<1>0. UNCHANGED <<ctl, child, homes, hostLock>>
  BY DEF controllerVars
<1>1. NoForeign' /\ JournalInv' /\ TaskInv' /\ PlaceInv'
  BY <1>0 DEF UInv, NoForeign, JournalInv, TaskInv, PlaceInv, Pending, AllOriginal, AllCandidate, Entries,
              InPhase, InRestart, Idle, Alive
<1>2. HomeInv'
  BY <1>0, HomeFrame
<1> QED
  BY <1>1, <1>2, TaskFrame

LEMMA StagingDoneKeepsAll == ASSUME UInv, StagingDone, UNCHANGED controllerVars PROVE UInv'
<1>0. /\ journal \in Journal /\ journal.phase = "Staging" /\ journal.restart = "none" /\ ctl = "preparing"
      /\ UNCHANGED <<live, ctl, child, homes, hostLock>> /\ task' = "idle" /\ Pending
      /\ journal' = [journal EXCEPT !.phase = "Prepared"]
  BY JournalTyped
  DEF StagingDone, UInv, TaskInv, JournalInv, controllerVars, KeepDisk, diskVars, Write
<1>1. /\ journal' \in Journal /\ journal'.phase = "Prepared" /\ journal'.restart = "none" /\ Pending'
  BY <1>0, JournalFacts, JournalAssumption DEF Pending
<1>2. TransactionInv' /\ NoForeign'
  BY <1>0, StagingDoneKeeps DEF UInv, NoForeign
<1>3. JournalInv' /\ PlaceInv' /\ TaskInv'
  BY <1>0, <1>1
  DEF UInv, JournalInv, PlaceInv, TaskInv, CandidatePhases, PreviousPhases, RestartPhases
<1>4. HomeInv'
  BY <1>0, <1>1
  DEF UInv, HomeInv, LockInv, StartedInv, ClaimedInv, CandidateInv, ClaimedNow, Started, Alive, Unnamed,
      InRestart, ClaimPhases, CandidatePhases, PreviousPhases
<1> QED
  BY <1>2, <1>3, <1>4, TaskFrame

\* Items change only where no promise is made about them.
LEMMA MoveStepKeeps ==
  ASSUME UInv, UNCHANGED controllerVars, TransactionInv', UNCHANGED <<journal, task>>,
         \A h \in Homes : ~Started(h), ~InRestart(ClaimPhases),
         InPhase({"Committing", "Recovering"}), journal.restart \in {"none", "CandidatePending", "Restoring"},
         \A i \in Items : live'[i] \in {live[i], Original(i), Candidate(i), "torn", "none"},
         task = "restoring" => hostLock = Offline
  PROVE  UInv'
<1>0. UNCHANGED <<ctl, child, homes, hostLock>>
  BY DEF controllerVars
<1>1. NoForeign'
  BY ContentFacts DEF UInv, NoForeign
<1>2. JournalInv'
  BY DEF UInv, JournalInv, InPhase, CandidatePhases, PreviousPhases, Pending
<1>3. PlaceInv'
  BY <1>0 DEF UInv, PlaceInv, InPhase, InRestart, Pending, Idle, Alive
<1>4. TaskInv'
  BY <1>0 DEF UInv, TaskInv, Pending
<1>5. HomeInv'
  BY <1>0, NoneHeld DEF InRestart, Pending
<1> QED
  BY <1>1, <1>2, <1>3, <1>4, <1>5, TaskFrame

LEMMA CommitItemKeepsAll ==
  ASSUME UInv, NEW i \in Items, CommitItem(i), UNCHANGED controllerVars PROVE UInv'
<1>1. /\ task = "committing" /\ TransactionInv' /\ UNCHANGED <<journal, task>>
      /\ InPhase({"Committing"}) /\ journal.restart = "CandidatePending"
  BY CommitItemKeeps DEF UInv, TaskInv, InPhase, CommitItem, MoveIn, RemoveLiveSupport
<1>2. \A k \in Items : live'[k] \in {live[k], Candidate(k), "torn", "none"}
  BY RemovedFacts, ItemFacts DEF CommitItem, MoveIn, RemoveLiveSupport, UInv, TypeOK, DiskTypeOK
<1> QED
  BY <1>1, <1>2, NoneMeanwhile, MoveStepKeeps DEF InPhase

LEMMA RestoreItemKeepsAll ==
  ASSUME UInv, NEW i \in Items, RestoreItem(i), UNCHANGED controllerVars PROVE UInv'
<1>1. /\ task = "restoring" /\ TransactionInv' /\ UNCHANGED <<journal, task>>
      /\ InPhase({"Recovering"}) /\ journal.restart \in {"none", "Restoring"}
  BY RestoreItemKeeps DEF UInv, NoForeign, TaskInv, InPhase, RestoreItem, MoveBack, RemoveLiveSupport
<1>2. hostLock = Offline
  BY DEF UInv, TaskInv, RestoreItem, AllOriginal
<1>3. \A k \in Items : live'[k] \in {live[k], Original(k), "torn", "none"}
  BY RemovedFacts, ItemFacts DEF RestoreItem, MoveBack, RemoveLiveSupport, UInv, TypeOK, DiskTypeOK
<1> QED
  BY <1>1, <1>2, <1>3, NoneMeanwhile, MoveStepKeeps DEF InPhase

\* The last write of a commit, by CommitDone or by a Fault after the rename.
LEMMA CommittedKeepsAll ==
  ASSUME UInv, task = "committing", AllCandidate, UNCHANGED controllerVars, KeepDisk, TransactionInv',
         Write([journal EXCEPT !.phase = "Committed"]), task' \in {"idle", "failing"}
  PROVE  UInv'
<1>0. /\ journal \in Journal /\ journal.restart = "CandidatePending" /\ ctl = "committing" /\ Pending
      /\ UNCHANGED <<live, ctl, child, homes, hostLock>>
      /\ journal' = [journal EXCEPT !.phase = "Committed"]
  BY JournalTyped DEF UInv, TaskInv, controllerVars, KeepDisk, diskVars, Write
<1>1. /\ journal' \in Journal /\ journal'.phase = "Committed" /\ journal'.restart = "CandidatePending"
      /\ journal'.support = journal.support /\ Pending' /\ Entries' = Entries
  <2>1. /\ journal' \in Journal /\ journal'.phase = "Committed"
        /\ journal'.restart = journal.restart /\ journal'.support = journal.support
    BY <1>0, JournalFacts
  <2> QED
    BY <1>0, <2>1, JournalAssumption DEF Pending, Entries
<1>2. NoForeign' /\ JournalInv' /\ PlaceInv' /\ TaskInv'
  BY <1>0, <1>1
  DEF UInv, NoForeign, JournalInv, PlaceInv, TaskInv, AllCandidate, CandidatePhases, PreviousPhases
<1>3. HomeInv'
  BY <1>0, <1>1, NoneMeanwhile, NoneHeld DEF InRestart, ClaimPhases, CandidatePhases, PreviousPhases
<1> QED
  BY <1>2, <1>3, TaskFrame

LEMMA CommitDoneKeepsAll == ASSUME UInv, CommitDone, UNCHANGED controllerVars PROVE UInv'
<1>1. TransactionInv' /\ journal.restart = "CandidatePending"
  BY CommitDoneKeeps DEF UInv, TaskInv, CommitDone
<1> QED
  BY <1>1, CommittedKeepsAll DEF CommitDone

LEMMA TaskFailsKeeps == ASSUME UInv, TaskFails PROVE UInv'
<1>0. Fault /\ UNCHANGED controllerVars /\ TransactionInv'
  BY FaultKeeps DEF TaskFails, UInv
<1>1. CASE UNCHANGED journal
  <2>1. /\ UNCHANGED <<journal, live, ctl, child, homes, hostLock>> /\ task' = "failing"
        /\ task \in {"staging", "committing"}
    BY <1>0, <1>1 DEF Fault, controllerVars, KeepDisk, diskVars, UInv, TaskInv
  <2>2. NoForeign' /\ JournalInv' /\ PlaceInv' /\ TaskInv'
    BY <2>1 DEF UInv, NoForeign, JournalInv, PlaceInv, TaskInv, Pending, AllOriginal, AllCandidate, Entries,
                InPhase, InRestart, Idle, Alive
  <2>3. HomeInv'
    BY <2>1, HomeFrame
  <2> QED
    BY <1>0, <2>2, <2>3, TaskFrame
<1>2. CASE ~UNCHANGED journal
  BY <1>0, <1>2, CommittedKeepsAll DEF Fault
<1> QED
  BY <1>1, <1>2

LEMMA RestoreOnErrorKeepsAll == ASSUME UInv, RestoreOnError, UNCHANGED controllerVars PROVE UInv'
<1>0. /\ task = "failing" /\ BeginRecovery(TRUE)
      /\ UNCHANGED <<ctl, child, attempt, request, homes, hostLock, crashes>>
      /\ attempt \in 0 .. MaxAttempts /\ request \in BOOLEAN /\ crashes \in 0 .. MaxCrashes
  BY DEF RestoreOnError, controllerVars, UInv, TypeOK
<1>1. CASE ctl = "preparing"
  <2>1. InPhase({"Staging"}) /\ journal.restart = "none"
    BY <1>0, <1>1 DEF UInv, TaskInv, JournalInv, InPhase
  <2>2. RecoveryPlace(TRUE) /\ InPhase({"Staging", "Prepared"})
    BY <1>0, <1>1, <2>1 DEF RecoveryPlace, InPhase
  <2> QED
    BY <1>0, <1>1, <2>1, <2>2, RecoveryKeeps
<1>2. CASE ctl = "committing"
  <2>1. hostLock = Offline /\ journal.restart = "CandidatePending" /\ Pending
    BY <1>0, <1>2 DEF UInv, TaskInv, PlaceInv
  <2>2. RecoveryPlace(TRUE)
    BY <1>0, <1>2, <2>1 DEF RecoveryPlace
  <2>3. \A h \in Homes : ~Started(h)
    BY <1>0, <1>2, NoneMeanwhile
  <2> QED
    BY <1>0, <1>2, <2>1, <2>2, <2>3, RecoveryKeeps
<1> QED
  BY <1>0, <1>1, <1>2 DEF UInv, TaskInv

LEMMA RestoreDoneKeepsAll == ASSUME UInv, RestoreDone, UNCHANGED controllerVars PROVE UInv'
<1>0. /\ journal \in Journal /\ Pending /\ journal.phase = "Recovering"
      /\ journal.restart \in {"none", "Restoring"}
      /\ task = "restoring" /\ AllOriginal /\ TransactionInv'
      /\ UNCHANGED <<live, ctl, child, homes, hostLock>>
  BY JournalTyped, RestoreDoneKeeps
  DEF RestoreDone, UInv, TaskInv, controllerVars, KeepDisk, diskVars
<1>1. CASE journal.restart = "none"
  <2>1. task' = "cleaning" /\ UNCHANGED journal
    BY <1>1 DEF RestoreDone
  <2>2. NoForeign' /\ JournalInv' /\ PlaceInv' /\ TaskInv'
    BY <1>0, <1>1, <2>1
    DEF UInv, NoForeign, JournalInv, PlaceInv, TaskInv, Pending, AllOriginal, AllCandidate, Entries,
        InPhase, InRestart, Idle, Alive
  <2>3. HomeInv'
    BY <1>0, <2>1, HomeFrame
  <2> QED
    BY <1>0, <2>2, <2>3, TaskFrame
<1>2. CASE journal.restart = "Restoring"
  <2>1. task' = "idle" /\ journal' = Restarting("Restored")
    BY <1>2 DEF RestoreDone, Write
  <2>2. /\ journal' \in Journal /\ journal'.phase = "Recovering" /\ journal'.support = journal.support
        /\ journal'.restart = "Restored" /\ Pending' /\ Entries' = Entries
    BY <1>0, <1>2, <2>1, RestartingWritten, JournalAssumption DEF RestartPhases, Pending, Entries
  <2>3. NoForeign' /\ JournalInv' /\ PlaceInv' /\ TaskInv'
    BY <1>0, <2>1, <2>2
    DEF UInv, NoForeign, JournalInv, PlaceInv, TaskInv, AllOriginal, CandidatePhases, InPhase, Idle, Alive
  <2>4. HomeInv'
    BY <1>0, <1>2, <2>2, NoneMeanwhile, NoneHeld DEF InRestart, ClaimPhases, CandidatePhases, PreviousPhases
  <2> QED
    BY <1>0, <2>3, <2>4, TaskFrame
<1> QED
  BY <1>0, <1>1, <1>2

\* The journal goes: a Home that was claimed has become ready, and holds the lock.
LEMMA DropJournalKeepsAll == ASSUME UInv, DropJournal, UNCHANGED controllerVars PROVE UInv'
<1>0. /\ UNCHANGED <<live, ctl, child, homes, hostLock>> /\ task = "cleaning" /\ task' = "idle" /\ ~Pending'
      /\ TransactionInv'
  BY DropJournalKeeps DEF DropJournal, controllerVars, KeepDisk, diskVars, Pending, UInv
<1>1. NoForeign' /\ JournalInv' /\ PlaceInv' /\ TaskInv'
  BY <1>0 DEF UInv, NoForeign, JournalInv, PlaceInv, TaskInv
<1>2. \A g \in Homes : Started(g) => hostLock = g
  BY <1>0
  DEF UInv, TaskInv, HomeInv, StartedInv, ClaimedInv, ClaimedNow, Started, InRestart, ClaimPhases,
      CandidatePhases, PreviousPhases
<1>3. HomeInv'
  BY <1>0, <1>2
  DEF UInv, HomeInv, LockInv, StartedInv, ClaimedInv, CandidateInv, ClaimedNow, Started, Alive, Unnamed,
      InRestart
<1> QED
  BY <1>0, <1>1, <1>3, TaskFrame

LEMMA WorkKeeps == ASSUME UInv, WorkOnTask PROVE UInv'
<1>0. TransactionStep /\ UNCHANGED controllerVars /\ TransactionInv
  BY DEF WorkOnTask, UInv
<1>1. ASSUME NEW i \in Items, StageItem(i) PROVE UInv'
  BY <1>0, <1>1, StageItemKeeps, ScratchStepKeeps DEF StageItem
<1>2. ASSUME NEW f \in Files, DropFileScratch(f) \/ DropSupportScratch PROVE UInv'
  BY <1>0, <1>2, DropFileScratchKeeps, DropSupportScratchKeeps, ScratchStepKeeps
  DEF DropFileScratch, DropSupportScratch
<1>3. ASSUME NEW f \in Files, ActivateFile(f) \/ ActivationDone PROVE FALSE
  BY <1>3 DEF ActivateFile, ActivationDone, UInv, TaskInv
<1>4. 1 \in Files
  BY FilesAssumption DEF Files
<1> QED
  BY <1>0, <1>1, <1>2, <1>3, <1>4, CommitItemKeepsAll, RestoreItemKeepsAll, StagingDoneKeepsAll,
     CommitDoneKeepsAll, RestoreOnErrorKeepsAll, RestoreDoneKeepsAll, DropJournalKeepsAll
  DEF TransactionStep

-----------------------------------------------------------------------------
LEMMA InitInv == Init => UInv
<1> SUFFICES ASSUME Init PROVE UInv
  OBVIOUS
<1>1. TransactionInit /\ ctl = "down" /\ child = Nobody /\ hostLock = Nobody
      /\ \A g \in Homes : homes[g].state = "unborn"
  BY DEF Init
<1>2. TransactionInv
  BY <1>1, InitKeeps
<1>3. TypeOK
  <2>1. homes \in [Homes -> Home]
    BY DEF Init, Home, Contents
  <2>2. crashes \in 0 .. MaxCrashes /\ attempt \in 0 .. MaxAttempts
    BY AttemptFacts, ControllerAssumption DEF Init
  <2> QED
    BY <1>2, <2>1, <2>2 DEF Init, TypeOK, TransactionInv, Places
<1>4. NoForeign
  BY <1>1, ContentFacts DEF TransactionInit, NoForeign
<1>5. JournalInv /\ PlaceInv /\ TaskInv
  BY <1>1, HolderFacts DEF TransactionInit, JournalInv, PlaceInv, TaskInv, Pending
<1>6. HomeInv
  BY <1>1, HolderFacts
  DEF HomeInv, LockInv, StartedInv, ClaimedInv, CandidateInv, Started, Alive
<1> QED
  BY <1>2, <1>3, <1>4, <1>5, <1>6 DEF UInv

LEMMA StutterInv == UInv /\ UNCHANGED vars => UInv'
<1> SUFFICES ASSUME UInv, UNCHANGED vars PROVE UInv'
  OBVIOUS
<1>1. UNCHANGED <<journal, live, task>> /\ TransactionInv' /\ UNCHANGED controllerVars
  BY DiskFrame DEF vars, transactionVars
<1> QED
  BY <1>1, ScratchStepKeeps

LEMMA StepInv == UInv /\ [Next]_vars => UInv'
<1> SUFFICES ASSUME UInv, Next PROVE UInv'
  BY StutterInv
<1>1. CASE Controller
  <2>1. ASSUME NEW g \in Generations \ {ByHand},
               StartInitial(g) \/ ClaimCandidate(g) \/ ClaimPrevious(g)
        PROVE  UInv'
    BY <2>1, StartInitialKeeps, ClaimsKeep
  <2> QED
    BY <1>1, <2>1, MovesKeep, StopsKeep, FinishesKeep, LockStepsKeep, StartClaimedKeeps, PrepareRestartKeeps,
       RecordStartedKeeps, RecordReadyKeeps, RetiresKeep, RecoveriesKeep, StageSupportKeeps, InstallKeeps,
       WorkKeeps
    DEF Controller
<1>2. ASSUME NEW g \in Homes, Process(g) \/ HomeExits(g) PROVE UInv'
  BY <1>2, ProcessKeeps
<1> QED
  BY <1>1, <1>2, TakeRequestKeeps, RecoveriesKeep, AbortPlannedKeeps, StopsKeep, TaskFailsKeeps,
     StepBreaksOffKeeps, StartByHandKeeps, CrashKeeps
  DEF Next

\* Every step of the controller, of a Home process and of what fails keeps all
\* seven parts of the invariant.
THEOREM UpdateControllerInvariance == Spec => []UInv
  BY InitInv, StepInv, PTL DEF Spec

-----------------------------------------------------------------------------
(* The properties. *)

\* Where the controller is, what it owns, the Home processes and the host lock
\* stay well typed, and so do the journal and the scratch.
THEOREM UpdateControllerTypeCorrect == Spec => []TypeOK
<1>1. UInv => TypeOK
  BY DEF UInv
<1> QED
  BY <1>1, UpdateControllerInvariance, PTL

\* No controller, however often it dies, consumes the last copy of an original
\* before the commit is whole.
THEOREM ControllerKeepsRollback == Spec => []RollbackKept
<1>1. UInv => RollbackKept
  BY DEF UInv, TransactionInv, LastCopy, RollbackKept, InPhase
<1> QED
  BY <1>1, UpdateControllerInvariance, PTL

\* A Home that runs under a claim runs on the claimed release as a whole: nothing
\* it reads is replaced under it, and no part of another release is beside it.
THEOREM AlwaysWholeUnderClaim == Spec => []WholeUnderClaim
<1>1. UInv => WholeUnderClaim
  <2> SUFFICES ASSUME UInv, NEW g \in Homes, homes[g].state = "running", ClaimOf(g)
               PROVE  /\ homes[g].binary = Claimed(1)
                      /\ \A i \in Entries : live[i] = Claimed(i)
    BY DEF WholeUnderClaim
  <2>1. ClaimedNow(g) /\ Alive(g) /\ InRestart(ClaimPhases)
    BY DEF ClaimOf, ClaimedNow, Alive, InRestart, ClaimPhases, CandidatePhases, PreviousPhases
  <2> QED
    BY <2>1, OneRelease DEF UInv, HomeInv, ClaimedInv
<1> QED
  BY <1>1, UpdateControllerInvariance, PTL

\* From the moment the controller goes back, no process of the failed release is
\* left, and whatever dies or fails none is started again.
THEOREM NeverCandidateAfterRollback == Spec => []NoCandidateAfterRollback
<1>1. UInv => NoCandidateAfterRollback
  BY DEF UInv, HomeInv, CandidateInv, NoCandidateAfterRollback, InPhase
<1> QED
  BY <1>1, UpdateControllerInvariance, PTL

\* Beside the Home that a claim is for there is no other that was started
\* under a claim.
THEOREM AlwaysOneHome == Spec => []OneHome
<1>1. UInv => OneHome
  <2> SUFFICES ASSUME UInv, NEW g \in Homes, NEW h \in Homes, Started(g), Started(h), ClaimOf(g)
               PROVE  g = h
    BY DEF OneHome
  <2>1. ClaimedNow(g) /\ InRestart(ClaimPhases)
    BY DEF ClaimOf, ClaimedNow, InRestart, ClaimPhases, CandidatePhases, PreviousPhases
  <2>2. ~Unnamed
    BY <2>1, OneRelease
  <2>3. ClaimedNow(h)
    BY <2>2 DEF UInv, HomeInv, StartedInv
  <2> QED
    BY <2>1, <2>3 DEF ClaimedNow
<1> QED
  BY <1>1, UpdateControllerInvariance, PTL

\* Installed items change only in the middle of a commit or of a roll-back.
LEMMA OnlyMovesChangeItems ==
  ASSUME UInv, Next
  PROVE  UNCHANGED live \/ \E i \in Items : CommitItem(i) \/ RestoreItem(i)
<1>1. Recover \/ Prepare \/ PrepareSupport \/ Commit \/ Retire \/ FinishRestart \/ KeepJournal \/ Fault
         => UNCHANGED live
  BY DEF Recover, BeginRecovery, Prepare, PrepareSupport, Commit, Retire, FinishRestart, KeepJournal, Fault,
         KeepDisk, diskVars, transactionVars
<1>2. ASSUME NEW b \in BOOLEAN, BeginRecovery(b) PROVE UNCHANGED live
  BY <1>2 DEF BeginRecovery, KeepDisk, diskVars
<1>3. ASSUME NEW g \in Generations, NEW phase \in StartPhases, Claim(g, phase) PROVE UNCHANGED live
  BY <1>3 DEF Claim, KeepDisk, diskVars
<1>4. ASSUME NEW place \in Places, EndAt(place) PROVE UNCHANGED live
  BY <1>4 DEF EndAt, StopChild, KeepJournal, transactionVars
<1>5. CASE WorkOnTask
  <2>1. ~ActivationDone /\ \A f \in Files : ~ActivateFile(f)
    BY DEF ActivateFile, ActivationDone, UInv, TaskInv
  <2>2. RestoreOnError => UNCHANGED live
    BY <1>2 DEF RestoreOnError
  <2> QED
    BY <1>5, <2>1, <2>2
    DEF WorkOnTask, TransactionStep, StageItem, StagingDone, CommitDone, RestoreDone, DropSupportScratch,
        DropFileScratch, DropJournal, KeepDisk, diskVars
<1>6. CASE Controller /\ ~WorkOnTask
  BY <1>1, <1>2, <1>3, <1>4, <1>6
  DEF Controller, StartController, ReconcileNothing, ReconcileUnplanned, Discarded, ReconcileReady,
      ReconcileFailedStart, ReconcileCandidate, ReconcileRefuses, Rescued, StageSupport, PrepareRestart,
      FinishAbort, KeepHome, StopHome, TakeOffline, Install, ActivationFailed, StartClaimed, RecordStarted,
      Booted, Ready, RecordReady, Settle, Settled, CleanupFails, Unfinished, CandidateFails, PreviousFails,
      StopCandidate, RestorePrevious, PreviousRestored, RestoreRefused, TryAgain, GiveUp, HomeEnds,
      StartInitial, ClaimCandidate, ClaimPrevious, StopChild, KeepJournal, KeepDisk, diskVars,
      transactionVars, StartPhases, Places
<1>7. CASE \/ TakeRequest \/ Rescue \/ AbortPreparing \/ AbortPlanned
           \/ Refused \/ FinishFails \/ TaskFails \/ StepBreaksOff \/ StartByHand \/ Crash
  BY <1>1, <1>2, <1>4, <1>7
  DEF TakeRequest, Rescue, AbortPreparing, AbortPlanned, Refused, FinishFails, Unfinished, StopChild,
      TaskFails, StepBreaksOff, StartByHand, Crash, OnlyHomes, KeepJournal, KeepDisk, diskVars,
      transactionVars, Places
<1>8. ASSUME NEW g \in Homes, Process(g) \/ HomeExits(g) PROVE UNCHANGED live
  BY <1>8 DEF Process, HomeAuthorizes, HomeLocks, HomeExits, OnlyHomes, transactionVars
<1> QED
  BY <1>5, <1>6, <1>7, <1>8 DEF Next

\* Release files and support assets are never replaced under a Home: while one
\* changes, the controller holds the host lock and no Home it started under a
\* claim, nor any that an earlier controller did, is alive.
THEOREM SwitchesAlwaysQuiet == Spec => SwitchesQuietly
<1>1. ASSUME UInv, [Next]_vars PROVE [QuietSwitch]_vars
  <2>1. CASE UNCHANGED live
    BY <2>1 DEF QuietSwitch
  <2>2. ASSUME NEW i \in Items, CommitItem(i) \/ RestoreItem(i)
        PROVE  hostLock = Offline /\ \A g \in Homes : ~Started(g)
    <3>1. CASE CommitItem(i)
      BY <1>1, <3>1, NoneMeanwhile DEF CommitItem, UInv, TaskInv, PlaceInv
    <3>2. CASE RestoreItem(i)
      <4>1. hostLock = Offline /\ task = "restoring"
        BY <1>1, <3>2 DEF UInv, TaskInv, RestoreItem, AllOriginal
      <4> QED
        BY <1>1, <4>1, NoneMeanwhile
    <3> QED
      BY <2>2, <3>1, <3>2
  <2>3. UNCHANGED vars => UNCHANGED live
    BY DEF vars, transactionVars
  <2> QED
    BY <1>1, <2>1, <2>2, <2>3, OnlyMovesChangeItems DEF QuietSwitch
<1> QED
  BY <1>1, UpdateControllerInvariance, PTL DEF Spec, SwitchesQuietly

-----------------------------------------------------------------------------
(* The refinement of ReleaseSwitch. *)

\* From the plan of a restart to the end of its commit the journal has entries
\* for all that the update replaces; without an entry, support is untouched.
Due == Pending /\ (journal.phase \in {"Committing", "Committed"} \/ journal.restart = "CandidatePending")
SupportInv ==
    /\ Pending /\ ~journal.support => live[Support] = Original(Support)
    /\ Due => journal.support = withSupport

\* What a step may do to the journal.
Stays == UNCHANGED <<journal, withSupport>>
Rewrites == /\ Pending /\ Pending' /\ journal'.support = journal.support
            /\ UNCHANGED <<live, withSupport>>
            /\ Due' => Due \/ journal.support = withSupport
Steps == Stays \/ Rewrites \/ Prepare \/ PrepareSupport \/ (Pending /\ DropJournal)

LEMMA RewriteFacts ==
  ASSUME Pending, KeepDisk, journal' \in Journal, journal'.support = journal.support,
         journal'.phase \in {"Committing", "Committed"} \/ journal'.restart = "CandidatePending"
           => Due \/ journal.support = withSupport
  PROVE  Rewrites
  BY JournalAssumption DEF Rewrites, Pending, KeepDisk, diskVars, Due

\* A step that writes only the phase, or only the restart record.
LEMMA PhaseRewrites ==
  ASSUME UInv, Pending, KeepDisk,
         NEW phase \in {"Staging", "Prepared", "Committing", "Committed", "Recovering"},
         Write([journal EXCEPT !.phase = phase]), phase \in {"Committing", "Committed"} => Due
  PROVE  Rewrites
<1>1. journal \in Journal
  BY JournalTyped
<1>2. /\ journal' \in Journal /\ journal'.support = journal.support
      /\ journal'.phase = phase /\ journal'.restart = journal.restart
  BY <1>1, JournalFacts DEF Write
<1> QED BY <1>2, RewriteFacts DEF Due

LEMMA RestartRewrites ==
  ASSUME UInv, Pending, KeepDisk, NEW r \in RestartPhases \cup {"none"}, NEW g \in Generations,
         \/ Write([journal EXCEPT !.restart = r])
         \/ Write([journal EXCEPT !.restart = r, !.generation = g]),
         r = "CandidatePending" => journal.support = withSupport
  PROVE  Rewrites
<1>1. journal \in Journal
  BY JournalTyped
<1>2. /\ journal' \in Journal /\ journal'.support = journal.support
      /\ journal'.phase = journal.phase /\ journal'.restart = r
  <2>1. CASE Write([journal EXCEPT !.restart = r])
    BY <1>1, <2>1, RestartWritten DEF Write
  <2>2. CASE Write([journal EXCEPT !.restart = r, !.generation = g])
    <3> DEFINE k == [journal EXCEPT !.restart = r, !.generation = g]
    <3>1. /\ k \in Journal /\ k.support = journal.support
          /\ k.phase = journal.phase /\ k.restart = r
      BY <1>1 DEF Journal
    <3>2. journal' = k
      BY <2>2 DEF Write
    <3> HIDE DEF k
    <3> QED BY <3>1, <3>2
  <2> QED BY <2>1, <2>2
<1> QED BY <1>2, RewriteFacts DEF Due

LEMMA BackRewrites ==
  ASSUME UInv, Pending, KeepDisk, NEW phase \in {"Restoring", "Restored"}, Write(Restarting(phase))
  PROVE  Rewrites
<1>1. journal \in Journal /\ phase \in RestartPhases
  BY JournalTyped DEF RestartPhases
<1>2. /\ journal' \in Journal /\ journal'.support = journal.support
      /\ journal'.phase = "Recovering" /\ journal'.restart \in {"none", "Restoring", "Restored"}
  BY <1>1, RestartingWritten DEF Write
<1> QED BY <1>2, RewriteFacts

LEMMA RecoverySteps == ASSUME UInv, NEW b \in BOOLEAN, BeginRecovery(b) PROVE Stays \/ Rewrites
  BY BackRewrites DEF BeginRecovery, BeginRestore, Stays, KeepDisk

\* The steps of a task.
LEMMA TaskSteps == ASSUME UInv, TransactionStep PROVE Steps
<1>1. task # "idle" => Pending
  BY DEF UInv, TaskInv
<1>2. ASSUME NEW i \in Items, StageItem(i) \/ CommitItem(i) \/ RestoreItem(i) PROVE Stays
  BY <1>2 DEF StageItem, CommitItem, RestoreItem, MoveIn, MoveBack, RemoveLiveSupport, Stays
<1>3. ASSUME NEW f \in Files, ActivateFile(f) \/ DropFileScratch(f) PROVE Stays
  BY <1>3 DEF ActivateFile, MoveIn, DropFileScratch, Stays
<1>4. StagingDone => Rewrites
  BY <1>1, PhaseRewrites DEF StagingDone
<1>5. CommitDone => Rewrites
  BY <1>1, PhaseRewrites DEF CommitDone, UInv, TaskInv, Due
<1>6. RestoreDone => Stays \/ Rewrites
  BY <1>1, BackRewrites DEF RestoreDone, Stays, KeepDisk
<1>7. ActivationDone \/ DropSupportScratch => Stays
  BY DEF ActivationDone, DropSupportScratch, Stays, KeepDisk
<1>8. RestoreOnError => Stays \/ Rewrites
  BY RecoverySteps DEF RestoreOnError
<1>9. DropJournal => Pending
  BY <1>1 DEF DropJournal
<1> QED
  BY <1>2, <1>3, <1>4, <1>5, <1>6, <1>7, <1>8, <1>9 DEF TransactionStep, Steps

LEMMA FaultSteps == ASSUME UInv, Fault PROVE Stays \/ Rewrites
<1>1. CASE UNCHANGED journal
  BY <1>1 DEF Fault, Stays, KeepDisk
<1>2. CASE task = "committing" /\ Write([journal EXCEPT !.phase = "Committed"])
  <2>1. Pending /\ Due /\ KeepDisk
    BY <1>2 DEF UInv, TaskInv, Due, Fault
  <2> QED
    BY <1>2, <2>1, PhaseRewrites
<1> QED
  BY <1>1, <1>2 DEF Fault

\* The restart record.
LEMMA RecordSteps ==
  ASSUME UInv,
         \/ PrepareRestart \/ AbortPlanned \/ RecordStarted \/ RecordReady \/ Install
         \/ \E g \in Generations : ClaimCandidate(g) \/ ClaimPrevious(g)
  PROVE  Rewrites
<1>1. CASE PrepareRestart
  <2>1. /\ Pending /\ KeepDisk /\ journal.support = withSupport
        /\ Write([journal EXCEPT !.restart = "CandidatePending"])
    BY <1>1 DEF PrepareRestart, InPhase
  <2> QED
    BY <2>1, NoGeneration, RestartRewrites DEF RestartPhases
<1>2. CASE AbortPlanned
  <2>1. Pending /\ KeepDisk /\ Write([journal EXCEPT !.restart = "none"])
    BY <1>2 DEF AbortPlanned, InPhase
  <2>2. "none" \in RestartPhases \cup {"none"} /\ "none" # "CandidatePending"
    OBVIOUS
  <2> QED
    BY <2>1, <2>2, NoGeneration, RestartRewrites
<1>3. CASE RecordStarted
  <2>1. /\ Pending /\ KeepDisk /\ Write([journal EXCEPT !.restart = RunningPhase])
        /\ RunningPhase \in {"CandidateRunning", "PreviousRunning"}
    BY <1>3 DEF RecordStarted, InRestart, RunningPhase
  <2> QED
    BY <2>1, NoGeneration, RestartRewrites DEF RestartPhases, CandidatePhases, PreviousPhases
<1>4. CASE RecordReady
  <2>1. /\ Pending /\ KeepDisk /\ Write([journal EXCEPT !.restart = ReadyPhase])
        /\ ReadyPhase \in {"CandidateReady", "PreviousReady"}
    BY <1>4 DEF RecordReady, InRestart, ReadyPhase
  <2> QED
    BY <2>1, NoGeneration, RestartRewrites DEF RestartPhases, CandidatePhases, PreviousPhases
<1>5. CASE Install
  <2>1. /\ Pending /\ KeepDisk /\ Write([journal EXCEPT !.phase = "Committing"])
        /\ Due
    BY <1>5 DEF Install, At, Commit, InPhase, UInv, PlaceInv, Due
  <2> QED
    BY <2>1, PhaseRewrites
<1>6. ASSUME NEW g \in Generations, ClaimCandidate(g) \/ ClaimPrevious(g) PROVE Rewrites
  <2>1. PICK phase \in StartPhases :
           Pending /\ KeepDisk /\ Write([journal EXCEPT !.restart = phase, !.generation = g])
    BY <1>6 DEF ClaimCandidate, ClaimPrevious, Claim, StartPhases, InRestart
  <2>2. phase \in RestartPhases \cup {"none"} /\ phase # "CandidatePending"
    BY DEF StartPhases, RestartPhases, CandidatePhases, PreviousPhases
  <2> QED
    BY <2>1, <2>2, RestartRewrites
<1> QED
  BY <1>1, <1>2, <1>3, <1>4, <1>5, <1>6

LEMMA RetireSteps == ASSUME UInv, Retire PROVE Rewrites
  BY BackRewrites DEF Retire, InPhase

\* Every step of the controller, of a Home process and of what fails is one of
\* these.
LEMMA ControllerSteps == ASSUME UInv, Controller PROVE Steps
<1>1. KeepJournal \/ FinishRestart => Stays
  BY DEF KeepJournal, FinishRestart, transactionVars, KeepDisk, Stays
<1>2. ASSUME NEW place \in Places, EndAt(place) \/ StopChild(place) PROVE Stays
  BY <1>1, <1>2 DEF EndAt, StopChild
<1>3. Recover => Stays \/ Rewrites
  BY RecoverySteps DEF Recover
<1>4. CASE \/ StartController \/ ReconcileNothing \/ Discarded \/ ReconcileReady \/ ReconcileRefuses
           \/ Rescued \/ KeepHome \/ StopHome \/ TakeOffline \/ ActivationFailed \/ StartClaimed
           \/ Booted \/ Ready \/ Settle \/ Settled
  BY <1>1, <1>2, <1>4
  DEF StartController, ReconcileNothing, Discarded, ReconcileReady, ReconcileRefuses, Rescued, KeepHome,
      StopHome, TakeOffline, ActivationFailed, StartClaimed, Booted, Ready, Settle, Settled, Places, Steps
<1>5. CASE \/ CleanupFails \/ CandidateFails \/ PreviousFails \/ StopCandidate \/ PreviousRestored
           \/ RestoreRefused \/ HomeEnds
  BY <1>1, <1>2, <1>5
  DEF CleanupFails, Unfinished, CandidateFails, PreviousFails, StopCandidate, PreviousRestored,
      RestoreRefused, HomeEnds, Places, Steps
<1>6. CASE ReconcileUnplanned \/ ReconcileCandidate \/ FinishAbort \/ RestorePrevious
  BY <1>3, <1>6, RecoverySteps
  DEF ReconcileUnplanned, ReconcileCandidate, FinishAbort, RestorePrevious, Steps
<1>7. CASE ReconcileFailedStart \/ TryAgain \/ GiveUp
  BY <1>1, <1>7, RetireSteps DEF ReconcileFailedStart, TryAgain, GiveUp, Steps
<1>8. CASE StageSupport
  BY <1>8 DEF StageSupport, Steps
<1>9. CASE PrepareRestart \/ RecordStarted \/ RecordReady \/ Install
  BY <1>9, RecordSteps DEF Steps
<1>10. CASE WorkOnTask
  BY <1>10, TaskSteps DEF WorkOnTask
<1>11. ASSUME NEW g \in Generations \ {ByHand}, StartInitial(g) \/ ClaimCandidate(g) \/ ClaimPrevious(g)
       PROVE  Steps
  BY <1>1, <1>11, RecordSteps DEF StartInitial, Steps
<1> QED
  BY <1>4, <1>5, <1>6, <1>7, <1>8, <1>9, <1>10, <1>11 DEF Controller

LEMMA NextSteps == ASSUME UInv, Next PROVE Steps
<1>1. KeepJournal => Stays
  BY DEF KeepJournal, transactionVars, Stays
<1>2. ASSUME NEW place \in Places, EndAt(place) \/ StopChild(place) PROVE Stays
  BY <1>1, <1>2 DEF EndAt, StopChild
<1>3. CASE TakeRequest
  BY <1>3 DEF TakeRequest, Steps
<1>4. CASE Rescue \/ AbortPreparing
  BY <1>4, RecoverySteps DEF Rescue, AbortPreparing, Recover, Steps
<1>5. CASE AbortPlanned
  BY <1>5, RecordSteps DEF Steps
<1>6. CASE Refused \/ FinishFails
  BY <1>1, <1>2, <1>6 DEF Refused, FinishFails, Unfinished, Places, Steps
<1>7. CASE TaskFails
  BY <1>7, FaultSteps DEF TaskFails, Steps
<1>8. CASE StepBreaksOff \/ Crash
  BY <1>8 DEF StepBreaksOff, Crash, KeepDisk, Stays, Steps
<1>9. CASE StartByHand \/ \E g \in Homes : Process(g) \/ HomeExits(g)
  BY <1>9
  DEF StartByHand, Process, HomeAuthorizes, HomeLocks, HomeExits, OnlyHomes, transactionVars, Stays, Steps
<1> QED
  BY <1>3, <1>4, <1>5, <1>6, <1>7, <1>8, <1>9, ControllerSteps DEF Next

LEMMA SupportKept == UInv /\ SupportInv /\ [Next]_vars => SupportInv'
<1> SUFFICES ASSUME UInv, SupportInv, [Next]_vars PROVE SupportInv'
  OBVIOUS
<1>1. live \in [Items -> Contents] /\ Support \in Items
  BY ItemFacts DEF UInv, TypeOK, DiskTypeOK
<1>2. CASE UNCHANGED <<journal, withSupport>>
  <2>1. Pending' = Pending /\ Due' = Due /\ journal' = journal
    BY <1>2 DEF Pending, Due
  <2>2. ASSUME Pending, ~journal.support PROVE live'[Support] = live[Support]
    <3>1. CASE UNCHANGED live
      BY <3>1
    <3>2. ASSUME NEW i \in Items, CommitItem(i) \/ RestoreItem(i) PROVE live'[Support] = live[Support]
      <4>1. i # Support
        BY <2>2, <3>2, ItemFacts DEF CommitItem, RestoreItem, Entries
      <4>2. \E c : live' = [live EXCEPT ![i] = c]
        BY <3>2, <4>1 DEF CommitItem, RestoreItem, MoveIn, MoveBack
      <4> QED
        BY <1>1, <4>1, <4>2
    <3> QED
      BY <3>1, <3>2, OnlyMovesChangeItems DEF vars, transactionVars
  <2> QED
    BY <1>2, <2>1, <2>2 DEF SupportInv
<1>3. CASE Rewrites
  BY <1>3 DEF Rewrites, SupportInv
<1>4. CASE Prepare
  BY <1>1, <1>4 DEF Prepare, Preparable, Write, diskVars, SupportInv, Due
<1>5. CASE PrepareSupport
  <2>1. journal \in Journal
    BY <1>5, JournalTyped DEF PrepareSupport, InPhase
  <2>2. /\ journal'.phase = "Staging" /\ journal'.support = TRUE /\ journal'.restart = "none"
    BY <1>5, <2>1 DEF PrepareSupport, Write, Journal
  <2> QED
    BY <2>2 DEF SupportInv, Due
<1>6. CASE Pending /\ DropJournal
  BY <1>6 DEF DropJournal, SupportInv, Due, Pending
<1> QED
  BY <1>2, <1>3, <1>4, <1>5, <1>6, NextSteps DEF Steps, Stays, vars, transactionVars

LEMMA SupportInit == Init => SupportInv
  BY DEF Init, TransactionInit, SupportInv, Due, Pending

\* Once the journal is removed the installation is one release.
LEMMA WholeWithoutJournal ==
  ASSUME UInv, SupportInv, Pending, DropJournal PROVE Holds(Original)' \/ Holds(Candidate)'
<1>1. /\ journal.phase \in {"Staging", "Committed", "Recovering"} /\ task = "cleaning"
      /\ live' = live /\ Replaced' = Replaced
  BY DEF UInv, TransactionInv, TaskInPhase, InPhase, DropJournal, KeepDisk, diskVars, Replaced
<1>2. CASE journal.phase = "Staging"
  BY <1>1, <1>2, ItemFacts DEF UInv, JournalInv, Holds, Replaced
<1>3. CASE journal.phase = "Committed"
  <2>1. Replaced = Entries
    BY <1>3 DEF SupportInv, Due, Replaced, Entries
  <2> QED
    BY <1>1, <1>3, <2>1 DEF UInv, JournalInv, AllCandidate, Holds
<1>4. CASE journal.phase = "Recovering"
  <2>1. AllOriginal
    BY <1>1, <1>4 DEF UInv, TransactionInv, LastCopy, InPhase
  <2>2. \A i \in Items : live[i] = Original(i)
    BY <2>1, ItemFacts DEF AllOriginal, Entries, SupportInv
  <2> QED
    BY <1>1, <2>2, ItemFacts DEF Holds, Replaced
<1> QED
  BY <1>1, <1>2, <1>3, <1>4

\* Without a journal the items are at rest.
LEMMA RestsWithoutJournal ==
  ASSUME UInv, Next, ~Pending, ~Pending' PROVE UNCHANGED <<live, withSupport>>
<1>1. live' = live
  <2>1. task = "idle"
    BY DEF UInv, TaskInv
  <2>2. \A i \in Items : ~CommitItem(i) /\ ~RestoreItem(i)
    BY <2>1 DEF CommitItem, RestoreItem
  <2> QED
    BY <2>2, OnlyMovesChangeItems
<1>2. ~Prepare /\ ~PrepareSupport
  BY FirstJournal, JournalAssumption DEF Prepare, PrepareSupport, Write, Pending, InPhase
<1> QED
  BY <1>1, <1>2, NextSteps DEF Steps, Stays, Rewrites

\* If some release file changes at all, the controller implements ReleaseSwitch:
\* whether the candidate comes up, is gone back on, or the controller dies and
\* another reconciles, what is left is one release as a whole.
THEOREM ControllerSwitchesAtomically == ASSUME Same # Files PROVE Spec => SwitchesAtomically
<1> DEFINE release == IF Pending THEN "changing"
                      ELSE IF Holds(Candidate) THEN "candidate"
                      ELSE IF Holds(Original) THEN "previous" ELSE "mixed"
<1>1. PICK f \in Files : Candidate(f) = "new"
  BY FilesAssumption DEF Files, Candidate
<1>2. ASSUME \A i \in Items : live[i] = Original(i) PROVE Holds(Original) /\ ~Holds(Candidate)
  <2>1. f \in Replaced /\ live[f] \notin {Candidate(f), "foreign"}
    BY <1>1, <1>2, ItemFacts, ContentFacts DEF Replaced
  <2> QED
    BY <1>2, <2>1, ItemFacts DEF Holds, Replaced
<1>3. Init => Switch!Init
  BY <1>2 DEF Init, TransactionInit, Pending, Switch!Init
<1>4. UInv /\ SupportInv /\ [Next]_vars => [Switch!Open \/ Switch!Close]_release
  <2> SUFFICES ASSUME UInv, SupportInv, [Next]_vars PROVE [Switch!Open \/ Switch!Close]_release
    OBVIOUS
  <2>1. CASE UNCHANGED vars
    BY <2>1 DEF vars, transactionVars, Pending, Holds, Replaced
  <2>2. CASE Pending /\ Pending'
    BY <2>2
  <2>3. CASE Next /\ ~Pending /\ ~Pending'
    <3>1. live' = live /\ withSupport' = withSupport
      BY <2>3, RestsWithoutJournal
    <3> QED
      BY <2>3, <3>1 DEF Holds, Replaced
  <2>4. CASE Prepare
    <3>1. release = "previous"
      BY <1>2, <2>4 DEF Prepare, Preparable
    <3>2. release' = "changing"
      BY <2>4, FirstJournal, JournalAssumption DEF Prepare, Write, Pending
    <3> QED
      BY <3>1, <3>2 DEF Switch!Open
  <2>5. CASE Pending /\ DropJournal
    <3>1. release = "changing"
      BY <2>5
    <3>2. release' \in {"previous", "candidate"}
      BY <2>5, WholeWithoutJournal DEF DropJournal, Pending
    <3> QED
      BY <3>1, <3>2 DEF Switch!Close
  <2>6. CASE PrepareSupport
    <3>1. Pending /\ journal \in Journal
      BY <2>6, JournalTyped DEF PrepareSupport, InPhase
    <3>2. Pending'
      <4>1. journal' = [journal EXCEPT !.phase = "Staging", !.support = TRUE] /\ journal' \in Journal
        BY <2>6, <3>1, JournalFacts DEF PrepareSupport, Write
      <4> QED
        BY <4>1, JournalAssumption DEF Pending
    <3> QED
      BY <2>2, <3>1, <3>2
  <2>7. Next /\ Stays => (Pending /\ Pending') \/ (~Pending /\ ~Pending')
    BY DEF Stays, Pending
  <2> QED
    BY <2>1, <2>2, <2>3, <2>4, <2>5, <2>6, <2>7, NextSteps DEF Steps, Rewrites
<1>5. Spec => []SupportInv
  BY SupportInit, SupportKept, UpdateControllerInvariance, PTL DEF Spec
<1> QED
  BY <1>3, <1>4, <1>5, UpdateControllerInvariance, PTL DEF Spec, SwitchesAtomically, Switch!Spec
=============================================================================
