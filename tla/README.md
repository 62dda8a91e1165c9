# The Elastos runtime in TLA+

This directory holds TLA+ models of parts of the Elastos runtime, the TLC
configurations that check them on small instances, and proofs, checked by TLAPS,
of what holds of them for every value of their constants. Paths are relative to
the repository root as it is mounted under `src/`; `RT` stands for
`src/elastos/crates/elastos-runtime/src`, `SV` for
`src/elastos/crates/elastos-server/src`, `PC` for
`src/elastos/crates/elastos-protected-content-runtime/src`, `CU` for
`src/elastos/crates/elastos-protected-content-custody/src`.

`PROJECT.json` lists, in machine-readable form, the components, the runs, the
mutant that breaks each property, the source lines behind each definition, the
hazards and the theorems.

## 1. The system

The runtime is a Rust service (tokio, several threads) that starts capsules
(isolated programs), hands them capability tokens, and routes their requests to
provider processes. A privileged shell decides, over HTTP, which capsule gets
which capability. A second body of code releases protected content: a runtime
asks a threshold of custody nodes for decisions and key shares, and keeps a
durable journal of every release; a custody node is itself a provider process
behind a bridge, with a file of what it has released. A third installs and
updates the service, from a terminal or from a controller that owns the running
Home process and goes back to the previous release when the new one does not
become ready.

### Components, their state and what makes them correct

| Component | State | Operations | Correct if |
|---|---|---|---|
| Capability store (`RT/capability/store.rs`) | epoch, revocation list, use counters in memory; epoch and list in two files | advance_epoch, revoke_token, try_use_token, load at start | a revoked token is never accepted again, nor after a restart; no token is used more often than granted |
| Capability manager (`RT/capability/manager.rs`, `token.rs`) | signing key, store | grant, validate (twelve checks, two of them behind awaits), delegate, revoke, revoke_all | a check that began after a token's death refuses it; a child is no wider and lives no longer than its parent |
| Pending requests (`RT/capability/pending.rs`) | requests and a per-session index behind two locks, in memory only | create, grant, deny, revoke, sweeps, listing | one decision per request; no request lost from the index; limits hold |
| Capability HTTP handlers (`SV/api/handlers/capability.rs`) | none of their own; pending store, then manager | request, status, grant, deny, revoke, revoke_all | what was answered is true of both stores |
| Release journal (`PC/journal.rs`) | one file per operation, one temporary file, a file lock | persist_before_provider_effect, mark_provider_effect_started, persist_replayable_rights_decisions, mark_terminal, scans | a record survives any interruption, is never contradicted, and blocks nobody |
| Release coordinator (`PC/coordinator.rs`) | its calls' contexts, the journal | release, resume_exact | providers act only for operations on record; one outcome per operation; shares only behind a recorded quorum |
| Custody replay store (`CU/replay_store.rs`) | one file of records, its temporary file, a file lock | release_contribution: replay, refuse, claim, produce, store | while an operation is claimed its node gives one contribution for it, and the same one to every retry |
| Provider bridge (`RT/provider/bridge.rs`) | a child process, two pipes, a task per request, an I/O lock | start, request, cancel, shut down, kill | an answer reaches the caller that asked; nobody waits for a process that is gone |
| Install transaction (`SV/install_transaction.rs`, `support.rs`) | a journal file, candidates, copies of the originals | prepare, stage support, activate, commit, recover, clean up, restart record | whatever is interrupted, the installation is one release or the other and can get there |
| Host lock, Home's start (`SV/host_lock.rs`) | a lock file, the journal | authorize_host_start, acquire | no Home runs on a mixture, none beside another's claim |
| Update controller, command-line update (`SV/update_controller.rs`, `update.rs`) | the child Home, the consumed request, the journal | reconcile, apply, start, retry, roll back; `elastos update` | an update ends, with one Home, on one release |
| Session registry (`RT/session/registry.rs`) | three maps behind three locks | create, validate, invalidate | an invalidated session is found by no map |
| Mint, open (`PC/mint*.rs`, `PC/open.rs`) | effect logs | mint, recover, open | an effect happens once |
| Provider registry, supervisor (`RT/provider/registry.rs`, `SV/supervisor.rs`) | registrations, processes | register, unregister, route, restart | a request goes to a registered provider or fails |
| Messaging channel (`RT/messaging/channel.rs`) | bounded queues | send, receive, close | nothing is lost or reordered within a channel |
| Carrier, content, rooms, storage, gateway, compute back ends, capsules | see `PROJECT.json` | | |

How they interact: HTTP handlers call the pending store and then the manager (or
the reverse), each through a shared `Arc` with its own locks and nothing that
makes the two changes one. The manager reads the store in several locked steps.
Capsule requests carry tokens to the manager's `validate`. The coordinator calls
the journal under its file lock, lets go of it, and awaits providers in between.
A provider host writes one line and reads one line at a time to its child; the
custody provider answers each from its store's file, which outlives both
processes and may be open in the child of a host that has crashed. The update
controller, every Home and the `elastos update` command share three things on
disk: the installed files, the journal that says who may touch them, and the
host lock; the controller's messages to Home are its spawning, a pipe that
closes, and a signal.

What is hard here:

* *Interleavings of handlers.* Handlers run concurrently on several threads and
  hold no lock across their steps: epoch writes, list writes, request decisions.
* *State read before an await and used after it.* Validation checks the epoch,
  then the list, the clock and the counter; a sweep finds expired requests under
  one lock and marks them under another; a release loads a record, awaits a
  provider and writes the record again; Home reads the journal and then takes
  the host lock; the custody provider reads the clock and then waits for its lock.
* *Files.* Atomic replacement through a shared temporary name; crashes and I/O
  errors between create, write, rename and the change in memory; several renames
  that are to look like one; trees that are removed entry by entry.
* *Processes that outlive their owner.* A crashed controller leaves its Home, a
  crashed host its provider, and the next one starts beside them.
* *Cancellation.* A caller of the bridge goes away, its task does not.
* *Replays and retries.* The same release is asked for again after a partial
  answer, a crash, or while the first call is still at work; a restored Home is
  started again under a new claim.
* *Limits.* A guard and the insertion it guards are separate critical sections.

The full list of hazards, each at its line and with the properties that would
catch it, is `hazards` in `PROJECT.json`.

## 2. The modules

```
RevocationPromise            CapabilityStore        PendingRequests       ReleaseJournal  ReleasePromise
       ^  refines                  ^ extends              ^ extends             ^ extends    ^ refines
       +------------- CapabilityManager             CapabilityApi        ReleaseCoordinator -+
                        ^          ^                 ^        ^             ^         ^
           MCCapability    CapabilityManager_proofs  |  CapabilityApi_proofs |  ReleaseCoordinator_proofs
                                              MCCapabilityApi            MCRelease    ^
                                                                              ReleaseQuorum_proofs

ReleaseSwitch <---refines--- InstallTransaction            ReplayStore     ProviderBridge
                              ^ extends     ^ extends              ^ extends  ^
                     CommandLineUpdate   UpdateController          CustodyNode
                       ^          ^         ^      ^                ^        ^
                  MCInstall       |    MCUpdate    |          MCCustody      |
            CommandLineUpdate_proofs  UpdateController_proofs    CustodyNode_proofs
                       both extend InstallTransaction_proofs
```

### CapabilityStore and CapabilityManager

`CapabilityStore` has `epoch`, `revoked`, `useCount` as in the struct, the two
files and their temporary files, and for each concurrent caller (`Admins`) where
it is in `advance_epoch` or `revoke_token`. One step is one file-system call
(open and truncate, write, rename) or one critical section. `fs::write` and
`fs::rename` go through one temporary name per file, so a caller's descriptor
(`fd`) follows its inode when another caller renames the file away
(`MovedInodes`). `IoFault` lets a write or rename fail, with what the code does
then: `advance_epoch` returns the old epoch, `revoke_token` returns although its
list is not on disk. `Crash` loses the memory and keeps the files.

`CapabilityManager` adds the tokens and the validation pipeline: a validation is
a process that passes the static checks, the epoch (`CheckEpoch`), the list
(`CheckRevoked`), the clock (`CheckExpiry`) and the counter (`CountedUse` or
`UncountedUse`), one step each, because the code awaits a lock between them.
`delegate` is such a validation of the parent followed by `MintChild`. Tokens
are bearer objects and stay valid over `Restart`. Signature, issuer, version,
capsule, action and resource checks depend on the token and the request alone
and are folded into `StaticChecks`; the classification ceiling (check 11) ends a
call in the same way and is left out.

`vdead` is a history variable: what had ended the token's life *before* the
validation began. A token that dies while a validation is under way may be
accepted, in the model as in the code.

`RevocationPromise` is the abstract specification: a set of dead tokens that only
grows, and checks that are doomed if they begin on a dead token. `KeepsPromise`
says that the manager implements it under `dead <- Dead`, `outcome <- OutcomeOf`.

### PendingRequests and CapabilityApi

A `create_request` takes and releases the two locks up to eight times, so each
creation is a process with a step per critical section: `BeginCreate` (capacity
guard), `FindExpired`, `MarkExpired`, `EvictOld`, `Unindex` (the sweep),
`Recheck`, `SessionCheck`, `Insert`, `PushIndex`. The other operations hold one
lock throughout and are operators (`GrantRequest`, `DenyRequest`,
`RevokeRequest`, `RevokeAllGranted`).

`CapabilityApi` composes them with three operations of the manager. An approval
looks and mints (`ApproveMint`), then records (`ApproveRecord`), which looks at
the status and the clock again. A revocation looks, revokes the token, marks the
request; a mass revocation advances the epoch (or fails to persist it, and goes
on all the same) and then marks the records. Ghosts record what was answered:
`handed`, `denials`, `ended`.

Here the manager's operations are single steps. That this is not always so is
the subject of the first two modules; the composition is about what happens
*between* the manager and the pending store.

### ReleaseJournal and ReleaseCoordinator

Every journal operation holds one file lock from its first to its last step, so
it is one step of the model, except when it is cut short: `CutShort` leaves a
temporary file (`residue`), before or after the record got its name. A new
record is linked into place, a replacement is renamed. Every operation starts
with the cleanup of what it finds, or fails (`Removable`).

`ReleaseCoordinator` has concurrent calls (`Callers`) that move through
`mark -> rights -> custody -> reconcile -> settle`, one step per journal
operation and per awaited provider call. Providers answer anything: one of
several Allowed decisions, a denial, an error, a response that does not
validate. A call can end between any two steps (`GiveUp`: a failed check or a
dropped future), journal operations fail (`JournalUnavailable`,
`CallUnavailable`), the process crashes, the signed statement of an operation
expires. Ghosts: `initial` (initial dispatches), `custody` (decisions that shares
were requested against), `denials`, `told` (terminal results given to callers).

`ReleasePromise` is the abstract specification: per operation, the effects begin,
decisions come to count (no node's twice), nodes deny, shares are asked for behind
a quorum or once there is a result, one result that those actions support is
settled, and only it is told. Calls, replays, resumes, temporary files and crashes
are not in it. `SettlesAsPromised` says that the coordinator implements it, with
`begun`, `decided` and `outcome` read off the records.

### InstallTransaction and its two owners

`InstallTransaction` is `install_transaction.rs` with its `support.rs`: the items
are the release files in their fixed order and one tree (or file) of support
assets; for each there is what is installed (`live`), its candidate (`stage`) and
the copy of its original (`rollback`). An operation checks its guards and writes
the journal in one step (`Prepare`, `Activate`, `Commit`, `BeginRecovery`, ...)
and leaves a `task`, whose steps are single renames or removals in the order of
the code (`StageItem`, `CommitItem`, `RestoreItem`, `DropSupportScratch`, ...).
The code syncs the directory after each rename, so a rename that is lost with the
power is the state before the step. The content checks by digest appear as what
they tell apart: a path holds the original, the candidate, nothing, a tree
removed in part, or something `foreign` that its owner has put there. The model
has one update from one release to the next.

`ReleaseSwitch` is what a transaction promises: from the previous release to the
candidate as a whole, or not at all. `SwitchesAtomically` says that the
transaction refines it, under the mapping that calls the release "changing" while
a journal is there.

`CommandLineUpdate` is the owner a terminal runs: `elastos update` with its
activated prefix, support refresh and migration, or `install-release`, which
commits at once. It is killed anywhere, an operation fails anywhere
(`TaskFails`), and it is run again. While no owner runs, files may be edited.

`UpdateController` is the other owner: the controller's places are the points
between its awaits and its calls of the transaction; `homes` are the Home
processes by generation, each reading the journal (`HomeAuthorizes`), then taking
the host lock (`HomeLocks`), and exiting whenever it likes; generation 0 is the
Home its owner starts by hand. `Claim` names a generation in the journal before
its process exists, `RecordStarted` is the receipt. The controller crashes
anywhere and leaves its Home behind; the next one reconciles from the journal, the
request file and the host lock.

### ReplayStore, ProviderBridge and CustodyNode

`ReplayStore` is the release path of `replay_store.rs` with its file lock:
`Open` and the purge of expired records, then `Replay`, `Refuse` or `WriteClaim`,
and from there `CommitClaim`, `Produce`, `CommitResult`, one step for each write
of the temporary file and each rename. `StoreFails` lets each of them fail, on
either side of the rename. The time `now` is read when the request arrives and
used after the lock was awaited, as in the code; a stored contribution may
therefore be younger than `now`, and is replayed if it is by at most the clock
skew that `validate_active` allows (`Skew`).

`ProviderBridge` is `bridge.rs`: a request is a task that outlives its caller
(`Leave`), takes the I/O lock by being the one that reads, writes a line and reads
a line. The host's start asks for `init` and `status`; a start that fails asks for
`shutdown`, awaits the exit, kills (`ShutdownAsked`, `WaitTimeout`, `StartFailed`).

`CustodyNode` composes them: the provider's loop takes a line from its stdin,
works on the store, writes a line. A host that crashes leaves the provider
running, with the lock it may hold, and the next host starts another on the same
file (`Starts`). Clients' calls come and go at any time. Ghosts: `sent` (what
releases have returned), the contribution's fields `id` (its production) and `at`
(when its process had the lock).

## 3. The runs

| Run | Instance | Distinct states | Checks |
|---|---|---|---|
| `serial` | 1 administrator, 2 validations, 1 token, epoch up to 1, 1 fault, 1 crash, clock up to 1 | 630 000 | types; mass and single revocations never forgotten by a validation that starts later; use limits until a restart; the list on disk never behind what was acknowledged; refinement of `RevocationPromise` |
| `overlap` | 2 administrators, 1 validation, 2 tokens, no fault or crash | 635 000 | a returned revocation binds in memory; the list on disk is complete once calls are over; a delegated child cannot be delegated on nor lives longer |
| `approvals` | 2 handlers, 2 requests, 2 tokens, 1 creation, clock up to 2, 1 mass revocation | 82 000 | one token per request, ended means dead, the list agrees with the authority at rest, a refusal is final |
| `flood` | 2 creations, 3 requests, 2 sessions, a store of 2 with 1 per session, 1 handler | 965 000 | by how much the store's limit and a session's can be exceeded, that the index misses no undecided request, that sweeps never undo a decision |
| `release` | 2 calls, 3 providers, threshold 2, 2 decisions per node, 2 operations and room for 1 record | 1 292 000 | dispatch bound, one outcome, shares only behind a recorded quorum, results grounded in what providers did, decisions stay; refinement of `ReleasePromise` |
| `update` | 3 files (one unchanged, one new), an activated prefix of 2, support assets as one file, 3 kills | 8 600 | types; the original of every item is kept until it is not needed; refinement of `ReleaseSwitch`; edits kept; an interrupted update ends |
| `restart` | 2 files, support assets as a tree, 3 generations, 1 crash or broken-off task, 2 attempts | 462 000 | files change with no Home beside; a Home under a claim runs on one release; no candidate after the roll-back; one Home; an update ends |
| `custody` | 2 starts of the host, 2 clients, 3 operations (two share a key), 2 decisions, room for 1 record, clock up to 2 | 1 058 000 | types and the store's limit; claims exclude a second contribution; answers are durable and go to the caller that asked; no endless wait |
| `epochs`, `massfail`, `leftover`, `interrupted` | minimal | | each shows a disagreement between the code and its own documentation (section 4) |

Why the bounds are enough for the cases that matter: two administrators are what
it takes to race on a temporary file, one epoch or one list entry to lose; two
validations race for the last use of a token limited to one; one fault and one
crash can fall at any step, so every position of each is explored, as is a crash
after a fault. Two handlers give every order of two decisions on one request,
and a second request shows that they do not disturb each other; the clock has a
value before, at and after the timeout of 1. In `flood` the store's limit is two
and three ids exist, so two creations can both pass the guard and both sweeps
can evict. In `release` two calls with three nodes and a threshold of two have
every disagreement a node or a record can show: two different quorums, two
different decisions of one node, a denial beside a quorum. `MaxRecords = 1` with
two operations reaches the record limit. Journal faults and crashes are not
bounded there. In `update` an owner is killed, its successor in the recovery, and
that one's successor as well; the three files are all combinations of changed,
unchanged and new that an order of renames can tell apart, with one file on
either side of the prefix. In `restart` three generations are an initial Home, a
candidate and a restored previous one, beside one started by hand; one crash
falls at every place of the controller, with each of them alive or not. In
`custody` a second start is what it takes to have an orphan; the two clients are
the one that is cancelled and the one that must not get its line; the clock
passes the validity and the claim of the shorter operation, and `Skew` lets a
request that has waited be given a contribution younger than its `now`.

Bounds that cut behaviour off: `MaxEpoch`, `MaxFaults`, `MaxCrashes`, `MaxTime`,
`MaxClock`, `MaxStarts`, one edit and one update of the installation. The epoch's
bound stops mass revocations, not validations. The proofs of section 5 hold for
any value of these bounds. Symmetry is used over interchangeable callers, tokens,
requests, sessions, operations and decision versions only; no liveness is checked
under it. `CHECK_DEADLOCK FALSE` is set in the capability runs and in `custody`,
where the clock, the tokens, the epochs or the starts run out.

*Fairness.* Three specifications state it; the others claim no liveness, because
nothing in the modelled code promises that a request is decided or that a custody
node answers.

* `CommandLineUpdate`: the command, once started, takes its next step
  (`WF(Command)`: it is a sequential program over local files), and is run again
  when it was killed or refused (`WF(Run)`), which is what its messages ask of the
  owner. Kills are bounded. `RecoveryEnds` then says that no journal stays for
  ever, unless the owner has edited a file that the recovery would overwrite
  (`Edited`), or support assets or their scratch were removed in part
  (`Stranded`): there the code refuses on purpose, or as in run `interrupted`.
* `UpdateController`: the controller takes its steps and is started again by its
  supervisor (`WF(Controller)`; failures of its operations are actions outside of
  it, that may or may not happen); the owner runs `elastos update`, or the
  installer, where it is told to (`SF(Rescue)`: both begin by recovering under the
  host lock, `SV/update.rs:464` and `510`; strong because that lock comes and
  goes); a Home that
  was spawned makes up its mind about the journal and the lock (`WF(Process)`),
  and one whose controller is gone exits when it sees its pipe closed
  (`WF(HomeExits)` for orphans only). A Home of the controller's and one started by
  hand may run for ever. `UpdateEnds` excludes what the code leaves to the owner
  by name: a claim without a receipt (`Unreceipted`), a Home of the owner's own
  that holds the host lock, a stranded transaction; and the bound on generations.
* `CustodyNode`: the host's own steps and timers, its detached tasks, and the
  kernel that reaps a killed process. Nothing is asked of the provider, which may
  hang for ever, nor of the clients. `NoEndlessWait` says that a start of the host
  ends all the same, and that nobody waits for a process that is gone.

Four further configurations are run by hand; they show the observations at the
end of section 4: `MCCapability_lists`, `MCCapability_once`, `MCRelease_replay`
and `MCUpdate_stale` each end in a counterexample.

## 4. Where the code and its documentation disagree

* `epochs` - `advance_epoch` (`RT/capability/store.rs:79`) is load, write, rename,
  store with nothing held. Two overlapping mass revocations, with a third that
  completes in between, leave a smaller epoch stored over a larger one, and
  tokens of an epoch already revoked are accepted again.
* `massfail` - when the epoch cannot be persisted, `revoke_all_capabilities`
  (`SV/api/handlers/capability.rs:548`) marks the records as revoked and answers
  success although every token is still accepted.
* `leftover` - a replacement of a journal record that is interrupted before its
  rename leaves a file that `cleanup_temp_entry` (`PC/journal.rs:651`) will not
  remove, and every later operation of the journal fails.
* `interrupted` - the cleanup of a transaction (`SV/install_transaction.rs:1361`)
  removes the scratch of the support assets before the journal. Killed in between,
  it leaves a journal that lists support entries whose scratch is gone, and every
  recovery, the one its own message asks for included, refuses.

Observations, where no document says otherwise or the code's authors may well
mean it so:

* `lists` - two revocations persist the list at once through one temporary file
  (`RT/capability/store.rs:231`), so for a while the file on disk is truncated, and
  a crash then revives a revoked token. Once both calls are over the file is
  complete again (`RevocationsDurableAtRest` in `overlap`).
* `once` - use counters are in memory only: a token "valid for one use only" is
  accepted once per run of the runtime. Until a restart the limit holds
  (`UseLimitBetweenRestarts`, also proved).
* `replay` - once decisions are on record, an exact replay of `release` is
  refused as a conflict (`PC/journal.rs:576`), not answered as nonterminal.
* `stale` - a Home that has read the journal before an update began takes the
  host lock after it (`SV/host_lock.rs:87`) and runs under a transaction that names
  another generation. `QuietSwitch` and `WholeUnderClaim` show that it never runs on
  a mixture of files: whoever changes them holds the lock or waits for it.
* The custody provider reads `now` before it waits for its lock. Beside the
  orphaned provider of a crashed host, a request that was validated before the
  claim expired can be served after it, with a second contribution.
  `ClaimsExclude` counts from when the lock was obtained and holds.
* The provider's request tasks have no timeout of their own: a provider that
  hangs on one line blocks the bridge for all later callers until the host ends.
  `NoEndlessWait` holds because it speaks of starts and of processes that are gone.

## 5. The proofs

Eight modules hold theorems. They hold for any number of tokens, callers,
validations, requests, sessions, operations, providers, files, generations, host
starts, errors and crashes; the assumptions are those of the modules (limits are
numbers, the markers for "nothing" are not values of the types they are added to,
a threshold is between 1 and the number of providers, the creations that are
served at a time are finitely many), and where a theorem needs one of its own it
is named in its statement.

**CapabilityManager_proofs.** `TypeCorrect` comes first. Three inductive
invariants give three theorems without any assumption about overlap:
`RevocationInv` (a returned revocation, and the target of one under way, is in
the list; a validation that began after it is still before the list check)
yields `RevokedNeverAccepted`; `ExpiryInv` yields `ExpiredNeverAccepted`;
`UseInv` (until the first crash the counters agree with the uses) yields
`UsesBounded`. What the files promise is true only of calls that do not overlap,
as `epochs` and `lists` show, so the remaining theorems assume `OneAdmin`.
`StoreSerial` relates each step of a file replacement to the memory it will
change (`epoch <= epochFile`, a temporary file that is about to be renamed holds
the new value), and `SerialInv` adds the validations. They yield
`MassRevokedNeverAccepted`, `AckedRevocationsNeverRevive`,
`RevocationsAlwaysDurable` and `EpochAlwaysDurable`. `Implements` proves the
refinement of `RevocationPromise`: `DeadGrows` (no step revives a token),
`OutcomeStep` (what a step does to each validation's outcome) and `PromiseStep`
map each step to a step of the promise or a stutter.

Two more theorems are about calls that do overlap. `OverlapInv` yields
`RevocationsDurableAfterOverlap`: while nothing has failed, a temporary list is
whole unless somebody who has truncated it is about to write it (`TempInv`), and
the list on disk covers what was acknowledged unless a call whose file was renamed
away under it is still to write it (`ListInv`). At rest neither exception is left.
`DelegationAlwaysAttenuates` is an action property: `ChildNarrower` says what is
minted for a child (with `EarlierFacts` on the earlier of two expiries), and that
no other step mints for a validation.

**CapabilityApi_proofs.** `DecidedOnce` (what was answered as granted or denied
was created and is no longer pending) makes `OneTokenPerRequest` and
`DeniedNotHanded` inductive: theorems `OneTokenEver` and `DenialsHold`.
`GrantsHanded` (a granted record's token was handed out with it, and was minted
at an epoch not after the present one), `HandlersKnow` (what a handler under way
remembers is what it did) and `EndedDead` make `RevokedIsDead` inductive:
theorem `EndedStaysDead`. For the two action properties, `Moves` says what any
step may do to one request, and `SweptExpired` that what a sweep is about to mark
has expired and cannot have been granted since, because a grant looks at the
clock under the lock: theorems `DecisionsAlwaysStand` and `RefusalsFinal`.

`IndexInv` follows an undecided request through the index: what a creation has
inserted and not indexed yet is of its own session, and what a sweep is about to
take out of the index was evicted (`IndexMoves`, from `Moves`): theorem
`IndexAlwaysComplete`. `CapacityInv` is the bound itself over a finite store: what
a step adds to the store it takes from the creations ahead of their insertion
(`Ahead`), and one that joins them has found room. A session's limit is counted
from the index, which lags behind the store: `Uncounted` bounds what it misses by
the creations about to index (`Indexing`), by `IndexInv`, and `SessionBoundStep`
adds that these and the ones that have passed the guard (`Passed`) are different
creations; theorem `CapacityAlwaysBounded`, for both limits, from the library's
facts about finite sets. `ActiveInv` yields `ListingAlwaysTrue`,
the deepest of this module: a token is handed out for one request (`TokensOnce`),
what is revoked was handed out (`RevokedHanded`), a token that is about to be
recorded is live (`RecordLive`), and a record that is listed and dead is accounted
for, by a mass revocation that has advanced the epoch and not marked the records
yet (`MassInv`) or by a revocation by id that is about to mark it (`Listing`). Each
handler action has a lemma (`...Active`); `SteadyActive` and `GrantsSame` dispose
of the steps that touch neither tokens nor records.

**ReleaseCoordinator_proofs.** The inductive invariant is `TypeOK` with
`CallsOnRecord` (a call past the mark is about a started record), `OffersMade`
(a call about to settle has an offer), `EffectsRecorded` and `ToldOnRecord`
(what a caller was told is on record). `RecordsGrow` says that no journal step,
cut short or not, takes back a start, a terminal result or, before the
settlement, a decision. They yield `ReleaseTypeCorrect`,
`EffectsAlwaysFollowRecord`, `OneOutcomeEver` and `DecisionsAlwaysStay`.

**ReleaseQuorum_proofs** follows the decisions themselves, from the answer of a
node through the merge in the journal to the offer that settles. The difficulty
is that the code counts decisions where the property speaks of nodes: `Single`
(no node has decided twice in a set that was merged) is what makes the two counts
equal (`SingleCounts`, from the library's facts about finite sets). `RecordsSound`
says it of the records, `CallsSound` of what calls remember: the decisions a call
goes by are on record until there is a result, its shares are of such decisions,
its offer is grounded. With `SharesNeedQuorum` itself they are inductive:
`SharesAlwaysNeedQuorum`, `OutcomesAlwaysGrounded`. `DispatchesBounded` counts the
dispatches together with the calls that may still mark, for a finite set of
callers. `ReleasesSettleAsPromised` proves the refinement of `ReleasePromise` from
the same invariant: `ViewWritten` says how a written record changes what the
promise sees, one lemma (`Kept...`) maps each kind of write, provider call and
answer to the promise's step, and everything else is a stutter. That decisions
never count twice for a node is `Single`, that a result is supported is
`Grounded`, and that a share is asked for behind a quorum is `CallsSound` of the
call that asks.

**InstallTransaction_proofs and CommandLineUpdate_proofs.** The first holds
what each operation of the transaction keeps, whoever its owner is:
`TaskInPhase` (a task is the work of one phase of the journal) and `LastCopy` (in
which phases every original has its copy, and that scratch is dropped after a
roll-back only once all originals are back). The second adds what the
command-line owner adds to it, edits included, and yields `UpdateTypeCorrect`,
`RollbackAlwaysKept`, `EditsAlwaysKept` and the refinement of `ReleaseSwitch`,
`UpdateSwitchesAtomically`. The refinement assumes `Same # Files`: of two equal
releases it could not be said which one is installed.

**UpdateController_proofs** uses the same lemmas. Its invariant has four parts,
each useless alone: who holds the host lock (`LockInv`: a Home runs exactly
while it holds it), what the controller knows at each of its places (`PlaceInv`,
`TaskInv`), what the journal says of the disk (`JournalInv`: a committed journal
is the candidate as a whole, a restored one the previous release) and what it
says of the Home processes that were started under a claim (`StartedInv`: each
is the one the journal names, or it holds the host lock and nothing has been
installed since, the journal being absent, without a restart record or still
Prepared; `ClaimedInv`: it has the claimed binary, it is
the controller's child while there is a controller past its reconciliation, and
a receipt of readiness means that it holds the lock; `CandidateInv`: one that runs
the new release is there only while that is installed). They yield
`SwitchesAlwaysQuiet`, `AlwaysWholeUnderClaim`, `NeverCandidateAfterRollback` and
`AlwaysOneHome`, and that this owner too keeps the copies
(`ControllerKeepsRollback`). The argument for `SwitchesAlwaysQuiet`: files move
only in a commit or a roll-back; both begin with the lock in the controller's
hand; a Home started under a claim would have to hold it, or be named by the
journal, which a commit's journal never does and a roll-back's only after the
named process was seen to be gone.

`ControllerSwitchesAtomically` is the refinement of `ReleaseSwitch` by this owner
(again with `Same # Files`). Beyond the invariant it needs to know what the
journal has of the support assets (`SupportInv`: without an entry they are
untouched, and from the plan of a restart on the entry is there if the update has
support); each step then leaves the journal, rewrites its phase or its restart
record only, begins it, adds the support entry or drops it (`Steps`), and of these
only the ones that change what the journal commits to change the abstract state.

**CustodyNode_proofs.** The store's half of the invariant (`StoreInv`) says what
the file is (`GoodFile`: no two records that exclude each other, never more than
the limit), what whoever has the lock knows (`HolderInv`, `JobInv`), that what was
returned is in the file while it is claimed (`Covers`), and that nothing that was
returned excludes what is being produced (`Excluded`). The bridge's half
(`PipeInv`) says that each line in a pipe is its caller's: one reader, and the
pipes empty but for its request (`GoodCall`, `OneReader`). The clock is assumed
monotone, as in the model. They yield `NodeTypeCorrect`, `ClaimsAlwaysExclude`,
`AnswersAlwaysDurable` and `AnswersAlwaysOwn`.

`ExpiredNeverAccepted`, `EpochAlwaysDurable`, `DenialsHold`,
`EffectsAlwaysFollowRecord` (which `SettlesAsPromised` covers for what was done, not
for calls that are about to) and `ControllerKeepsRollback` are proved although no
run lists their property.

*Model-checked only*: the liveness properties `RecoveryEnds`, `UpdateEnds` and
`NoEndlessWait`. Liveness under fairness, `ENABLED` and what a recursive definition
computes are beyond the prover. Every invariant, action property and refinement
that a passing run checks is stated by a theorem.

## 6. What the models leave out

* The clock never runs backwards, and two readings in one critical section are
  the same.
* Power loss. The install transaction syncs the directory after each rename, so
  there a lost rename is the state before the step. The release journal syncs as
  well, but a rename whose sync failed or was never reached is visible to the next
  operation and can still be lost (`PC/journal.rs:743`). The model has process
  crashes and I/O errors there, no power failure within that window.
* The pending store is in memory only: after a restart all requests are gone
  while tokens live on. `CapabilityApi` has no restart, since it would only
  empty the store.
* A full store evicts granted requests that are a second old: their tokens live
  on, listed nowhere. `ListedIsActive` speaks of stored requests for that reason.
* `delegate` mints the child at the current epoch, so a child can outlive a mass
  revocation that killed its parent while the delegation was under way.
  `DelegationAttenuates` covers depth and expiry only.
* Two calls of `release` for one operation that both find it unstarted both
  dispatch; `DispatchBound` bounds this by the number of calls, and
  `SharesNeedQuorum` says nothing once the operation is settled: shares may be
  requested by a call that a concurrent denial has overtaken. `OneOutcome` shows
  that they cannot become the outcome.
* Of the install transaction: journals and scratch of older layouts, the
  comparison of contents by digest (a path holds what it holds), discovery,
  download and signatures of releases, what the support refresh does beyond its
  success or failure, and a second update after the first. The host lock is
  exclusive and released by the kernel with its process.
* An `elastos update` beside a controller: it recovers under the host lock first
  (`Rescue`), then downloads, and only then begins a transaction of its own. If a
  controller leaves a journal without a restart record within that download, the
  second recovery (`SV/update.rs:1511`) meets it without the host lock. Under such
  a journal the installed items are all the original or all the candidate's, so
  that recovery changes none of them.
* Of the controller: progress and status files, the pid checks behind "the
  process is gone", and how long it waits. A wait may end at any time.
* Of the custody node: the other rights operations of the provider, its
  provisioning, the reconstruction of the key, registry unregistration, the local
  model broker and macOS run bindings of the bridge. The release path is whole.
* Cryptography, encodings, permissions and corruption checks. A check that can
  fail for such a reason is a step that may fail (`GiveUp`, `StoreFails`).
* Components marked `not_modelled` in `PROJECT.json`, with the reason there.

## 7. Plan

What would come next, the most consequential behaviour first:

1. The provider registry over the bridge: unregistration while requests are in
   flight, the in-progress flags of calls that are cancelled between two awaits.
2. `MintJournal`: effects of minting and their recovery, beside the release
   journal (shared operators for both journals).
3. `SessionRegistry`: three maps, three locks, invalidation racing creation.
4. `MessagingChannel` (bounded queues, close racing send); `DirectMessages`
   (delivery, retry, deduplication); the challenges of the login.
5. `CustodyNode` behind `ReleaseCoordinator`, over a network that loses and repeats
   calls, in place of providers that answer anything.
6. An abstract specification of a custody node (claims that exclude each other, one
   answer per claim) that `CustodyNode` implements, and one of an approval (one
   decision, one token, one end) for `CapabilityApi`, with their proofs.

Each new component gets one passing run that fires all of its actions and at
most one run for a disagreement with its documentation.
