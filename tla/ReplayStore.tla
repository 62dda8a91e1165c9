------------------------------ MODULE ReplayStore ------------------------------
(***************************************************************************)
(* elastos-protected-content-custody/src/replay_store.rs: the file in      *)
(* which a custody node keeps what it has released.  A release claims its  *)
(* replay keys on disk, produces the node's contribution with fresh        *)
(* randomness, stores it with the claim and only then returns it; a retry  *)
(* of the same operation is given the stored one.  All of it runs under an *)
(* exclusive file lock, which a process loses only by ending.              *)
(***************************************************************************)
EXTENDS Naturals, FiniteSets

CONSTANTS Processes,     \* provider processes that may open the store
          Operations,    \* authenticated release operations
          Decisions,     \* signed rights decisions
          Marks,         \* an operation's two replay keys and its audit id
          ValidUntil,    \* when its request or decision expires
          ClaimedUntil,  \* when the later of its two requests expires
          Skew,          \* RIGHTS_CLOCK_SKEW_SECS
          MaxRecords     \* MAX_NODE_RELEASE_RECORDS
ASSUME StoreAssumption ==
    /\ ValidUntil \in [Operations -> Nat] /\ ClaimedUntil \in [Operations -> Nat]
    /\ \A o \in Operations : ValidUntil[o] <= ClaimedUntil[o]
    /\ MaxRecords \in Nat /\ Skew \in Nat
ASSUME MarksAssumption == \A o \in Operations : Marks[o] # {}

VARIABLES clock,     \* now_unix_seconds()
          records,   \* the store's file, as last renamed into place
          temp,      \* a temporary file lies beside it
          lock,      \* the processes that hold the store's lock
          job,       \* process -> what it is doing
          sent,      \* contributions that a release has returned
          made       \* contributions produced so far
storeVars == <<clock, records, temp, lock, job, sent, made>>

\* A contribution with its issue time.  Two fields are for the properties: `id`
\* tells one production from the next (their randomness differs), `at` is when
\* its process had obtained the lock.
Contribution ==
    [op : Operations, decision : Decisions, issued : Nat, id : Nat, at : Nat]
\* StoredNodeReleaseRecordV1: a record without a result is a claim only.
Record == [op : Operations, result : SUBSET Contribution]

Steps == {"idle", "locking", "claiming", "producing", "storing", "replying"}
Answer == [ok : BOOLEAN, given : SUBSET Contribution]
Failure == [ok |-> FALSE, given |-> {}]
Given(c) == [ok |-> TRUE, given |-> {c}]

IdleJob == [step |-> "idle", request |-> {}, now |-> 0, at |-> 0, view |-> {},
            answer |-> Failure, last |-> FALSE]

StoreInit ==
    /\ clock = 0 /\ records = {} /\ temp = FALSE /\ lock = {}
    /\ job = [p \in Processes |-> IdleJob]
    /\ sent = {} /\ made = 0

At(p, step) == job[p].step = step
Wanted(p) == CHOOSE r \in job[p].request : TRUE
Op(p) == Wanted(p).op
To(p, step) == [job[p] EXCEPT !.step = step]
Replying(answer) == [IdleJob EXCEPT !.step = "replying", !.answer = answer]

\* any_active
Active(r, now) == now < ClaimedUntil[r.op]
\* has_conflicting_active_record
Conflicts(r, o) == Marks[r.op] \cap Marks[o] # {}
\* find_exact_record_index
Exact(view, o) == {r \in view : r.op = o}
\* Mutant: the cap is compared before the claim is pushed.
Full_before(view) == Cardinality(view) > MaxRecords
Full(view) == Cardinality(view) >= MaxRecords
\* Mutant: the second write does not carry the contribution.
WithResult_kept(view, c) == view
WithResult(view, c) ==
    (view \ Exact(view, c.op)) \union {[op |-> c.op, result |-> {c}]}

-----------------------------------------------------------------------------
\* A release request is validated at the time its handler has read on entry.
BeginRelease(p, r) ==
    /\ job' = [job EXCEPT ![p] =
           IF clock < ValidUntil[r.op]
           THEN [IdleJob EXCEPT !.step = "locking", !.request = {r}, !.now = clock]
           ELSE Replying(Failure)]
    /\ UNCHANGED <<clock, records, temp, lock, sent, made>>

\* Mutant: the store is read without its lock.
Open_unlocked(p) == At(p, "locking")

\* The lock is free: a leftover temporary file is removed and the state is read.
Open(p) == At(p, "locking") /\ lock = {}
View(p) == {r \in records : Active(r, job[p].now)}

\* replay_exact_contribution: the stored contribution, if it is for this decision
\* and validate_active accepts its issue time, which may be later than `now` when
\* the lock was awaited.  That it has not expired was found with the request.
Stored(p) ==
    {c \in UNION {r.result : r \in Exact(View(p), Op(p))} :
        c.decision = Wanted(p).decision /\ c.issued <= job[p].now + Skew}

Replay(p) ==
    /\ Open(p) /\ temp' = FALSE
    /\ Exact(View(p), Op(p)) # {}
    /\ job' = [job EXCEPT ![p] = Replying([ok |-> Stored(p) # {}, given |-> Stored(p)])]
    /\ sent' = sent \union Stored(p)
    /\ UNCHANGED <<clock, records, lock, made>>

\* Another operation holds one of the keys, or there is no room.
Refused(p) == (\E r \in View(p) : Conflicts(r, Op(p))) \/ Full(View(p))
Refuse(p) ==
    /\ Open(p) /\ temp' = FALSE
    /\ Exact(View(p), Op(p)) = {} /\ Refused(p)
    /\ job' = [job EXCEPT ![p] = Replying(Failure)]
    /\ UNCHANGED <<clock, records, lock, sent, made>>

\* The claim is written to the temporary file.
WriteClaim(p) ==
    /\ Open(p) /\ temp' = TRUE /\ lock' = {p}
    /\ Exact(View(p), Op(p)) = {} /\ ~Refused(p)
    /\ job' = [job EXCEPT ![p] = [To(p, "claiming") EXCEPT !.at = clock,
                  !.view = View(p) \union {[op |-> Op(p), result |-> {}]}]]
    /\ UNCHANGED <<clock, records, sent, made>>

Rename(p) == records' = job[p].view /\ temp' = FALSE
CommitClaim(p) ==
    /\ At(p, "claiming") /\ Rename(p)
    /\ job' = [job EXCEPT ![p] = To(p, "producing")]
    /\ UNCHANGED <<clock, lock, sent, made>>

\* produce_node_contribution, and its record written to the temporary file.
Produced(p) == [op |-> Op(p), decision |-> Wanted(p).decision,
                issued |-> job[p].now, id |-> made + 1, at |-> job[p].at]
Produce(p) ==
    /\ At(p, "producing") /\ ~temp /\ temp' = TRUE /\ made' = made + 1
    /\ job' = [job EXCEPT ![p] = [To(p, "storing") EXCEPT
                  !.view = WithResult(job[p].view, Produced(p)),
                  !.answer = Given(Produced(p))]]
    /\ UNCHANGED <<clock, records, lock, sent>>

CommitResult(p) ==
    /\ At(p, "storing") /\ Rename(p) /\ lock' = {}
    /\ job' = [job EXCEPT ![p] = Replying(job[p].answer)]
    /\ sent' = sent \union job[p].answer.given
    /\ UNCHANGED <<clock, made>>

\* The share or the store cannot be read, a write fails before or after its
\* rename, or the production does.
StoreFails(p) ==
    /\ job[p].step \in {"locking", "claiming", "producing", "storing"}
    /\ \/ UNCHANGED <<records, temp>>
       \/ job[p].step \in {"claiming", "storing"} /\ Rename(p)
    /\ job' = [job EXCEPT ![p] = Replying(Failure)]
    /\ lock' = lock \ {p}
    /\ UNCHANGED <<clock, sent, made>>

StoreStep(p) ==
    \/ Replay(p) \/ Refuse(p) \/ WriteClaim(p) \/ CommitClaim(p)
    \/ Produce(p) \/ CommitResult(p) \/ StoreFails(p)

\* The process ends where it is: its lock is free, its files stay.
Ended(p) ==
    /\ job' = [job EXCEPT ![p] = IdleJob]
    /\ lock' = lock \ {p}
    /\ UNCHANGED <<clock, records, temp, sent, made>>
=============================================================================
