--------------------------- MODULE CustodyNode_proofs ---------------------------
(***************************************************************************)
(* Theorems about a custody node, for any number of operations, calls and  *)
(* host starts: type correctness, the exclusion of claims, the durability  *)
(* of what was returned, and that a caller is given its own answer.        *)
(***************************************************************************)
EXTENDS CustodyNode, FiniteSetTheorems, TLAPS

-----------------------------------------------------------------------------
(* The store. *)

Held == {"claiming", "producing", "storing"}
Busy == Held \union {"locking"}
Rec(c) == [op |-> c.op, result |-> {c}]
Results(R) == UNION {r.result : r \in R}
Kept == sent \union Results(records)
Clash(o, q) == Marks[o] \cap Marks[q] # {}

\* A claim, or a claim with the contribution made for it.
WholeRecords(R) == \A r \in R : r.result = {} \/ \E c \in r.result : r = Rec(c)
NoClash(R) == \A r, s \in R : Clash(r.op, s.op) => r = s
Small(R) == IsFiniteSet(R) /\ Cardinality(R) <= MaxRecords
GoodFile(R) == R \in SUBSET Record /\ WholeRecords(R) /\ NoClash(R) /\ Small(R)
\* What has been returned and is still claimed is in R.
Covers(R) == \A c \in sent : clock < ClaimedUntil[c.op] => Rec(c) \in R

\* A process that works on a release has one request, read in the past.
JobInv(p) ==
    /\ At(p, "idle") => job[p] = IdleJob
    /\ job[p].step \in Busy => \E r \in Requests : job[p].request = {r}
    /\ job[p].now <= clock
    /\ job[p].step \in Held <=> p \in lock
\* A process that holds the lock knows all that has been returned, and what it
\* claims clashes with nothing that was claimed when it obtained the lock.
HolderInv(p) ==
    p \in lock =>
      /\ GoodFile(job[p].view) /\ Covers(job[p].view)
      /\ \A c \in Results(job[p].view) :
            c \in Kept \/ (At(p, "storing") /\ c \in job[p].answer.given)
      /\ \A c \in Kept : Clash(c.op, Op(p)) => job[p].at >= ClaimedUntil[c.op]
      /\ job[p].step \in {"claiming", "producing"} =>
            [op |-> Op(p), result |-> {}] \in job[p].view
      /\ At(p, "storing") =>
            \E c \in job[p].answer.given :
               /\ job[p].answer = Given(c) /\ Rec(c) \in job[p].view
               /\ c.op = Op(p) /\ c.decision = Wanted(p).decision
               /\ c.at = job[p].at /\ c.id <= made
               /\ \A k \in Kept : k.id < c.id

LockInv == \A p, q \in lock : p = q
Excluded ==
    /\ \A c \in Kept : c.id <= made
    /\ \A c, d \in Kept :
          (c.id < d.id /\ Clash(c.op, d.op)) => d.at >= ClaimedUntil[c.op]

Job == [step : Steps, request : SUBSET Requests, now : Nat, at : Nat,
        view : SUBSET Record, answer : Answer, last : BOOLEAN]
StoreType ==
    /\ clock \in 0 .. MaxClock /\ temp \in BOOLEAN /\ made \in Nat
    /\ records \in SUBSET Record /\ lock \in SUBSET Processes
    /\ sent \in SUBSET Contribution /\ job \in [Processes -> Job]

StoreInv ==
    /\ StoreType
    /\ LockInv /\ GoodFile(records) /\ Covers(records) /\ Excluded
    /\ \A p \in Processes : JobInv(p) /\ HolderInv(p)

-----------------------------------------------------------------------------
(* The pipes. *)

Fits(answer, r) == \A g \in answer.given : g.op = r.op /\ g.decision = r.decision

Empty(p) == inbox[p] = <<>> /\ outbox[p] = <<>> /\ At(p, "idle")

\* The request r is on its way to p, worked on, answered or lost with p.
Pending(p, r) ==
    \/ inbox[p] = <<r>> /\ outbox[p] = <<>> /\ At(p, "idle")
    \/ inbox[p] = <<>> /\ outbox[p] = <<>> /\ job[p].step \in Busy /\ job[p].request = {r}
    \/ inbox[p] = <<>> /\ outbox[p] = <<>> /\ At(p, "replying") /\ Fits(job[p].answer, r)
    \/ inbox[p] = <<>> /\ At(p, "idle") /\ outbox[p] # <<>>
          /\ Tail(outbox[p]) = <<>> /\ Fits(Head(outbox[p]), r)
    \/ Empty(p) /\ proc[p] = "gone"

CallRecord == [caller : Callers, task : Tasks, request : SUBSET Lines, answer : Answer]
\* A call has one request as long as its task lasts, and only its own answer.
GoodCall(k) ==
    /\ k \in CallRecord
    /\ k.task # "none" => \E r \in Lines : k.request = {r}
    /\ k.caller = "idle" => k = Silent
    /\ k.answer.given # {} => \E r \in k.request : Fits(k.answer, r)

BridgeType ==
    /\ host \in HostPlaces /\ child \in Starts \union {0} /\ proc \in [Starts -> ProcStates]
    /\ call \in [Calls \union Controls -> CallRecord]
    /\ inbox \in [Starts -> Seq(Lines)] /\ outbox \in [Starts -> Seq(Answer)]

ReaderOf(c) == call[c].task = "reading"
AllCalls == Calls \union Controls
OneReader == \A c, d \in AllCalls : (ReaderOf(c) /\ ReaderOf(d)) => c = d
\* A control that the host has yet to ask has no task.
Unasked ==
    /\ host = "down" => \A c \in AllCalls : call[c].task = "none"
    /\ host = "init" => call["status"].task = "none"
    /\ host \in {"init", "status"} => call["shutdown"].task = "none"
Unused ==
    \A p \in Starts :
       /\ proc[p] = "unborn" => Empty(p)
       /\ proc[p] = "gone" => inbox[p] = <<>> /\ At(p, "idle")
\* The lines in the pipes are those of the one call that is read for.
ChildInv ==
    host # "down" =>
      /\ child \in Starts /\ proc[child] # "unborn"
      /\ (\A c \in AllCalls : ~ReaderOf(c)) => Empty(child)
      /\ \A c \in AllCalls : \A r \in call[c].request :
            ReaderOf(c) => Pending(child, r)

PipeInv ==
    /\ BridgeType
    /\ \A c \in AllCalls : GoodCall(call[c])
    /\ OneReader /\ Unasked /\ Unused /\ ChildInv

IInv == StoreInv /\ PipeInv
-----------------------------------------------------------------------------
(* Facts about requests and jobs. *)

LEMMA RequestTypes == \A r \in Requests : r.op \in Operations /\ r.decision \in Decisions
                                         /\ r.op \notin Controls
  BY NodeAssumption

LEMMA JobTypes ==
  /\ Failure \in Answer /\ Failure.given = {}
  /\ IdleJob \in Job /\ IdleJob.step = "idle" /\ IdleJob.now = 0
  /\ \A a \in Answer : /\ Replying(a) \in Job /\ Replying(a).step = "replying"
                        /\ Replying(a).now = 0 /\ Replying(a).answer = a
  BY DEF Answer, Failure, IdleJob, Job, Steps, Replying

LEMMA LastJobs ==
  \A a \in Answer : \A x \in BOOLEAN :
     /\ [Replying(a) EXCEPT !.last = x] \in Job
     /\ [Replying(a) EXCEPT !.last = x].step = "replying"
     /\ [Replying(a) EXCEPT !.last = x].now = 0
     /\ [Replying(a) EXCEPT !.last = x].answer = a
  BY JobTypes DEF Job, Replying, IdleJob

\* A field of a job is changed, the others stay.
LEMMA StepJobs ==
  \A k \in Job : \A s \in Steps :
     LET m == [k EXCEPT !.step = s]
     IN  /\ m \in Job /\ m.step = s /\ m.request = k.request /\ m.now = k.now
         /\ m.at = k.at /\ m.view = k.view /\ m.answer = k.answer
  BY DEF Job

LEMMA RequestJobs ==
  \A k \in Job : \A R \in SUBSET Requests :
     LET m == [k EXCEPT !.request = R]
     IN  m \in Job /\ m.step = k.step /\ m.request = R /\ m.now = k.now
  BY DEF Job

LEMMA TimeJobs ==
  \A k \in Job : \A t \in Nat :
     LET m == [k EXCEPT !.now = t]
     IN  m \in Job /\ m.step = k.step /\ m.request = k.request /\ m.now = t
  BY DEF Job

LEMMA AtJobs ==
  \A k \in Job : \A t \in Nat :
     LET m == [k EXCEPT !.at = t]
     IN  m \in Job /\ m.step = k.step /\ m.request = k.request /\ m.now = k.now /\ m.at = t
  BY DEF Job

LEMMA ViewJobs ==
  \A k \in Job : \A V \in SUBSET Record :
     LET m == [k EXCEPT !.view = V]
     IN  /\ m \in Job /\ m.step = k.step /\ m.request = k.request /\ m.now = k.now
         /\ m.at = k.at /\ m.view = V
  BY DEF Job

LEMMA AnswerJobs ==
  \A k \in Job : \A a \in Answer :
     LET m == [k EXCEPT !.answer = a]
     IN  /\ m \in Job /\ m.step = k.step /\ m.request = k.request /\ m.now = k.now
         /\ m.at = k.at /\ m.view = k.view /\ m.answer = a
  BY DEF Job

LEMMA LockingJobs ==
  ASSUME NEW r \in Requests, NEW t \in Nat
  PROVE  LET j == [IdleJob EXCEPT !.step = "locking", !.request = {r}, !.now = t]
         IN  j \in Job /\ j.step = "locking" /\ j.request = {r} /\ j.now <= t
<1>1. "locking" \in Steps /\ IdleJob \in Job /\ {r} \in SUBSET Requests
  BY JobTypes DEF Steps
<1> DEFINE k == [IdleJob EXCEPT !.step = "locking"]
           m == [k EXCEPT !.request = {r}]
           n == [m EXCEPT !.now = t]
<1>2. k \in Job /\ k.step = "locking"
  BY <1>1, StepJobs, Zenon
<1> HIDE DEF k
<1>3. m \in Job /\ m.step = "locking" /\ m.request = {r}
  BY <1>1, <1>2, RequestJobs, Zenon
<1> HIDE DEF m
<1>4. n \in Job /\ n.step = "locking" /\ n.request = {r} /\ n.now = t
  BY <1>3, TimeJobs, Zenon
<1> HIDE DEF n
<1>5. n = [IdleJob EXCEPT !.step = "locking", !.request = {r}, !.now = t]
  BY DEF n, m, k
<1> QED BY <1>4, <1>5

LEMMA OneWanted ==
  ASSUME NEW p \in Processes, NEW r, job[p].request = {r}
  PROVE  Wanted(p) = r /\ Op(p) = r.op
  BY DEF Wanted, Op

LEMMA WantedTypes ==
  ASSUME StoreInv, NEW p \in Processes, job[p].step \in Busy
  PROVE  /\ Wanted(p) \in Requests /\ job[p].request = {Wanted(p)}
         /\ Op(p) \in Operations /\ Op(p) = Wanted(p).op
         /\ Wanted(p).decision \in Decisions
  BY OneWanted, RequestTypes DEF StoreInv, JobInv, Op

LEMMA ContributionOps == \A c \in Contribution : c.op \in Operations /\ c.at \in Nat /\ c.id \in Nat
  BY DEF Contribution

LEMMA ClaimTimes == \A o \in Operations : ClaimedUntil[o] \in Nat
  BY StoreAssumption

LEMMA KeptTypes == ASSUME StoreType PROVE Kept \subseteq Contribution
  BY DEF StoreType, Kept, Results, Record

-----------------------------------------------------------------------------
(* The store's invariant, step by step. *)

LEMMA StoreStutter == StoreInv /\ UNCHANGED storeVars => StoreInv'
<1> SUFFICES ASSUME StoreInv, UNCHANGED storeVars PROVE StoreInv'
  OBVIOUS
<1>1. /\ clock' = clock /\ records' = records /\ temp' = temp /\ lock' = lock
      /\ job' = job /\ sent' = sent /\ made' = made
  BY DEF storeVars
<1>2. Kept' = Kept
  BY <1>1 DEF Kept
<1>3. StoreType' /\ LockInv' /\ GoodFile(records)' /\ Covers(records)' /\ Excluded'
  BY <1>1, <1>2 DEF StoreInv, StoreType, LockInv, GoodFile, Covers, Excluded
<1>4. ASSUME NEW p \in Processes PROVE JobInv(p)' /\ HolderInv(p)'
  <2>1. JobInv(p) /\ HolderInv(p)
    BY DEF StoreInv
  <2>2. JobInv(p)'
    BY <2>1, <1>1 DEF JobInv, At
  <2>3. HolderInv(p)'
    BY <2>1, <1>1, <1>2 DEF HolderInv, GoodFile, Covers, At, Op, Wanted
  <2> QED BY <2>2, <2>3
<1> QED BY <1>3, <1>4 DEF StoreInv

\* A step that touches neither the file nor what has been returned, after which
\* its process does not hold the lock.
Quiet(p, j) ==
    /\ j \in Job /\ job' = [job EXCEPT ![p] = j]
    /\ lock' = lock \ {p} /\ temp' \in BOOLEAN
    /\ clock' = clock /\ records' = records /\ sent' = sent /\ made' = made
    /\ j.step = "idle" => j = IdleJob
    /\ j.step \in Busy => \E r \in Requests : j.request = {r}
    /\ j.now <= clock /\ j.step \notin Held

LEMMA JobStep ==
  ASSUME StoreInv, NEW p \in Processes, NEW j, Quiet(p, j)
  PROVE  StoreInv'
<1> USE DEF Quiet
<1>1. Kept' = Kept
  BY DEF Kept
<1>2. StoreType'
  BY DEF StoreInv, StoreType
<1>3. LockInv' /\ GoodFile(records)' /\ Covers(records)' /\ Excluded'
  BY <1>1 DEF StoreInv, LockInv, GoodFile, Covers, Excluded
<1>4. job \in [Processes -> Job] /\ lock \in SUBSET Processes
  BY DEF StoreInv, StoreType
<1>5. ASSUME NEW q \in Processes PROVE JobInv(q)' /\ HolderInv(q)'
  <2>1. JobInv(q) /\ HolderInv(q)
    BY DEF StoreInv
  <2>2. CASE q = p
    <3>1. job'[q] = j /\ q \notin lock'
      BY <1>4, <2>2
    <3> QED BY <3>1 DEF JobInv, HolderInv, At
  <2>3. CASE q # p
    <3>1. job'[q] = job[q] /\ (q \in lock' <=> q \in lock)
      BY <1>4, <2>3
    <3>2. JobInv(q)'
      BY <3>1, <2>1 DEF JobInv, At
    <3>3. HolderInv(q)'
      BY <3>1, <2>1, <1>1 DEF HolderInv, GoodFile, Covers, At, Op, Wanted
    <3> QED BY <3>2, <3>3
  <2> QED BY <2>2, <2>3
<1> QED BY <1>2, <1>3, <1>5 DEF StoreInv

LEMMA TickInv == StoreInv /\ Tick => StoreInv'
<1> SUFFICES ASSUME StoreInv, Tick PROVE StoreInv'
  OBVIOUS
<1>1. /\ clock' \in 0 .. MaxClock /\ clock < clock' /\ clock \in Nat /\ clock' \in Nat
      /\ UNCHANGED <<records, temp, lock, job, sent, made>>
  BY NodeAssumption DEF Tick, StoreInv, StoreType
<1>2. Kept' = Kept /\ sent \subseteq Contribution
  BY <1>1 DEF Kept, StoreInv, StoreType
<1>4. StoreType' /\ LockInv' /\ GoodFile(records)' /\ Covers(records)' /\ Excluded'
  <2>1. Covers(records)'
    BY <1>1, <1>2, ContributionOps, ClaimTimes DEF StoreInv, Covers
  <2> QED BY <2>1, <1>1, <1>2 DEF StoreInv, StoreType, LockInv, GoodFile, Excluded
<1>5. ASSUME NEW p \in Processes PROVE JobInv(p)' /\ HolderInv(p)'
  <2>1. JobInv(p) /\ HolderInv(p) /\ job[p].now \in Nat
    BY DEF StoreInv, StoreType, Job
  <2>2. JobInv(p)'
    BY <2>1, <1>1 DEF JobInv, At
  <2>3. Covers(job[p].view) => Covers(job[p].view)'
    BY <1>1, <1>2, ContributionOps, ClaimTimes DEF Covers
  <2>4. HolderInv(p)'
    BY <2>1, <2>3, <1>1, <1>2 DEF HolderInv, GoodFile, At, Op, Wanted
  <2> QED BY <2>2, <2>4
<1> QED BY <1>4, <1>5 DEF StoreInv

LEMMA BeginReleaseInv ==
  ASSUME StoreInv, NEW p \in Processes, NEW r \in Requests, At(p, "idle"), BeginRelease(p, r)
  PROVE  StoreInv'
<1> DEFINE j == IF clock < ValidUntil[r.op]
                THEN [IdleJob EXCEPT !.step = "locking", !.request = {r}, !.now = clock]
                ELSE Replying(Failure)
<1>1. clock \in Nat /\ lock \ {p} = lock /\ temp \in BOOLEAN
  BY DEF StoreInv, StoreType, JobInv, Held, At
<1>2. j \in Job /\ j.step \in {"locking", "replying"} /\ j.now <= clock
      /\ (j.step = "locking" => j.request = {r})
  <2>1. CASE clock < ValidUntil[r.op]
    BY <2>1, <1>1, LockingJobs, Zenon
  <2>2. CASE ~(clock < ValidUntil[r.op])
    <3>1. j = Replying(Failure)
      BY <2>2
    <3> HIDE DEF j
    <3> QED BY <3>1, <1>1, JobTypes
  <2> QED BY <2>1, <2>2
<1>3. job' = [job EXCEPT ![p] = j] /\ UNCHANGED <<clock, records, temp, lock, sent, made>>
  BY DEF BeginRelease
<1> HIDE DEF j
<1>4. Quiet(p, j)
  BY <1>1, <1>2, <1>3 DEF Quiet, Busy, Held
<1> QED BY <1>4, JobStep

LEMMA AnswerControlInv ==
  ASSUME StoreInv, NEW p \in Processes, NEW r, At(p, "idle"), AnswerControl(p, r)
  PROVE  StoreInv'
<1>1. PICK ok \in BOOLEAN :
        job' = [job EXCEPT ![p] = [Replying([ok |-> ok, given |-> {}])
                                     EXCEPT !.last = (r.op = "shutdown")]]
  BY DEF AnswerControl
<1> DEFINE a == [ok |-> ok, given |-> {}]
           last == r.op = "shutdown"
           j == [Replying(a) EXCEPT !.last = last]
<1>2. clock \in Nat /\ lock \ {p} = lock /\ temp \in BOOLEAN
  BY DEF StoreInv, StoreType, JobInv, Held, At
<1>3. a \in Answer /\ last \in BOOLEAN
  BY DEF Answer
<1>4. job' = [job EXCEPT ![p] = j] /\ UNCHANGED <<clock, records, temp, lock, sent, made>>
  BY <1>1 DEF AnswerControl
<1> HIDE DEF a, last
<1>5. j \in Job /\ j.step = "replying" /\ j.now = 0
  BY <1>3, LastJobs, Zenon
<1> HIDE DEF j
<1>6. Quiet(p, j)
  BY <1>2, <1>4, <1>5 DEF Quiet, Busy, Held
<1> QED BY <1>6, JobStep

LEMMA RefuseInv == ASSUME StoreInv, NEW p \in Processes, Refuse(p) PROVE StoreInv'
<1>1. clock \in Nat /\ lock \ {p} = lock
  BY DEF StoreInv, StoreType, Refuse, Open
<1>5. temp' \in BOOLEAN
  BY Zenon DEF Refuse
<1>2. Replying(Failure) \in Job /\ Replying(Failure).step = "replying" /\ Replying(Failure).now = 0
  BY JobTypes
<1>3. job' = [job EXCEPT ![p] = Replying(Failure)] /\ UNCHANGED <<clock, records, lock, sent, made>>
  BY DEF Refuse
<1>4. Quiet(p, Replying(Failure))
  BY <1>1, <1>2, <1>3, <1>5 DEF Quiet, Busy, Held
<1> QED BY <1>4, JobStep

LEMMA EndedInv == ASSUME StoreInv, NEW p \in Processes, Ended(p) PROVE StoreInv'
<1>1. clock \in Nat /\ temp' \in BOOLEAN
  BY DEF StoreInv, StoreType, Ended
<1>2. job' = [job EXCEPT ![p] = IdleJob] /\ lock' = lock \ {p}
      /\ UNCHANGED <<clock, records, sent, made>>
  BY DEF Ended
<1>3. Quiet(p, IdleJob)
  BY <1>1, <1>2, JobTypes DEF Quiet, Busy, Held
<1> QED BY <1>3, JobStep

\* A step of p after which the lock is free and what the file and the answers
\* hold is as good as before.
Freed(p, j) ==
    /\ j \in Job /\ job' = [job EXCEPT ![p] = j]
    /\ lock \subseteq {p} /\ lock' = {} /\ temp' \in BOOLEAN
    /\ clock' = clock /\ made' = made /\ sent' \in SUBSET Contribution
    /\ GoodFile(records') /\ Covers(records)' /\ Excluded'
    /\ j.step = "replying" /\ j.now = 0

LEMMA FreedInv ==
  ASSUME StoreInv, NEW p \in Processes, NEW j, Freed(p, j)
  PROVE  StoreInv'
<1> USE DEF Freed
<1>1. StoreType'
  BY DEF StoreInv, StoreType, GoodFile
<1>2. LockInv' /\ GoodFile(records)' /\ Covers(records)' /\ Excluded'
  BY DEF LockInv, GoodFile, WholeRecords, NoClash, Small
<1>3. job \in [Processes -> Job] /\ clock \in Nat
  BY DEF StoreInv, StoreType
<1>4. ASSUME NEW q \in Processes PROVE JobInv(q)' /\ HolderInv(q)'
  <2>1. HolderInv(q)'
    BY DEF HolderInv
  <2>2. CASE q = p
    <3>1. job'[q] = j
      BY <1>3, <2>2
    <3>2. JobInv(q)'
      BY <3>1, <1>3 DEF JobInv, At, Busy, Held
    <3> QED BY <2>1, <3>2
  <2>3. CASE q # p
    <3>1. job'[q] = job[q] /\ q \notin lock /\ JobInv(q)
      BY <1>3, <2>3 DEF StoreInv
    <3>2. JobInv(q)'
      BY <3>1 DEF JobInv, At
    <3> QED BY <2>1, <3>2
  <2> QED BY <2>2, <2>3
<1> QED BY <1>1, <1>2, <1>4 DEF StoreInv

\* A step of p that holds the lock, and works on the same request.
Holding(p, j) ==
    /\ j \in Job /\ job' = [job EXCEPT ![p] = j]
    /\ lock \subseteq {p} /\ lock' = {p} /\ temp' \in BOOLEAN
    /\ clock' = clock /\ made' \in Nat /\ sent' = sent
    /\ GoodFile(records') /\ Covers(records)' /\ Excluded' /\ HolderInv(p)'
    /\ j.step \in Held /\ job[p].step \in Busy
    /\ j.request = job[p].request /\ j.now = job[p].now

LEMMA HoldingInv ==
  ASSUME StoreInv, NEW p \in Processes, NEW j, Holding(p, j)
  PROVE  StoreInv'
<1> USE DEF Holding
<1>1. StoreType'
  BY DEF StoreInv, StoreType, GoodFile
<1>2. LockInv' /\ GoodFile(records)' /\ Covers(records)' /\ Excluded'
  BY DEF LockInv, GoodFile, WholeRecords, NoClash, Small
<1>3. job \in [Processes -> Job]
  BY DEF StoreInv, StoreType
<1>4. ASSUME NEW q \in Processes PROVE JobInv(q)' /\ HolderInv(q)'
  <2>1. JobInv(q)
    BY DEF StoreInv
  <2>2. CASE q = p
    <3>1. job'[q] = j /\ q \in lock' /\ HolderInv(q)'
      BY <1>3, <2>2
    <3>2. JobInv(q)'
      BY <2>1, <2>2, <3>1 DEF JobInv, At, Held
    <3> QED BY <3>1, <3>2
  <2>3. CASE q # p
    <3>1. job'[q] = job[q] /\ q \notin lock /\ q \notin lock'
      BY <1>3, <2>3
    <3>2. JobInv(q)' /\ HolderInv(q)'
      BY <3>1, <2>1 DEF JobInv, HolderInv, At
    <3> QED BY <3>2
  <2> QED BY <2>2, <2>3
<1> QED BY <1>1, <1>2, <1>4 DEF StoreInv

LEMMA WholeRecord ==
  ASSUME NEW R, WholeRecords(R), NEW r \in R, NEW c \in r.result
  PROVE  r = Rec(c)
<1>1. PICK d \in r.result : r = Rec(d)
  BY DEF WholeRecords
<1> QED BY <1>1 DEF Rec

LEMMA ReplayInv == ASSUME StoreInv, NEW p \in Processes, Replay(p) PROVE StoreInv'
<1> DEFINE a == [ok |-> Stored(p) # {}, given |-> Stored(p)]
           j == Replying(a)
<1>1. Stored(p) \subseteq Results(records) /\ \A c \in Stored(p) : Rec(c) \in records
  <2> SUFFICES ASSUME NEW c \in Stored(p)
               PROVE  c \in Results(records) /\ Rec(c) \in records
    OBVIOUS
  <2>1. PICK r \in records : c \in r.result
    BY DEF Stored, Exact, View
  <2>2. r = Rec(c)
    BY <2>1, WholeRecord DEF StoreInv, GoodFile
  <2> QED BY <2>1, <2>2 DEF Results
<1>2. /\ job' = [job EXCEPT ![p] = j] /\ sent' = sent \union Stored(p)
      /\ UNCHANGED <<clock, records, lock, made>> /\ lock = {}
  BY DEF Replay, Open
<1>3. temp' \in BOOLEAN
  BY Zenon DEF Replay
<1>4. Kept \subseteq Contribution /\ Kept' = Kept /\ sent' \subseteq Kept
  BY <1>1, <1>2, KeptTypes DEF StoreInv, Kept
<1>5. a \in Answer
  <2>1. (Stored(p) # {}) \in BOOLEAN /\ Stored(p) \in SUBSET Contribution
    BY <1>1, <1>4 DEF Kept
  <2> HIDE DEF Stored
  <2> QED BY <2>1, Zenon DEF Answer
<1> HIDE DEF a
<1>6. j \in Job /\ j.step = "replying" /\ j.now = 0
  BY <1>5, JobTypes
<1> HIDE DEF j
<1>7. GoodFile(records') /\ Covers(records)' /\ Excluded'
  BY <1>1, <1>2, <1>4 DEF StoreInv, Covers, Excluded
<1>8. Freed(p, j)
  BY <1>2, <1>3, <1>4, <1>6, <1>7 DEF Freed
<1> QED BY <1>8, FreedInv

LEMMA OneHolder ==
  ASSUME StoreInv, NEW p \in Processes, job[p].step \in Held
  PROVE  lock = {p} /\ JobInv(p) /\ HolderInv(p) /\ job[p].step \in Busy
<1>1. JobInv(p) /\ HolderInv(p) /\ LockInv
  BY DEF StoreInv
<1>2. p \in lock
  BY <1>1 DEF JobInv
<1> QED BY <1>1, <1>2 DEF LockInv, Busy

\* The file of the process that holds the lock is renamed into place.
Renamed(p) ==
    /\ job[p].step \in Held /\ records' = job[p].view
    /\ clock' = clock /\ made' = made
    /\ sent' = sent \/ (At(p, "storing") /\ sent' = sent \union job[p].answer.given)

LEMMA RenamedInv ==
  ASSUME StoreInv, NEW p \in Processes, Renamed(p)
  PROVE  /\ GoodFile(records') /\ Covers(records)' /\ Excluded' /\ sent' \in SUBSET Contribution
         /\ At(p, "claiming") => sent' = sent /\ Kept' \subseteq Kept
<1>1. lock = {p} /\ HolderInv(p)
  BY OneHolder DEF Renamed
<1>2. GoodFile(job[p].view) /\ Covers(job[p].view) /\ Excluded /\ Kept \subseteq Contribution
  BY <1>1, KeptTypes DEF HolderInv, StoreInv
<1>3. GoodFile(records')
  BY <1>2 DEF Renamed
<1>4. CASE At(p, "storing")
  <2>1. PICK c \in job[p].answer.given :
          /\ job[p].answer = Given(c) /\ Rec(c) \in job[p].view
          /\ c.op = Op(p) /\ c.at = job[p].at /\ c.id <= made
          /\ \A k \in Kept : k.id < c.id
    BY <1>1, <1>4 DEF HolderInv
  <2>2. job[p].answer.given = {c}
    BY <2>1 DEF Given
  <2>3. c \in Contribution
    BY <2>2 DEF StoreInv, StoreType, Job, Answer
  <2>4. Kept' \subseteq Kept \union {c}
    BY <1>1, <2>2 DEF HolderInv, Renamed, Kept
  <2>5. Covers(records)'
    BY <1>2, <2>1, <2>2 DEF Covers, Renamed
  <2>6. \A k \in Kept : Clash(k.op, c.op) => c.at >= ClaimedUntil[k.op]
    BY <1>1, <2>1 DEF HolderInv
  <2>7. Excluded'
    <3>1. \A k \in Kept' : k.id <= made'
      BY <1>2, <2>1, <2>4 DEF Excluded, Renamed
    <3>2. ASSUME NEW k \in Kept', NEW d \in Kept', k.id < d.id, Clash(k.op, d.op)
          PROVE  d.at >= ClaimedUntil[k.op]
      <4>1. CASE k \in Kept /\ d \in Kept
        BY <4>1, <3>2, <1>2 DEF Excluded
      <4>2. CASE k \in Kept /\ d = c
        BY <4>2, <3>2, <2>6
      <4>3. CASE k = c
        BY <4>3, <3>2, <2>1, <2>3, <2>4, <1>2, ContributionOps
      <4> QED BY <4>1, <4>2, <4>3, <2>4
    <3> QED BY <3>1, <3>2 DEF Excluded, Clash
  <2>8. sent' \in SUBSET Contribution
    BY <2>2, <2>3 DEF Renamed, StoreInv, StoreType
  <2> QED BY <1>3, <1>4, <2>5, <2>7, <2>8 DEF At
<1>5. CASE ~At(p, "storing")
  <2>1. sent' = sent /\ Kept' \subseteq Kept
    BY <1>1, <1>5 DEF HolderInv, Renamed, Kept
  <2>2. Covers(records)'
    BY <1>2, <2>1 DEF Covers, Renamed
  <2>3. Excluded'
    BY <1>2, <2>1 DEF Excluded, Clash, Renamed
  <2> QED BY <1>3, <2>1, <2>2, <2>3 DEF StoreInv, StoreType
<1> QED BY <1>4, <1>5

LEMMA CommitResultInv == ASSUME StoreInv, NEW p \in Processes, CommitResult(p) PROVE StoreInv'
<1> DEFINE j == Replying(job[p].answer)
<1>1. /\ At(p, "storing") /\ job' = [job EXCEPT ![p] = j] /\ records' = job[p].view
      /\ lock' = {} /\ UNCHANGED <<clock, made>>
      /\ sent' = sent \union job[p].answer.given
  BY DEF CommitResult, Rename
<1>2. temp' \in BOOLEAN
  BY Zenon DEF CommitResult, Rename
<1>3. Renamed(p) /\ lock = {p}
  BY <1>1, OneHolder DEF Renamed, Held, At
<1>4. job[p].answer \in Answer
  BY DEF StoreInv, StoreType, Job
<1>5. j \in Job /\ j.step = "replying" /\ j.now = 0
  BY <1>4, JobTypes
<1> HIDE DEF j
<1>6. Freed(p, j)
  BY <1>1, <1>2, <1>3, <1>5, RenamedInv DEF Freed
<1> QED BY <1>6, FreedInv

LEMMA StoreFailsInv == ASSUME StoreInv, NEW p \in Processes, StoreFails(p) PROVE StoreInv'
<1> DEFINE j == Replying(Failure)
<1>1. /\ job' = [job EXCEPT ![p] = j] /\ lock' = lock \ {p}
      /\ UNCHANGED <<clock, sent, made>>
  BY DEF StoreFails
<1>2. temp' \in BOOLEAN /\ clock \in Nat
  <2>1. temp \in BOOLEAN /\ clock \in Nat
    BY DEF StoreInv, StoreType
  <2>2. temp' \in BOOLEAN
    BY <2>1, Zenon DEF StoreFails, Rename
  <2> QED BY <2>1, <2>2
<1>3. j \in Job /\ j.step = "replying" /\ j.now = 0
  BY JobTypes
<1> HIDE DEF j
<1>4. CASE records' = records
  <2>1. Quiet(p, j)
    BY <1>1, <1>2, <1>3, <1>4 DEF Quiet, Busy, Held
  <2> QED BY <2>1, JobStep
<1>5. CASE job[p].step \in {"claiming", "storing"} /\ records' = job[p].view
  <2>1. Renamed(p) /\ lock = {p}
    BY <1>1, <1>5, OneHolder DEF Renamed, Held
  <2>2. Freed(p, j)
    BY <1>1, <1>2, <1>3, <2>1, RenamedInv DEF Freed
  <2> QED BY <2>2, FreedInv
<1> QED BY <1>4, <1>5 DEF StoreFails, Rename

LEMMA CommitClaimInv == ASSUME StoreInv, NEW p \in Processes, CommitClaim(p) PROVE StoreInv'
<1> DEFINE j == To(p, "producing")
<1>1. /\ At(p, "claiming") /\ job' = [job EXCEPT ![p] = j] /\ records' = job[p].view
      /\ UNCHANGED <<clock, lock, sent, made>>
  BY DEF CommitClaim, Rename
<1>2. temp' \in BOOLEAN
  BY Zenon DEF CommitClaim, Rename
<1>3. Renamed(p) /\ lock = {p} /\ HolderInv(p) /\ job[p].step \in Busy
  BY <1>1, OneHolder DEF Renamed, Held, At
<1>4. job[p] \in Job /\ "producing" \in Steps /\ job \in [Processes -> Job] /\ made \in Nat
  BY DEF StoreInv, StoreType, Steps
<1>5. /\ j \in Job /\ j.step = "producing" /\ j.request = job[p].request /\ j.now = job[p].now
      /\ j.at = job[p].at /\ j.view = job[p].view
  BY <1>4, StepJobs, Zenon DEF To
<1> HIDE DEF j
<1>6. job'[p] = j
  BY <1>1, <1>4
<1>7. GoodFile(records') /\ Covers(records)' /\ Excluded' /\ Kept' \subseteq Kept
  BY <1>1, <1>3, RenamedInv
<1>8. HolderInv(p)'
  <2>1. Covers(job[p].view)' /\ GoodFile(job[p].view)'
    BY <1>1, <1>3, <1>5, <1>6 DEF HolderInv, Covers, GoodFile, WholeRecords, NoClash, Small
  <2>2. Op(p)' = Op(p)
    BY <1>5, <1>6 DEF Op, Wanted
  <2>3. \A c \in Results(job[p].view)' : c \in Kept'
    BY <1>1, <1>5, <1>6 DEF Kept, Results
  <2>4. \A c \in Kept' : Clash(c.op, Op(p)) => job[p].at >= ClaimedUntil[c.op]
    BY <1>7, <1>3 DEF HolderInv
  <2>5. [op |-> Op(p), result |-> {}] \in job[p].view
    BY <1>1, <1>3 DEF HolderInv, At
  <2> QED BY <2>1, <2>2, <2>3, <2>4, <2>5, <1>5, <1>6 DEF HolderInv, At, Clash
<1>9. Holding(p, j)
  BY <1>1, <1>2, <1>3, <1>4, <1>5, <1>7, <1>8 DEF Holding, Held
<1> QED BY <1>9, HoldingInv

LEMMA WriteClaimInv == ASSUME StoreInv, NEW p \in Processes, WriteClaim(p) PROVE StoreInv'
<1> DEFINE claim == [op |-> Op(p), result |-> {}]
           V == View(p) \union {claim}
           k == To(p, "claiming")
           m == [k EXCEPT !.at = clock]
           j == [m EXCEPT !.view = V]
<1>1. /\ At(p, "locking") /\ lock = {} /\ lock' = {p}
      /\ Exact(View(p), Op(p)) = {} /\ ~Refused(p)
      /\ UNCHANGED <<clock, records, sent, made>>
  BY DEF WriteClaim, Open
<1>2. job' = [job EXCEPT ![p] = j]
  BY DEF WriteClaim
<1>3. temp' \in BOOLEAN
  BY Zenon DEF WriteClaim
<1>4. /\ job[p] \in Job /\ job \in [Processes -> Job] /\ clock \in Nat /\ made \in Nat
      /\ GoodFile(records) /\ Covers(records) /\ Excluded /\ job[p].now <= clock
      /\ job[p].step \in Busy /\ Op(p) \in Operations
  BY <1>1, WantedTypes DEF StoreInv, StoreType, JobInv, Busy, At
<1>5. /\ V \in SUBSET Record /\ V \subseteq records \union {claim}
      /\ Results(V) \subseteq Results(records)
  BY <1>4 DEF View, GoodFile, Record, Results
<1>6. GoodFile(V)
  <2>1. WholeRecords(V)
    BY <1>4, <1>5 DEF WholeRecords, GoodFile
  <2>2. \A r \in View(p) : ~Clash(r.op, Op(p)) /\ ~Clash(Op(p), r.op)
    BY <1>1 DEF Refused, Conflicts, Clash
  <2>3. NoClash(V)
    BY <1>4, <2>2 DEF NoClash, GoodFile, View
  <2>4. IsFiniteSet(View(p)) /\ Cardinality(View(p)) \in Nat
    BY <1>4, FS_Subset, FS_CardinalityType DEF View, GoodFile, Small
  <2>5. Cardinality(View(p)) < MaxRecords
    BY <1>1, <2>4, StoreAssumption DEF Refused, Full
  <2>6. IsFiniteSet(V) /\ Cardinality(V) <= Cardinality(View(p)) + 1
    <3> HIDE DEF claim
    <3>1. /\ IsFiniteSet(V)
          /\ Cardinality(V) = IF claim \in View(p) THEN Cardinality(View(p))
                              ELSE Cardinality(View(p)) + 1
      BY <2>4, FS_AddElement
    <3> HIDE DEF V
    <3> QED BY <2>4, <3>1
  <2>7. Cardinality(V) \in Nat
    BY <2>6, FS_CardinalityType
  <2> QED BY <1>5, <2>1, <2>3, <2>4, <2>5, <2>6, <2>7, StoreAssumption DEF GoodFile, Small
\* What is still claimed is in the view.
<1>7. \A r \in records : clock < ClaimedUntil[r.op] => r \in View(p)
  <2> SUFFICES ASSUME NEW r \in records, clock < ClaimedUntil[r.op] PROVE r \in View(p)
    OBVIOUS
  <2>1. ClaimedUntil[r.op] \in Nat /\ job[p].now \in Nat
    BY <1>4, ClaimTimes DEF GoodFile, Record, Job
  <2> QED BY <1>4, <2>1 DEF View, Active
<1>8. \A c \in Kept : clock < ClaimedUntil[c.op] => Rec(c) \in View(p)
  <2> SUFFICES ASSUME NEW c \in Kept, clock < ClaimedUntil[c.op] PROVE Rec(c) \in View(p)
    OBVIOUS
  <2>1. Rec(c) \in records
    <3>1. CASE c \in sent
      BY <3>1, <1>4 DEF Covers
    <3>2. CASE c \in Results(records)
      BY <3>2, <1>4, WholeRecord DEF Results, GoodFile
    <3> QED BY <3>1, <3>2 DEF Kept
  <2> QED BY <1>7, <2>1 DEF Rec
<1>9. \A c \in Kept : Clash(c.op, Op(p)) => clock >= ClaimedUntil[c.op]
  <2> SUFFICES ASSUME NEW c \in Kept, Clash(c.op, Op(p)) PROVE ~(clock < ClaimedUntil[c.op])
    BY <1>4, KeptTypes, ContributionOps, ClaimTimes DEF StoreInv
  <2> QED BY <1>1, <1>8 DEF Refused, Conflicts, Clash, Rec
<1>10. V \in SUBSET Record /\ "claiming" \in Steps
  BY <1>5 DEF Steps
<1>11. Covers(V) /\ claim \in V
  BY <1>8 DEF Covers, Kept
<1> HIDE DEF V
<1>12. /\ k \in Job /\ k.step = "claiming" /\ k.request = job[p].request /\ k.now = job[p].now
  BY <1>4, <1>10, StepJobs, Zenon DEF To
<1> HIDE DEF k
<1>13. /\ m \in Job /\ m.step = "claiming" /\ m.request = job[p].request /\ m.now = job[p].now
       /\ m.at = clock
  BY <1>4, <1>12, AtJobs, Zenon
<1> HIDE DEF m
<1>14. /\ j \in Job /\ j.step = "claiming" /\ j.request = job[p].request /\ j.now = job[p].now
       /\ j.at = clock /\ j.view = V
  BY <1>10, <1>13, ViewJobs, Zenon
<1> HIDE DEF j
<1>15. job'[p] = j /\ Kept' = Kept
  BY <1>1, <1>2, <1>4 DEF Kept
<1>16. HolderInv(p)'
  <2>1. GoodFile(job[p].view)' /\ Covers(job[p].view)'
    BY <1>1, <1>6, <1>11, <1>14, <1>15 DEF Covers, GoodFile, WholeRecords, NoClash, Small
  <2>2. Op(p)' = Op(p)
    BY <1>14, <1>15 DEF Op, Wanted
  <2>3. \A c \in Results(job[p].view)' : c \in Kept'
    BY <1>5, <1>14, <1>15 DEF Kept, Results
  <2>4. \A c \in Kept' : Clash(c.op, Op(p)) => job'[p].at >= ClaimedUntil[c.op]
    BY <1>9, <1>14, <1>15
  <2> QED BY <2>1, <2>2, <2>3, <2>4, <1>11, <1>14, <1>15 DEF HolderInv, At, Clash
<1>17. GoodFile(records') /\ Covers(records)' /\ Excluded'
  BY <1>1, <1>4, <1>15 DEF Covers, Excluded
<1>18. Holding(p, j)
  BY <1>1, <1>2, <1>3, <1>4, <1>14, <1>16, <1>17 DEF Holding, Held
<1> QED BY <1>18, HoldingInv

LEMMA ProduceInv == ASSUME StoreInv, NEW p \in Processes, Produce(p) PROVE StoreInv'
<1> DEFINE claim == [op |-> Op(p), result |-> {}]
           c == Produced(p)
           W == job[p].view
           V == WithResult(W, c)
           k == To(p, "storing")
           m == [k EXCEPT !.view = V]
           j == [m EXCEPT !.answer = Given(c)]
<1>1. /\ At(p, "producing") /\ made' = made + 1 /\ job' = [job EXCEPT ![p] = j]
      /\ UNCHANGED <<clock, records, lock, sent>>
  BY DEF Produce
<1>2. temp' \in BOOLEAN
  BY Zenon DEF Produce
<1>3. lock = {p} /\ HolderInv(p) /\ job[p].step \in Busy
  BY <1>1, OneHolder DEF Held, At
<1>4. /\ job[p] \in Job /\ job \in [Processes -> Job] /\ made \in Nat
      /\ GoodFile(records) /\ Covers(records) /\ Excluded
      /\ Op(p) \in Operations /\ Wanted(p).decision \in Decisions
  BY <1>3, WantedTypes DEF StoreInv, StoreType
<1>5. /\ GoodFile(W) /\ Covers(W) /\ claim \in W /\ Results(W) \subseteq Kept
      /\ \A d \in Kept : Clash(d.op, Op(p)) => job[p].at >= ClaimedUntil[d.op]
  BY <1>1, <1>3 DEF HolderInv, At
<1>6. /\ c \in Contribution /\ c.op = Op(p) /\ c.decision = Wanted(p).decision
      /\ c.at = job[p].at /\ c.id = made + 1
  BY <1>4 DEF Produced, Contribution, Job
<1>7. Exact(W, Op(p)) = {claim}
  <2>1. Clash(Op(p), Op(p))
    BY <1>4, MarksAssumption DEF Clash
  <2>2. \A r \in W : r.op = Op(p) => r = claim
    BY <1>5, <2>1 DEF GoodFile, NoClash
  <2>3. claim \in Exact(W, Op(p))
    BY <1>5 DEF Exact
  <2>4. \A r \in Exact(W, Op(p)) : r = claim
    BY <2>2 DEF Exact
  <2> HIDE DEF claim, W
  <2> QED BY <2>3, <2>4
<1>8. V = (W \ {claim}) \union {Rec(c)}
  BY <1>6, <1>7 DEF WithResult, Rec
<1>9. V \in SUBSET Record /\ Rec(c) \in V /\ Given(c) \in Answer
  BY <1>4, <1>5, <1>6, <1>8 DEF GoodFile, Record, Rec, Given, Answer
<1> HIDE DEF c, V
<1>10. GoodFile(V)
  <2>1. WholeRecords(V)
    BY <1>5, <1>8 DEF GoodFile, WholeRecords, Rec
  <2>2. NoClash(V)
    <3>1. \A r \in W \ {claim} : ~Clash(r.op, Op(p)) /\ ~Clash(Op(p), r.op)
      BY <1>5 DEF GoodFile, NoClash
    <3>2. Rec(c).op = Op(p)
      BY <1>6 DEF Rec
    <3> QED BY <1>5, <1>8, <3>1, <3>2 DEF GoodFile, NoClash
  <2>3. Small(V)
    <3> HIDE DEF claim
    <3>1. IsFiniteSet(W) /\ Cardinality(W) <= MaxRecords /\ Cardinality(W) \in Nat
      BY <1>5, FS_CardinalityType DEF GoodFile, Small
    <3>2. IsFiniteSet(W \ {claim}) /\ Cardinality(W \ {claim}) = Cardinality(W) - 1
      BY <1>5, <3>1, FS_RemoveElement
    <3>3. IsFiniteSet(V) /\ Cardinality(V) = IF Rec(c) \in W \ {claim}
                                            THEN Cardinality(W \ {claim})
                                            ELSE Cardinality(W \ {claim}) + 1
      BY <1>8, <3>2, FS_AddElement
    <3> QED BY <3>1, <3>2, <3>3, StoreAssumption DEF Small
  <2> QED BY <1>9, <2>1, <2>2, <2>3 DEF GoodFile
<1>11. Covers(V)
  BY <1>5, <1>8 DEF Covers, Rec
<1>12. Results(V) \subseteq Kept \union {c}
  BY <1>5, <1>8 DEF Results, Rec
<1>13. /\ k \in Job /\ k.step = "storing" /\ k.request = job[p].request /\ k.now = job[p].now
       /\ k.at = job[p].at
  BY <1>4, StepJobs, Zenon DEF To, Steps
<1> HIDE DEF k
<1>14. /\ m \in Job /\ m.step = "storing" /\ m.request = job[p].request /\ m.now = job[p].now
       /\ m.at = job[p].at /\ m.view = V
  BY <1>9, <1>13, ViewJobs, Zenon
<1> HIDE DEF m
<1>15. /\ j \in Job /\ j.step = "storing" /\ j.request = job[p].request /\ j.now = job[p].now
       /\ j.at = job[p].at /\ j.view = V /\ j.answer = Given(c)
  BY <1>9, <1>14, AnswerJobs, Zenon
<1> HIDE DEF j
<1>16. job'[p] = j /\ Kept' = Kept /\ Given(c).given = {c}
  BY <1>1, <1>4 DEF Kept, Given
<1>17. HolderInv(p)'
  <2>1. GoodFile(job[p].view)' /\ Covers(job[p].view)'
    BY <1>1, <1>10, <1>11, <1>15, <1>16 DEF Covers, GoodFile, WholeRecords, NoClash, Small
  <2>2. Op(p)' = Op(p) /\ Wanted(p)' = Wanted(p)
    BY <1>15, <1>16 DEF Op, Wanted
  <2>3. \A d \in Results(job[p].view)' : d \in Kept' \/ d \in job'[p].answer.given
    BY <1>12, <1>15, <1>16 DEF Kept, Results
  <2>4. \A d \in Kept' : Clash(d.op, Op(p)) => job'[p].at >= ClaimedUntil[d.op]
    BY <1>5, <1>15, <1>16
  <2>5. \A d \in Kept : d.id < c.id
    BY <1>4, <1>6, KeptTypes, ContributionOps DEF Excluded, StoreInv
  <2>6. c.id <= made'
    BY <1>1, <1>4, <1>6
  <2>7. /\ c \in job'[p].answer.given /\ job'[p].answer = Given(c) /\ Rec(c) \in job'[p].view
        /\ c.op = Op(p) /\ c.decision = Wanted(p).decision /\ c.at = job'[p].at
    BY <1>6, <1>9, <1>15, <1>16
  <2> QED BY <2>1, <2>2, <2>3, <2>4, <2>5, <2>6, <2>7, <1>15, <1>16 DEF HolderInv, At, Clash
<1>18. GoodFile(records') /\ Covers(records)' /\ Excluded' /\ made' \in Nat
  <2>1. \A d \in Kept : d.id <= made'
    BY <1>1, <1>4, KeptTypes, ContributionOps DEF Excluded, StoreInv
  <2> QED BY <1>1, <1>4, <1>16, <2>1 DEF Covers, Excluded
<1>19. Holding(p, j)
  BY <1>1, <1>2, <1>3, <1>15, <1>17, <1>18 DEF Holding, Held
<1> QED BY <1>19, HoldingInv

LEMMA StoreStepInv == ASSUME StoreInv, NEW p \in Processes, StoreStep(p) PROVE StoreInv'
  BY ReplayInv, RefuseInv, WriteClaimInv, CommitClaimInv, ProduceInv, CommitResultInv,
     StoreFailsInv DEF StoreStep

LEMMA StoreInit_Inv == Init => StoreInv
<1> SUFFICES ASSUME Init PROVE StoreInv
  OBVIOUS
<1>1. /\ clock = 0 /\ records = {} /\ lock = {} /\ sent = {} /\ made = 0
      /\ job = [p \in Processes |-> IdleJob] /\ Kept = {}
  BY DEF Init, StoreInit, Kept, Results
<1>2. temp \in BOOLEAN
  BY Zenon DEF Init, StoreInit
<1>3. GoodFile(records)
  BY <1>1, FS_EmptySet, StoreAssumption DEF GoodFile, WholeRecords, NoClash, Small
<1>4. \A p \in Processes : JobInv(p) /\ HolderInv(p)
  BY <1>1, JobTypes DEF JobInv, HolderInv, At, Busy, Held
<1>5. StoreType
  BY <1>1, <1>2, JobTypes, NodeAssumption DEF StoreType
<1> QED BY <1>1, <1>3, <1>4, <1>5 DEF StoreInv, LockInv, Covers, Excluded

LEMMA ReceiveInv == ASSUME StoreInv, NEW p \in Processes, Receive(p), inbox[p] \in Seq(Lines)
                    PROVE  StoreInv'
<1> DEFINE r == Head(inbox[p])
<1>1. At(p, "idle") /\ inbox[p] # <<>>
  BY DEF Receive, Reading
<1>2. r \in Lines
  BY <1>1
<1>3. CASE r.op \in Controls
  <2>1. AnswerControl(p, r)
    BY <1>3 DEF Receive
  <2> QED BY <1>1, <2>1, AnswerControlInv
<1>4. CASE r.op \notin Controls
  <2>1. BeginRelease(p, r)
    BY <1>4 DEF Receive
  <2>2. r \in Requests
    BY <1>2, <1>4 DEF Lines, Control
  <2> QED BY <1>1, <2>1, <2>2, BeginReleaseInv
<1> QED BY <1>3, <1>4

-----------------------------------------------------------------------------
(* Calls. *)

LEMMA CallTypes ==
  /\ Lost \in Answer /\ Lost.given = {}
  /\ Silent \in CallRecord /\ Silent.task = "none" /\ Silent.answer = Lost
  /\ \A r \in Lines : /\ Asks(r) \in CallRecord /\ Asks(r).caller = "waiting"
                       /\ Asks(r).task = "queued" /\ Asks(r).request = {r} /\ Asks(r).answer = Lost
  BY DEF Answer, Lost, CallRecord, Silent, Asks, Callers, Tasks

LEMMA GoodNew == GoodCall(Silent) /\ \A r \in Lines : GoodCall(Asks(r))
  BY CallTypes DEF GoodCall

LEMMA ControlLines == \A c \in Controls : Control(c) \in Lines
  BY DEF Lines

LEMMA DoneCall ==
  LET k == [Silent EXCEPT !.caller = "done"]
  IN  k \in CallRecord /\ k.caller = "done" /\ k.task = "none" /\ k.answer.given = {}
  BY CallTypes DEF CallRecord, Silent, Callers

LEMMA FinishedTypes ==
  \A k \in CallRecord : \A a \in Answer :
     LET m == [k EXCEPT !.caller = "done", !.task = "none", !.answer = a]
     IN  m \in CallRecord /\ m.caller = "done" /\ m.task = "none" /\ m.answer = a
         /\ m.request = k.request
  BY DEF CallRecord, Callers, Tasks

LEMMA FinishedGood ==
  ASSUME NEW k, GoodCall(k), NEW a \in Answer,
         a.given # {} => \A r \in k.request : Fits(a, r),
         k.task # "none"
  PROVE  GoodCall(Finished(k, a)) /\ Finished(k, a).task = "none"
<1>1. k \in CallRecord /\ \E r \in k.request : TRUE
  BY DEF GoodCall
<1>2. CASE k.caller = "waiting" /\ a # Lost
  <2> DEFINE m == [k EXCEPT !.caller = "done", !.task = "none", !.answer = a]
  <2>1. Finished(k, a) = m
    BY <1>2 DEF Finished
  <2>2. m \in CallRecord /\ m.caller = "done" /\ m.task = "none" /\ m.answer = a
        /\ m.request = k.request
    BY <1>1, FinishedTypes, Zenon
  <2> HIDE DEF m
  <2>3. GoodCall(m)
    BY <1>1, <2>2 DEF GoodCall
  <2> QED BY <2>1, <2>2, <2>3
<1>3. CASE ~(k.caller = "waiting" /\ a # Lost)
  <2> DEFINE m == [Silent EXCEPT !.caller = "done"]
  <2>1. Finished(k, a) = m
    BY <1>3 DEF Finished
  <2>2. m \in CallRecord /\ m.caller = "done" /\ m.task = "none" /\ m.answer.given = {}
    BY DoneCall
  <2> HIDE DEF m
  <2>3. GoodCall(m)
    BY <2>2 DEF GoodCall
  <2> QED BY <2>1, <2>2, <2>3
<1> QED BY <1>2, <1>3

LEMMA LeftTypes ==
  \A k \in CallRecord :
     LET m == [k EXCEPT !.caller = IF @ = "waiting" THEN "left" ELSE @]
     IN  /\ m \in CallRecord /\ m.task = k.task /\ m.request = k.request /\ m.answer = k.answer
         /\ m.caller \in {"left", k.caller} /\ (m.caller = k.caller => m = k)
  BY DEF CallRecord, Callers

LEMMA LeftGood ==
  ASSUME NEW k, GoodCall(k)
  PROVE  LET m == [k EXCEPT !.caller = IF @ = "waiting" THEN "left" ELSE @]
         IN  GoodCall(m) /\ m.task = k.task /\ m.request = k.request
<1> DEFINE m == [k EXCEPT !.caller = IF @ = "waiting" THEN "left" ELSE @]
<1>1. k \in CallRecord
  BY DEF GoodCall
<1>2. /\ m \in CallRecord /\ m.task = k.task /\ m.request = k.request /\ m.answer = k.answer
      /\ m.caller \in {"left", k.caller} /\ (m.caller = k.caller => m = k)
  BY <1>1, LeftTypes, Zenon
<1> HIDE DEF m
<1>3. GoodCall(m)
  BY <1>2 DEF GoodCall
<1> QED BY <1>2, <1>3 DEF m

LEMMA ReadingTypes ==
  \A k \in CallRecord :
     LET m == [k EXCEPT !.task = "reading"]
     IN  /\ m \in CallRecord /\ m.task = "reading" /\ m.request = k.request
         /\ m.answer = k.answer /\ m.caller = k.caller
  BY DEF CallRecord, Tasks

LEMMA ReadingGood ==
  ASSUME NEW k, GoodCall(k), k.task = "queued"
  PROVE  LET m == [k EXCEPT !.task = "reading"]
         IN  GoodCall(m) /\ m.task = "reading" /\ m.request = k.request
<1> DEFINE m == [k EXCEPT !.task = "reading"]
<1>1. k \in CallRecord /\ k.caller # "idle"
  BY CallTypes DEF GoodCall
<1>2. /\ m \in CallRecord /\ m.task = "reading" /\ m.request = k.request
      /\ m.answer = k.answer /\ m.caller = k.caller
  BY <1>1, ReadingTypes, Zenon
<1> HIDE DEF m
<1>3. GoodCall(m)
  BY <1>1, <1>2 DEF GoodCall
<1> QED BY <1>2, <1>3 DEF m

-----------------------------------------------------------------------------
(* The pipes' invariant: the steps of a process. *)

\* A step of process p alone, which carries the request it works on along.
Turn(p) ==
    /\ UNCHANGED <<host, child, call>>
    /\ proc' \in [Starts -> ProcStates]
    /\ inbox' \in [Starts -> Seq(Lines)] /\ outbox' \in [Starts -> Seq(Answer)]
    /\ \A q \in Starts : q # p => /\ proc'[q] = proc[q] /\ job'[q] = job[q]
                                  /\ inbox'[q] = inbox[q] /\ outbox'[q] = outbox[q]
    /\ proc'[p] # "unborn"
    /\ proc'[p] = "gone" => inbox'[p] = <<>> /\ job'[p].step = "idle"
    /\ host # "down" /\ child = p =>
         /\ Empty(p) => Empty(p)'
         /\ \A r \in Lines : Pending(p, r) => Pending(p, r)'

LEMMA GoodRequest == \A k : GoodCall(k) => k.request \subseteq Lines
  BY DEF GoodCall, CallRecord

LEMMA TurnInv ==
  ASSUME PipeInv, NEW p \in Starts, Turn(p)
  PROVE  PipeInv'
<1> USE DEF Turn
<1>1. /\ BridgeType /\ OneReader /\ Unasked /\ Unused /\ ChildInv
      /\ \A c \in AllCalls : GoodCall(call[c])
  BY DEF PipeInv
<1>2. BridgeType' /\ OneReader' /\ Unasked' /\ \A c \in AllCalls : GoodCall(call'[c])
  BY <1>1 DEF BridgeType, OneReader, Unasked, ReaderOf
<1>3. Unused'
  <2> SUFFICES ASSUME NEW q \in Starts
               PROVE  /\ proc'[q] = "unborn" => Empty(q)'
                      /\ proc'[q] = "gone" => inbox'[q] = <<>> /\ At(q, "idle")'
    BY DEF Unused
  <2>1. CASE q = p
    BY <2>1 DEF At
  <2>2. CASE q # p
    BY <1>1, <2>2 DEF Unused, Empty, At
  <2> QED BY <2>1, <2>2
<1>4. ChildInv'
  <2> SUFFICES ASSUME host # "down"
               PROVE  /\ child \in Starts /\ proc'[child] # "unborn"
                      /\ (\A c \in AllCalls : ~ReaderOf(c)) => Empty(child)'
                      /\ \A c \in AllCalls : \A r \in call[c].request :
                            ReaderOf(c) => Pending(child, r)'
    BY DEF ChildInv, ReaderOf
  <2>1. /\ child \in Starts /\ proc[child] # "unborn"
        /\ (\A c \in AllCalls : ~ReaderOf(c)) => Empty(child)
        /\ \A c \in AllCalls : \A r \in call[c].request :
              ReaderOf(c) => Pending(child, r)
    BY <1>1 DEF ChildInv
  <2>2. CASE child = p
    <3>1. proc'[child] # "unborn" /\ (Empty(child) => Empty(child)')
      BY <2>2
    <3>2. ASSUME NEW c \in AllCalls, NEW r \in call[c].request, ReaderOf(c)
          PROVE  Pending(child, r)'
      <4>1. r \in Lines
        BY <1>1, GoodRequest
      <4>2. Pending(p, r)
        BY <2>1, <2>2, <3>2
      <4>3. Pending(p, r)'
        BY <2>2, <4>1, <4>2
      <4> QED BY <2>2, <4>3 DEF Pending, Empty, At
    <3> QED BY <2>1, <3>1, <3>2
  <2>3. CASE child # p
    <3>1. /\ proc'[child] = proc[child] /\ job'[child] = job[child]
          /\ inbox'[child] = inbox[child] /\ outbox'[child] = outbox[child]
      BY <2>1, <2>3
    <3>2. Empty(child) => Empty(child)'
      BY <3>1 DEF Empty, At
    <3>3. \A r : Pending(child, r) => Pending(child, r)'
      BY <3>1 DEF Pending, Empty, At
    <3> QED BY <2>1, <3>1, <3>2, <3>3
  <2> QED BY <2>2, <2>3
<1> QED BY <1>2, <1>3, <1>4 DEF PipeInv

\* What a step of the store does to its process's request.
LEMMA StoreTurn ==
  ASSUME StoreInv, NEW p \in Processes, StoreStep(p)
  PROVE  /\ job[p].step \in Busy
         /\ \A q \in Processes : q # p => job'[q] = job[q]
         /\ \/ job'[p].step \in Busy /\ job'[p].request = job[p].request
            \/ job'[p].step = "replying" /\ Fits(job'[p].answer, Wanted(p))
<1>1. /\ job \in [Processes -> Job] /\ job[p] \in Job /\ WholeRecords(records)
      /\ clock \in Nat
  BY DEF StoreInv, StoreType, GoodFile
<1>2. CASE Replay(p)
  <2> DEFINE a == [ok |-> Stored(p) # {}, given |-> Stored(p)]
  <2>1. At(p, "locking") /\ job' = [job EXCEPT ![p] = Replying(a)]
    BY <1>2 DEF Replay, Open
  <2>2. job[p].step \in Busy /\ Op(p) = Wanted(p).op
    BY <2>1 DEF At, Busy, Op
  <2>3. \A c \in Stored(p) : c.op = Op(p) /\ c.decision = Wanted(p).decision
    <3> SUFFICES ASSUME NEW c \in Stored(p)
                 PROVE  c.op = Op(p) /\ c.decision = Wanted(p).decision
      OBVIOUS
    <3>1. PICK r \in records : c \in r.result /\ r.op = Op(p)
      BY DEF Stored, Exact, View
    <3>2. r = Rec(c)
      BY <1>1, <3>1, WholeRecord
    <3>3. c.decision = Wanted(p).decision
      BY DEF Stored
    <3> QED BY <3>1, <3>2, <3>3 DEF Rec
  <2>4. Replying(a).step = "replying" /\ Replying(a).answer = a /\ a.given = Stored(p)
    BY DEF Replying, IdleJob
  <2>5. Fits(a, Wanted(p))
    BY <2>2, <2>3, <2>4 DEF Fits
  <2> HIDE DEF a
  <2> QED BY <1>1, <2>1, <2>2, <2>4, <2>5
<1>3. CASE Refuse(p) \/ StoreFails(p)
  <2>1. job' = [job EXCEPT ![p] = Replying(Failure)] /\ job[p].step \in Busy
    BY <1>3 DEF Refuse, StoreFails, Open, At, Busy, Held
  <2>2. Replying(Failure).step = "replying" /\ Fits(Replying(Failure).answer, Wanted(p))
    BY JobTypes DEF Fits
  <2> QED BY <1>1, <2>1, <2>2
<1>4. CASE WriteClaim(p)
  <2> DEFINE V == View(p) \union {[op |-> Op(p), result |-> {}]}
             j == [To(p, "claiming") EXCEPT !.at = clock, !.view = V]
  <2>1. At(p, "locking") /\ job' = [job EXCEPT ![p] = j]
    BY <1>4 DEF WriteClaim, Open
  <2> HIDE DEF V
  <2>2. j.step = "claiming" /\ j.request = job[p].request
    BY <1>1 DEF To, Job
  <2> HIDE DEF j
  <2> QED BY <1>1, <2>1, <2>2 DEF At, Busy, Held
<1>5. CASE CommitClaim(p)
  <2> DEFINE j == To(p, "producing")
  <2>1. At(p, "claiming") /\ job' = [job EXCEPT ![p] = j]
    BY <1>5 DEF CommitClaim
  <2>2. j.step = "producing" /\ j.request = job[p].request
    BY <1>1 DEF To, Job
  <2> HIDE DEF j
  <2> QED BY <1>1, <2>1, <2>2 DEF At, Busy, Held
<1>6. CASE Produce(p)
  <2> DEFINE V == WithResult(job[p].view, Produced(p))
             a == Given(Produced(p))
             j == [To(p, "storing") EXCEPT !.view = V, !.answer = a]
  <2>1. At(p, "producing") /\ job' = [job EXCEPT ![p] = j]
    BY <1>6 DEF Produce
  <2> HIDE DEF V, a
  <2>2. j.step = "storing" /\ j.request = job[p].request
    BY <1>1 DEF To, Job
  <2> HIDE DEF j
  <2> QED BY <1>1, <2>1, <2>2 DEF At, Busy, Held
<1>7. CASE CommitResult(p)
  <2>1. At(p, "storing") /\ job' = [job EXCEPT ![p] = Replying(job[p].answer)]
    BY <1>7 DEF CommitResult
  <2>2. job[p].step \in Busy /\ HolderInv(p) /\ p \in lock /\ job[p].answer \in Answer
    BY <1>1, <2>1, OneHolder DEF At, Held, Job
  <2>3. Fits(job[p].answer, Wanted(p))
    <3>1. PICK c \in job[p].answer.given :
            /\ job[p].answer = Given(c)
            /\ c.op = Op(p) /\ c.decision = Wanted(p).decision
      BY <2>1, <2>2 DEF HolderInv
    <3>2. job[p].answer.given = {c}
      BY <3>1 DEF Given
    <3> QED BY <3>1, <3>2 DEF Fits, Op
  <2>4. Replying(job[p].answer).step = "replying" /\ Replying(job[p].answer).answer = job[p].answer
    BY <2>2, JobTypes
  <2> QED BY <1>1, <2>1, <2>2, <2>3, <2>4
<1> QED BY <1>2, <1>3, <1>4, <1>5, <1>6, <1>7 DEF StoreStep

\* The types a turn starts from.
LEMMA TurnTypes ==
  ASSUME PipeInv, StoreInv, NEW p \in Starts
  PROVE  /\ proc \in [Starts -> ProcStates] /\ inbox \in [Starts -> Seq(Lines)]
         /\ outbox \in [Starts -> Seq(Answer)] /\ Unused
         /\ inbox[p] \in Seq(Lines) /\ outbox[p] \in Seq(Answer)
         /\ job \in [Starts -> Job] /\ job[p] \in Job /\ JobInv(p) /\ p \in Processes
         /\ job[p].answer \in Answer
  BY NodeAssumption DEF PipeInv, BridgeType, StoreInv, StoreType, Job

LEMMA ServePipe ==
  ASSUME IInv, NEW p \in Starts, Serve(p)
  PROVE  Turn(p)
<1> USE DEF IInv
<1>1. /\ proc[p] = "running" /\ StoreStep(p) /\ p \in Processes
      /\ UNCHANGED <<host, child, proc, call, inbox, outbox>>
  BY NodeAssumption DEF Serve, bridgeVars
<1>2. /\ job[p].step \in Busy /\ \A q \in Starts : q # p => job'[q] = job[q]
      /\ \/ job'[p].step \in Busy /\ job'[p].request = job[p].request
         \/ job'[p].step = "replying" /\ Fits(job'[p].answer, Wanted(p))
      /\ job[p].request = {Wanted(p)}
  BY <1>1, StoreTurn, WantedTypes, NodeAssumption
<1>3. \A r : Pending(p, r) => Pending(p, r)'
  BY <1>1, <1>2 DEF Pending, Empty, At, Busy, Held
<1>4. Empty(p) => Empty(p)'
  BY <1>2 DEF Empty, At, Busy, Held
<1> QED BY <1>1, <1>2, <1>3, <1>4, TurnTypes DEF Turn

LEMMA GonePipe ==
  ASSUME IInv, NEW p \in Starts, Gone(p), Ended(p)
  PROVE  Turn(p)
<1> USE DEF IInv
<1>1. /\ proc' = [proc EXCEPT ![p] = "gone"] /\ inbox' = [inbox EXCEPT ![p] = <<>>]
      /\ job' = [job EXCEPT ![p] = IdleJob]
      /\ UNCHANGED <<host, child, call, outbox>>
  BY DEF Gone, Ended
<1>2. /\ proc'[p] = "gone" /\ inbox'[p] = <<>> /\ job'[p].step = "idle" /\ outbox'[p] = outbox[p]
      /\ \A q \in Starts : q # p => /\ proc'[q] = proc[q] /\ job'[q] = job[q]
                                    /\ inbox'[q] = inbox[q] /\ outbox'[q] = outbox[q]
  BY <1>1, TurnTypes, JobTypes
<1>3. /\ proc' \in [Starts -> ProcStates] /\ inbox' \in [Starts -> Seq(Lines)]
      /\ outbox' \in [Starts -> Seq(Answer)]
  BY <1>1, TurnTypes DEF ProcStates
<1>4. Empty(p) => Empty(p)'
  BY <1>2 DEF Empty, At
<1>5. \A r : Pending(p, r) => Pending(p, r)'
  BY <1>2 DEF Pending, Empty, At
<1> QED BY <1>1, <1>2, <1>3, <1>4, <1>5 DEF Turn

LEMMA ReplyPipe ==
  ASSUME IInv, NEW p \in Starts, Reply(p)
  PROVE  Turn(p)
<1> USE DEF IInv
<1>1. proc[p] = "running" /\ At(p, "replying") /\ Ended(p)
  BY DEF Reply
<1>2. CASE ~Connected(p)
  BY <1>1, <1>2, GonePipe DEF Reply
<1>3. CASE Connected(p)
  <2>1. /\ host # "down" /\ child = p
        /\ outbox' = [outbox EXCEPT ![p] = Append(@, job[p].answer)]
        /\ UNCHANGED <<host, child, call, inbox>>
        /\ proc' = IF job[p].last THEN [proc EXCEPT ![p] = "gone"] ELSE proc
        /\ job' = [job EXCEPT ![p] = IdleJob]
    BY <1>1, <1>3 DEF Reply, Put, Ended, Connected
  <2>2. /\ job'[p].step = "idle" /\ inbox'[p] = inbox[p]
        /\ outbox'[p] = Append(outbox[p], job[p].answer)
        /\ proc'[p] \in {"running", "gone"}
        /\ proc' \in [Starts -> ProcStates]
        /\ \A q \in Starts : q # p => /\ proc'[q] = proc[q] /\ job'[q] = job[q]
                                      /\ inbox'[q] = inbox[q] /\ outbox'[q] = outbox[q]
    BY <1>1, <2>1, TurnTypes, JobTypes DEF ProcStates
  <2>3. /\ outbox' \in [Starts -> Seq(Answer)] /\ inbox' \in [Starts -> Seq(Lines)]
    BY <2>1, TurnTypes
  <2>4. inbox[p] = <<>> /\ outbox[p] = <<>>
    <3>1. \E c \in AllCalls : ReaderOf(c)
      BY <1>1, <2>1 DEF PipeInv, ChildInv, Empty, At
    <3>2. PICK c \in AllCalls : ReaderOf(c)
      BY <3>1
    <3>3. GoodCall(call[c]) /\ call[c].task # "none"
      BY <3>2 DEF PipeInv, ReaderOf
    <3>4. PICK r \in call[c].request : TRUE
      BY <3>3 DEF GoodCall
    <3>5. Pending(p, r)
      BY <2>1, <3>2, <3>4 DEF PipeInv, ChildInv
    <3> QED BY <1>1, <3>5 DEF Pending, Empty, At
  <2>5. outbox'[p] # <<>> /\ Head(outbox'[p]) = job[p].answer /\ Tail(outbox'[p]) = <<>>
    BY <2>2, <2>4, TurnTypes
  <2>6. \A r : Pending(p, r) => Pending(p, r)'
    BY <1>1, <2>2, <2>4, <2>5 DEF Pending, Empty, At, Busy, Held
  <2>7. ~Empty(p)
    BY <1>1 DEF Empty, At
  <2> QED BY <2>1, <2>2, <2>3, <2>4, <2>6, <2>7 DEF Turn
<1> QED BY <1>2, <1>3

LEMMA ReceivePipe ==
  ASSUME IInv, NEW p \in Starts, Receive(p)
  PROVE  Turn(p)
<1> USE DEF IInv
<1> DEFINE r == Head(inbox[p])
<1>1. /\ proc[p] = "running" /\ At(p, "idle") /\ inbox[p] # <<>>
      /\ inbox' = [inbox EXCEPT ![p] = Tail(@)]
      /\ UNCHANGED <<host, child, proc, call, outbox>>
  BY DEF Receive, Reading, Take
<1>2. r \in Lines /\ Tail(inbox[p]) \in Seq(Lines)
  BY <1>1, TurnTypes
\* What the process does with the line it has read.
<1>3. \E j \in Job :
         /\ job' = [job EXCEPT ![p] = j]
         /\ (j.step = "locking" /\ j.request = {r}) \/ (j.step = "replying" /\ j.answer.given = {})
  <2>1. CASE r.op \in Controls
    <3>1. PICK ok \in BOOLEAN :
            job' = [job EXCEPT ![p] = [Replying([ok |-> ok, given |-> {}])
                                         EXCEPT !.last = (r.op = "shutdown")]]
      BY <2>1 DEF Receive, AnswerControl
    <3> DEFINE a == [ok |-> ok, given |-> {}]
               last == r.op = "shutdown"
               j == [Replying(a) EXCEPT !.last = last]
    <3>2. a \in Answer /\ last \in BOOLEAN /\ a.given = {}
      BY DEF Answer
    <3>3. job' = [job EXCEPT ![p] = j]
      BY <3>1
    <3> HIDE DEF a, last
    <3>4. j \in Job /\ j.step = "replying" /\ j.answer = a
      BY <3>2, LastJobs, Zenon
    <3> HIDE DEF j
    <3> QED BY <3>2, <3>3, <3>4
  <2>2. CASE r.op \notin Controls
    <3>1. BeginRelease(p, r)
      BY <2>2 DEF Receive
    <3>2. r \in Requests /\ clock \in Nat
      BY <1>2, <2>2 DEF Lines, Control, StoreInv, StoreType
    <3>3. CASE clock < ValidUntil[r.op]
      <4> DEFINE j == [IdleJob EXCEPT !.step = "locking", !.request = {r}, !.now = clock]
      <4>1. job' = [job EXCEPT ![p] = j]
        BY <3>1, <3>3 DEF BeginRelease
      <4>2. j \in Job /\ j.step = "locking" /\ j.request = {r}
        BY <3>2, LockingJobs, Zenon
      <4> HIDE DEF j
      <4> QED BY <4>1, <4>2
    <3>4. CASE ~(clock < ValidUntil[r.op])
      <4>1. job' = [job EXCEPT ![p] = Replying(Failure)]
        BY <3>1, <3>4 DEF BeginRelease
      <4>2. Replying(Failure) \in Job /\ Replying(Failure).step = "replying"
            /\ Replying(Failure).answer.given = {}
        BY JobTypes
      <4> QED BY <4>1, <4>2
    <3> QED BY <3>3, <3>4
  <2> QED BY <2>1, <2>2
<1>4. PICK j \in Job :
         /\ job' = [job EXCEPT ![p] = j]
         /\ (j.step = "locking" /\ j.request = {r}) \/ (j.step = "replying" /\ j.answer.given = {})
  BY <1>3
<1>5. /\ job'[p] = j /\ inbox'[p] = Tail(inbox[p])
      /\ inbox' \in [Starts -> Seq(Lines)]
      /\ \A q \in Starts : q # p => job'[q] = job[q] /\ inbox'[q] = inbox[q]
  BY <1>1, <1>2, <1>4, TurnTypes
<1>6. ASSUME NEW s, Pending(p, s) PROVE Pending(p, s)'
  <2>1. inbox[p] = <<s>> /\ outbox[p] = <<>>
    BY <1>1, <1>6 DEF Pending, Empty
  <2>2. r = s /\ Tail(inbox[p]) = <<>>
    BY <2>1
  <2>3. Fits(j.answer, s) \/ j.step = "locking"
    BY <1>4 DEF Fits
  <2> QED BY <1>1, <1>4, <1>5, <2>1, <2>2, <2>3 DEF Pending, At, Busy, Held
<1>7. ~Empty(p)
  BY <1>1 DEF Empty
<1> QED BY <1>1, <1>5, <1>6, <1>7, TurnTypes DEF Turn

-----------------------------------------------------------------------------
(* The pipes' invariant: the steps of the host and of its tasks. *)

\* The calls change, but the one that is read for stays the same.
Relabelled ==
    /\ UNCHANGED <<child, inbox, outbox, job>>
    /\ host' \in HostPlaces /\ (host' = "down" <=> host = "down")
    /\ proc' = proc \/ proc' = Kill(child)
    /\ call' \in [AllCalls -> CallRecord] /\ \A c \in AllCalls : GoodCall(call'[c])
    /\ \A c \in AllCalls :
          /\ call'[c].task = "reading" <=> ReaderOf(c)
          /\ ReaderOf(c) => call'[c].request = call[c].request
    /\ Unasked'

LEMMA KillTypes ==
  ASSUME PipeInv
  PROVE  /\ Kill(child) \in [Starts -> ProcStates]
         /\ \A p \in Starts : /\ Kill(child)[p] = "unborn" <=> proc[p] = "unborn"
                              /\ Kill(child)[p] = "gone" <=> proc[p] = "gone"
  BY DEF PipeInv, BridgeType, Kill, ProcStates

LEMMA RelabelledInv == PipeInv /\ Relabelled => PipeInv'
<1> SUFFICES ASSUME PipeInv, Relabelled PROVE PipeInv'
  OBVIOUS
<1> USE DEF Relabelled
<1>1. /\ BridgeType /\ OneReader /\ Unused /\ ChildInv
  BY DEF PipeInv
<1>2. /\ proc' \in [Starts -> ProcStates]
      /\ \A p \in Starts : /\ proc'[p] = "unborn" <=> proc[p] = "unborn"
                           /\ proc'[p] = "gone" <=> proc[p] = "gone"
  BY <1>1, KillTypes DEF BridgeType
<1>3. BridgeType'
  BY <1>1, <1>2 DEF BridgeType, AllCalls
<1>4. OneReader'
  BY <1>1 DEF OneReader, ReaderOf
<1>5. \A p : (Empty(p) <=> Empty(p)') /\ (At(p, "idle") <=> At(p, "idle")')
  BY DEF Empty, At
<1>6. Unused'
  BY <1>1, <1>2, <1>5 DEF Unused
<1>7. ChildInv'
  <2>1. ASSUME NEW r, host # "down", Pending(child, r) PROVE Pending(child, r)'
    <3>1. child \in Starts
      BY <1>1, <2>1 DEF ChildInv
    <3> QED BY <1>2, <2>1, <3>1 DEF Pending, Empty, At
  <2>2. ASSUME host # "down", NEW c \in AllCalls, NEW r \in call'[c].request, ReaderOf(c)'
        PROVE  Pending(child, r)'
    <3>1. ReaderOf(c) /\ r \in call[c].request
      BY <2>2 DEF ReaderOf
    <3>2. Pending(child, r)
      BY <1>1, <2>2, <3>1 DEF ChildInv
    <3> QED BY <2>1, <2>2, <3>2
  <2>3. ASSUME host # "down", \A c \in AllCalls : ~ReaderOf(c)' PROVE Empty(child)'
    BY <1>1, <1>5, <2>3 DEF ChildInv, ReaderOf, Empty, At
  <2>4. host # "down" => child \in Starts /\ proc'[child] # "unborn"
    BY <1>1, <1>2 DEF ChildInv
  <2> QED BY <2>2, <2>3, <2>4 DEF ChildInv, Pending, Empty, At
<1> QED BY <1>3, <1>4, <1>6, <1>7 DEF PipeInv

\* One call changes, and is not read for before or after.
LEMMA OneRelabelled ==
  ASSUME PipeInv, NEW c \in AllCalls, NEW k, GoodCall(k), k.task # "reading",
         call[c].task # "reading", call' = [call EXCEPT ![c] = k]
  PROVE  /\ call' \in [AllCalls -> CallRecord] /\ \A d \in AllCalls : GoodCall(call'[d])
         /\ \A d \in AllCalls :
               /\ call'[d].task = "reading" <=> ReaderOf(d)
               /\ ReaderOf(d) => call'[d].request = call[d].request
         /\ call'[c] = k /\ \A d \in AllCalls : d # c => call'[d] = call[d]
<1>1. call \in [AllCalls -> CallRecord] /\ k \in CallRecord
  BY DEF PipeInv, BridgeType, AllCalls, GoodCall
<1>2. call'[c] = k /\ \A d \in AllCalls : d # c => call'[d] = call[d]
  BY <1>1
<1>3. \A d \in AllCalls : GoodCall(call'[d])
  BY <1>2 DEF PipeInv
<1> QED BY <1>1, <1>2, <1>3 DEF ReaderOf

LEMMA DroppedTypes ==
  ASSUME PipeInv, NEW c \in AllCalls
  PROVE  /\ Dropped(c) \in [AllCalls -> CallRecord]
         /\ \A d \in AllCalls : /\ GoodCall(Dropped(c)[d]) /\ Dropped(c)[d].task = call[d].task
                                /\ Dropped(c)[d].request = call[d].request
<1> DEFINE k == [call[c] EXCEPT !.caller = IF @ = "waiting" THEN "left" ELSE @]
<1>1. call \in [AllCalls -> CallRecord] /\ \A d \in AllCalls : GoodCall(call[d])
  BY DEF PipeInv, BridgeType, AllCalls
<1>2. Dropped(c) = [call EXCEPT ![c] = k]
  BY DEF Dropped
<1>3. GoodCall(k) /\ k.task = call[c].task /\ k.request = call[c].request
  BY <1>1, LeftGood, Zenon
<1> HIDE DEF k
<1>4. k \in CallRecord
  BY <1>3 DEF GoodCall
<1> QED BY <1>1, <1>2, <1>3, <1>4

LEMMA PipeTypes ==
  ASSUME PipeInv
  PROVE  /\ call \in [AllCalls -> CallRecord] /\ DOMAIN call = AllCalls
         /\ host \in HostPlaces /\ proc \in [Starts -> ProcStates]
         /\ inbox \in [Starts -> Seq(Lines)] /\ outbox \in [Starts -> Seq(Answer)]
         /\ \A c \in AllCalls : GoodCall(call[c])
         /\ OneReader /\ Unasked /\ Unused /\ ChildInv
         /\ Controls \subseteq AllCalls /\ Calls \subseteq AllCalls
         /\ {"init", "status", "shutdown"} \subseteq AllCalls
  BY DEF PipeInv, BridgeType, AllCalls, Controls

LEMMA BeginPipe ==
  ASSUME PipeInv, UNCHANGED job, NEW c \in Calls, NEW r \in Asked[c], Begin(c, r)
  PROVE  PipeInv'
<1>1. r \in Lines /\ c \in AllCalls /\ c \notin Controls
  BY CallsAssumption DEF Lines, Requests, AllCalls
<1>2. /\ call[c].caller = "idle" /\ call' = [call EXCEPT ![c] = Asks(r)]
      /\ UNCHANGED <<host, child, proc, inbox, outbox>> /\ host = "serving"
  BY DEF Begin
<1>3. call[c].task = "none"
  BY <1>1, <1>2, PipeTypes, CallTypes DEF GoodCall
<1>4. GoodCall(Asks(r)) /\ Asks(r).task = "queued"
  BY <1>1, GoodNew, CallTypes
<1>5. /\ call' \in [AllCalls -> CallRecord] /\ \A d \in AllCalls : GoodCall(call'[d])
      /\ \A d \in AllCalls : /\ call'[d].task = "reading" <=> ReaderOf(d)
                             /\ ReaderOf(d) => call'[d].request = call[d].request
  BY <1>1, <1>2, <1>3, <1>4, OneRelabelled
<1>6. Unasked'
  BY <1>2 DEF Unasked
<1>7. Relabelled
  BY <1>2, <1>5, <1>6, PipeTypes DEF Relabelled
<1> QED BY <1>7, RelabelledInv

LEMMA LeavePipe ==
  ASSUME PipeInv, UNCHANGED job, NEW c \in Calls, Leave(c)
  PROVE  PipeInv'
<1>1. call' = Dropped(c) /\ UNCHANGED <<host, child, proc, inbox, outbox>> /\ c \in AllCalls
  BY DEF Leave, AllCalls
<1>2. \A d \in AllCalls : call'[d].task = call[d].task
  BY <1>1, DroppedTypes
<1>3. Unasked'
  BY <1>1, <1>2, PipeTypes DEF Unasked
<1>4. Relabelled
  BY <1>1, <1>3, PipeTypes, DroppedTypes DEF Relabelled, ReaderOf
<1> QED BY <1>4, RelabelledInv

LEMMA InitDonePipe ==
  ASSUME PipeInv, UNCHANGED job, InitDone
  PROVE  PipeInv'
<1> DEFINE k == Asks(Control("status"))
<1>1. /\ host = "init" /\ host' = "status" /\ call' = [call EXCEPT !["status"] = k]
      /\ UNCHANGED <<child, proc, inbox, outbox>>
  BY DEF InitDone, HostGoes
<1>2. GoodCall(k) /\ k.task = "queued"
  BY GoodNew, CallTypes, ControlLines DEF Controls
<1> HIDE DEF k
<1>3. call["status"].task = "none" /\ call["shutdown"].task = "none"
  BY <1>1, PipeTypes DEF Unasked
<1>4. /\ call' \in [AllCalls -> CallRecord] /\ \A d \in AllCalls : GoodCall(call'[d])
      /\ \A d \in AllCalls : /\ call'[d].task = "reading" <=> ReaderOf(d)
                             /\ ReaderOf(d) => call'[d].request = call[d].request
      /\ \A d \in AllCalls : d # "status" => call'[d] = call[d]
  BY <1>1, <1>2, <1>3, OneRelabelled, PipeTypes
<1>5. Unasked'
  BY <1>1, <1>3, <1>4, PipeTypes DEF Unasked
<1>6. Relabelled
  BY <1>1, <1>4, <1>5 DEF Relabelled, HostPlaces
<1> QED BY <1>6, RelabelledInv

LEMMA GiveUpPipe ==
  ASSUME PipeInv, UNCHANGED job, NEW c \in {"init", "status"}, GiveUp(c)
  PROVE  PipeInv'
<1> DEFINE k == Asks(Control("shutdown"))
           D == Dropped(c)
<1>1. /\ host = c /\ host' = "asking" /\ call' = [D EXCEPT !["shutdown"] = k]
      /\ UNCHANGED <<child, proc, inbox, outbox>>
  BY DEF GiveUp, HostGoes
<1>2. GoodCall(k) /\ k.task = "queued" /\ k \in CallRecord
  BY GoodNew, CallTypes, ControlLines DEF Controls
<1> HIDE DEF k
<1>3. call["shutdown"].task = "none" /\ "shutdown" \in AllCalls
  BY <1>1, PipeTypes DEF Unasked
<1>4. /\ D \in [AllCalls -> CallRecord]
      /\ \A d \in AllCalls : /\ GoodCall(D[d]) /\ D[d].task = call[d].task
                             /\ D[d].request = call[d].request
  BY PipeTypes, DroppedTypes
<1> HIDE DEF D
<1>5. /\ call' \in [AllCalls -> CallRecord] /\ call'["shutdown"] = k
      /\ \A d \in AllCalls : d # "shutdown" => call'[d] = D[d]
  BY <1>1, <1>2, <1>3, <1>4
<1>6. /\ \A d \in AllCalls : GoodCall(call'[d])
      /\ \A d \in AllCalls : /\ call'[d].task = "reading" <=> ReaderOf(d)
                             /\ ReaderOf(d) => call'[d].request = call[d].request
  BY <1>2, <1>3, <1>4, <1>5 DEF ReaderOf
<1>7. Unasked'
  BY <1>1 DEF Unasked
<1>8. Relabelled
  BY <1>1, <1>5, <1>6, <1>7 DEF Relabelled, HostPlaces
<1> QED BY <1>8, RelabelledInv

LEMMA HostWaitsPipe ==
  ASSUME PipeInv, UNCHANGED job, StatusDone \/ ShutdownAsked \/ WaitTimeout
  PROVE  PipeInv'
<1>1. /\ host \in {"status", "asking", "waiting"} /\ host' \in {"serving", "waiting", "killing"}
      /\ UNCHANGED <<child, inbox, outbox>>
      /\ proc' = proc \/ proc' = Kill(child)
      /\ call' = call \/ call' = Dropped("shutdown")
  BY DEF StatusDone, ShutdownAsked, WaitTimeout, HostGoes
<1>2. /\ call' \in [AllCalls -> CallRecord] /\ \A d \in AllCalls : GoodCall(call'[d])
      /\ \A d \in AllCalls : /\ call'[d].task = "reading" <=> ReaderOf(d)
                             /\ ReaderOf(d) => call'[d].request = call[d].request
  <2>1. CASE call' = call
    BY <2>1, PipeTypes DEF ReaderOf
  <2>2. CASE call' = Dropped("shutdown")
    BY <2>2, PipeTypes, DroppedTypes DEF ReaderOf
  <2> QED BY <1>1, <2>1, <2>2
<1>3. Unasked'
  BY <1>1 DEF Unasked
<1>4. Relabelled
  BY <1>1, <1>2, <1>3 DEF Relabelled, HostPlaces
<1> QED BY <1>4, RelabelledInv

LEMMA SettledTypes ==
  ASSUME PipeInv, NEW c \in AllCalls, call[c].task # "none", NEW a \in Answer,
         a.given # {} => \A r \in call[c].request : Fits(a, r),
         call' = Settled(c, a)
  PROVE  /\ call' \in [AllCalls -> CallRecord] /\ \A d \in AllCalls : GoodCall(call'[d])
         /\ call'[c].task = "none" /\ \A d \in AllCalls : d # c => call'[d] = call[d]
<1> DEFINE k == Finished(call[c], a)
<1>1. call' = [call EXCEPT ![c] = k]
  BY DEF Settled
<1>2. GoodCall(k) /\ k.task = "none" /\ k \in CallRecord
  <2>1. GoodCall(call[c])
    BY PipeTypes
  <2>2. GoodCall(k) /\ k.task = "none"
    BY <2>1, FinishedGood
  <2> QED BY <2>2 DEF GoodCall
<1> HIDE DEF k
<1> QED BY <1>1, <1>2, PipeTypes

LEMMA SendLinePipe ==
  ASSUME PipeInv, UNCHANGED job, NEW c \in AllCalls, SendLine(c)
  PROVE  PipeInv'
<1>1. /\ host # "down" /\ call[c].task = "queued" /\ IoFree
      /\ UNCHANGED <<host, child, proc, outbox>>
  BY DEF SendLine
<1>2. /\ child \in Starts /\ proc[child] # "unborn" /\ Empty(child)
      /\ \A d \in AllCalls : ~ReaderOf(d)
  BY <1>1, PipeTypes DEF IoFree, ChildInv, ReaderOf
<1>3. CASE proc[child] = "gone"
  <2>1. call' = Settled(c, Lost) /\ inbox' = inbox
    BY <1>3 DEF SendLine
  <2>2. /\ call' \in [AllCalls -> CallRecord] /\ \A d \in AllCalls : GoodCall(call'[d])
        /\ call'[c].task = "none" /\ \A d \in AllCalls : d # c => call'[d] = call[d]
    BY <1>1, <2>1, SettledTypes, CallTypes
  <2>3. \A d \in AllCalls : call[d].task = "none" => call'[d].task = "none"
    BY <2>2
  <2>4. Unasked'
    BY <1>1, <2>3, PipeTypes DEF Unasked
  <2>5. \A d \in AllCalls : ~(call'[d].task = "reading")
    BY <1>2, <2>2 DEF ReaderOf
  <2>6. Relabelled
    BY <1>1, <1>2, <2>1, <2>2, <2>4, <2>5, PipeTypes DEF Relabelled
  <2> QED BY <2>6, RelabelledInv
<1>4. CASE proc[child] # "gone"
  <2> DEFINE k == [call[c] EXCEPT !.task = "reading"]
  <2>1. call' = [call EXCEPT ![c] = k]
    BY <1>4 DEF SendLine
  <2>2. GoodCall(k) /\ k.task = "reading" /\ k.request = call[c].request
    BY <1>1, PipeTypes, ReadingGood, Zenon
  <2> HIDE DEF k
  <2>3. k \in CallRecord
    BY <2>2 DEF GoodCall
  <2>4. /\ call' \in [AllCalls -> CallRecord] /\ call'[c] = k
        /\ \A d \in AllCalls : d # c => call'[d] = call[d]
    BY <2>1, <2>3, PipeTypes
  <2>5. PICK r \in Lines : call[c].request = {r}
    BY <1>1, PipeTypes DEF GoodCall
  <2>6. inbox' = [inbox EXCEPT ![child] = Append(@, r)]
    BY <1>4, <2>5 DEF SendLine
  <2>7. /\ inbox[child] = <<>> /\ outbox[child] = <<>> /\ At(child, "idle")
    BY <1>2 DEF Empty
  <2>8. /\ inbox' \in [Starts -> Seq(Lines)] /\ inbox'[child] = <<r>>
        /\ \A q \in Starts : q # child => inbox'[q] = inbox[q]
    <3>1. Append(inbox[child], r) \in Seq(Lines) /\ Append(inbox[child], r) = <<r>>
      BY <1>2, <2>7, PipeTypes
    <3> QED BY <1>2, <2>6, <3>1, PipeTypes
  <2>9. BridgeType' /\ OneReader' /\ \A d \in AllCalls : GoodCall(call'[d])
    <3>1. \A d \in AllCalls : ReaderOf(d)' => d = c
      BY <1>2, <2>4 DEF ReaderOf
    <3> QED BY <1>1, <2>2, <2>4, <2>8, <3>1, PipeTypes
            DEF PipeInv, BridgeType, OneReader, AllCalls
  <2>10. Unasked'
    <3>1. \A d \in AllCalls : call[d].task = "none" => call'[d].task = "none"
      BY <1>1, <2>4
    <3> QED BY <1>1, <3>1, PipeTypes DEF Unasked
  <2>11. Unused'
    <3> SUFFICES ASSUME NEW q \in Starts
                 PROVE  /\ proc[q] = "unborn" => Empty(q)'
                        /\ proc[q] = "gone" => inbox'[q] = <<>> /\ At(q, "idle")'
      BY <1>1 DEF Unused
    <3>1. CASE q = child
      BY <3>1, <1>2, <1>4
    <3>2. CASE q # child
      BY <3>2, <1>1, <2>8, PipeTypes DEF Unused, Empty, At
    <3> QED BY <3>1, <3>2
  <2>12. ChildInv'
    <3>1. ReaderOf(c)' /\ \A d \in AllCalls : ReaderOf(d)' => d = c
      BY <1>2, <2>2, <2>4 DEF ReaderOf
    <3>2. \A s \in call'[c].request : s = r
      BY <2>2, <2>4, <2>5
    <3>3. Pending(child, r)'
      BY <1>1, <2>7, <2>8 DEF Pending, At
    <3> QED BY <1>1, <1>2, <3>1, <3>2, <3>3 DEF ChildInv, Pending, Empty, At
  <2> QED BY <2>9, <2>10, <2>11, <2>12 DEF PipeInv
<1> QED BY <1>3, <1>4

\* The call that was read for has its answer, and the pipes are empty.
Drained(c, a) ==
    /\ ReaderOf(c) /\ a \in Answer /\ call' = Settled(c, a)
    /\ a.given # {} => \A r \in call[c].request : Fits(a, r)
    /\ host # "down" /\ outbox' \in [Starts -> Seq(Answer)]
    /\ outbox'[child] = <<>> /\ \A q \in Starts : q # child => outbox'[q] = outbox[q]
    /\ inbox[child] = <<>> /\ At(child, "idle")
    /\ UNCHANGED <<host, child, proc, inbox, job>>

LEMMA DrainedInv ==
  ASSUME PipeInv, NEW c \in AllCalls, NEW a, Drained(c, a)
  PROVE  PipeInv'
<1> USE DEF Drained
<1>1. /\ call' \in [AllCalls -> CallRecord] /\ \A d \in AllCalls : GoodCall(call'[d])
      /\ call'[c].task = "none" /\ \A d \in AllCalls : d # c => call'[d] = call[d]
  BY SettledTypes DEF ReaderOf
<1>2. \A d \in AllCalls : ~ReaderOf(d)'
  BY <1>1, PipeTypes DEF OneReader, ReaderOf
<1>3. child \in Starts /\ proc[child] # "unborn"
  BY PipeTypes DEF ChildInv
<1>4. BridgeType' /\ OneReader'
  BY <1>1, <1>2, PipeTypes DEF PipeInv, BridgeType, OneReader, AllCalls
<1>5. Unasked'
  BY <1>1, PipeTypes DEF Unasked
<1>6. Unused'
  <2> SUFFICES ASSUME NEW q \in Starts
               PROVE  /\ proc[q] = "unborn" => Empty(q)'
                      /\ proc[q] = "gone" => inbox[q] = <<>> /\ At(q, "idle")
    BY DEF Unused, At
  <2>1. CASE q = child
    BY <1>3, <2>1
  <2>2. CASE q # child
    BY <2>2, PipeTypes DEF Unused, Empty, At
  <2> QED BY <2>1, <2>2
<1>7. ChildInv'
  BY <1>2, <1>3 DEF ChildInv, Empty, At
<1> QED BY <1>1, <1>4, <1>5, <1>6, <1>7 DEF PipeInv

\* The one request of a call that is read for is pending.
LEMMA ReaderPending ==
  ASSUME PipeInv, NEW c \in AllCalls, ReaderOf(c), host # "down"
  PROVE  child \in Starts /\ \E r \in Lines : call[c].request = {r} /\ Pending(child, r)
<1>1. PICK r \in Lines : call[c].request = {r}
  BY PipeTypes DEF GoodCall, ReaderOf
<1> QED BY <1>1, PipeTypes DEF ChildInv

LEMMA ReadPipe ==
  ASSUME PipeInv, UNCHANGED job, NEW c \in AllCalls, ReadLine(c) \/ ReadEof(c)
  PROVE  PipeInv'
<1>1. ReaderOf(c) /\ host # "down" /\ UNCHANGED <<host, child, proc, inbox>>
  BY DEF ReadLine, ReadEof, ReaderOf
<1>2. PICK r \in Lines : call[c].request = {r} /\ Pending(child, r)
  BY <1>1, ReaderPending
<1>3. child \in Starts /\ outbox[child] \in Seq(Answer)
  BY <1>1, PipeTypes DEF ChildInv
<1>4. CASE ReadLine(c)
  <2> DEFINE a == Head(outbox[child])
  <2>1. /\ outbox[child] # <<>> /\ call' = Settled(c, a)
        /\ outbox' = [outbox EXCEPT ![child] = Tail(@)]
    BY <1>4 DEF ReadLine
  <2>2. /\ inbox[child] = <<>> /\ At(child, "idle") /\ Tail(outbox[child]) = <<>> /\ Fits(a, r)
    BY <1>2, <2>1 DEF Pending, Empty
  <2>3. a \in Answer
    BY <1>3, <2>1
  <2>4. /\ outbox' \in [Starts -> Seq(Answer)] /\ outbox'[child] = <<>>
        /\ \A q \in Starts : q # child => outbox'[q] = outbox[q]
    BY <1>3, <2>1, <2>2, PipeTypes
  <2> HIDE DEF a
  <2>5. Drained(c, a)
    BY <1>1, <1>2, <2>1, <2>2, <2>3, <2>4 DEF Drained
  <2> QED BY <2>5, DrainedInv
<1>5. CASE ReadEof(c)
  <2>1. outbox[child] = <<>> /\ proc[child] = "gone" /\ call' = Settled(c, Lost) /\ outbox' = outbox
    BY <1>5 DEF ReadEof
  <2>2. inbox[child] = <<>> /\ At(child, "idle")
    BY <1>3, <2>1, PipeTypes DEF Unused
  <2>3. Drained(c, Lost)
    BY <1>1, <2>1, <2>2, PipeTypes, CallTypes DEF Drained
  <2> QED BY <2>3, DrainedInv
<1> QED BY <1>4, <1>5

LEMMA HostEndsPipe ==
  ASSUME PipeInv, UNCHANGED job, HostEnds, proc' = proc \/ proc' = Kill(child)
  PROVE  PipeInv'
<1>1. /\ host' = "down" /\ UNCHANGED <<child, inbox>>
      /\ call' = [c \in AllCalls |-> IF call[c].task = "none" THEN call[c]
                                     ELSE Finished(call[c], Lost)]
      /\ outbox' = [outbox EXCEPT ![child] = <<>>]
  BY PipeTypes DEF HostEnds
<1>2. \A c \in AllCalls : GoodCall(call'[c]) /\ call'[c].task = "none"
  <2> SUFFICES ASSUME NEW c \in AllCalls PROVE GoodCall(call'[c]) /\ call'[c].task = "none"
    OBVIOUS
  <2>1. CASE call[c].task = "none"
    BY <1>1, <2>1, PipeTypes
  <2>2. CASE call[c].task # "none"
    <3>1. GoodCall(Finished(call[c], Lost)) /\ Finished(call[c], Lost).task = "none"
      BY <2>2, PipeTypes, FinishedGood, CallTypes
    <3> QED BY <1>1, <2>2, <3>1
  <2> QED BY <2>1, <2>2
<1>3. call' \in [AllCalls -> CallRecord]
  <2>1. \A c \in AllCalls : call'[c] \in CallRecord
    BY <1>2 DEF GoodCall
  <2> QED BY <1>1, <2>1
<1>4. /\ proc' \in [Starts -> ProcStates]
      /\ \A p \in Starts : /\ proc'[p] = "unborn" <=> proc[p] = "unborn"
                           /\ proc'[p] = "gone" <=> proc[p] = "gone"
  BY KillTypes, PipeTypes
<1>5. /\ outbox' \in [Starts -> Seq(Answer)]
      /\ \A p \in Starts : outbox[p] = <<>> => outbox'[p] = <<>>
  <2>1. <<>> \in Seq(Answer)
    OBVIOUS
  <2> QED BY <1>1, <2>1, PipeTypes
<1>6. BridgeType'
  BY <1>1, <1>3, <1>4, <1>5, PipeTypes DEF PipeInv, BridgeType, AllCalls, HostPlaces
<1>7. OneReader' /\ Unasked'
  BY <1>1, <1>2 DEF OneReader, Unasked, ReaderOf
<1>8. Unused'
  BY <1>1, <1>4, <1>5, PipeTypes DEF Unused, Empty, At
<1>9. ChildInv'
  BY <1>1 DEF ChildInv
<1> QED BY <1>2, <1>6, <1>7, <1>8, <1>9 DEF PipeInv

LEMMA StartHostPipe ==
  ASSUME PipeInv, UNCHANGED job, NEW p \in Starts, StartHost(p)
  PROVE  PipeInv'
<1>1. /\ host = "down" /\ proc[p] = "unborn" /\ host' = "init" /\ child' = p
      /\ proc' = [proc EXCEPT ![p] = "running"]
      /\ call' = [c \in AllCalls |->
            IF c = "init" THEN Asks(Control(c)) ELSE IF c \in Controls THEN Silent ELSE call[c]]
      /\ UNCHANGED <<inbox, outbox>>
  BY PipeTypes DEF StartHost
<1>2. \A c \in AllCalls : GoodCall(call'[c]) /\ call'[c].task # "reading"
  <2> SUFFICES ASSUME NEW c \in AllCalls
               PROVE  GoodCall(call'[c]) /\ call'[c].task # "reading"
    OBVIOUS
  <2>1. GoodCall(Silent) /\ Silent.task = "none" /\ GoodCall(call[c]) /\ call[c].task = "none"
    BY <1>1, GoodNew, CallTypes, PipeTypes DEF Unasked
  <2>2. c = "init" => GoodCall(Asks(Control(c))) /\ Asks(Control(c)).task = "queued"
    BY GoodNew, CallTypes, ControlLines DEF Controls
  <2>3. call'[c] = IF c = "init" THEN Asks(Control(c)) ELSE IF c \in Controls THEN Silent ELSE call[c]
    BY <1>1
  <2> QED BY <2>1, <2>2, <2>3
<1>3. call' \in [AllCalls -> CallRecord]
  <2>1. \A c \in AllCalls : call'[c] \in CallRecord
    BY <1>2 DEF GoodCall
  <2> QED BY <1>1, <2>1
<1>4. /\ proc' \in [Starts -> ProcStates] /\ proc'[p] = "running"
      /\ \A q \in Starts : q # p => proc'[q] = proc[q]
  BY <1>1, PipeTypes DEF ProcStates
<1>5. BridgeType'
  BY <1>1, <1>3, <1>4, PipeTypes DEF BridgeType, AllCalls, HostPlaces
<1>6. OneReader'
  BY <1>2 DEF OneReader, ReaderOf
<1>7. Unasked'
  <2>1. call'["status"] = Silent /\ call'["shutdown"] = Silent
    BY <1>1, PipeTypes DEF Controls
  <2> QED BY <1>1, <2>1, CallTypes DEF Unasked
<1>8. Empty(p) /\ Empty(p)'
  BY <1>1, PipeTypes DEF Unused, Empty, At
<1>9. Unused'
  <2> SUFFICES ASSUME NEW q \in Starts
               PROVE  /\ proc'[q] = "unborn" => Empty(q)'
                      /\ proc'[q] = "gone" => inbox'[q] = <<>> /\ At(q, "idle")'
    BY DEF Unused
  <2>1. CASE q = p
    BY <1>4, <2>1
  <2>2. CASE q # p
    BY <1>1, <1>4, <2>2, PipeTypes DEF Unused, Empty, At
  <2> QED BY <2>1, <2>2
<1>10. ChildInv'
  <2>1. \A c \in AllCalls : ~ReaderOf(c)'
    BY <1>2 DEF ReaderOf
  <2>2. Empty(child)'
    BY <1>1, <1>8 DEF Empty, At
  <2>3. child' \in Starts /\ proc'[child'] # "unborn"
    BY <1>1, <1>4
  <2> QED BY <2>1, <2>2, <2>3 DEF ChildInv
<1> QED BY <1>2, <1>5, <1>6, <1>7, <1>9, <1>10 DEF PipeInv

LEMMA BridgePipe ==
  ASSUME PipeInv, UNCHANGED job, Bridge
  PROVE  PipeInv'
<1>1. CASE HostStep
  <2>1. HostEnds /\ UNCHANGED proc => PipeInv'
    BY HostEndsPipe
  <2> QED BY <1>1, <2>1, InitDonePipe, GiveUpPipe, HostWaitsPipe DEF HostStep, StartFailed
<1>2. CASE HostStops \/ HostCrashes
  BY <1>2, HostEndsPipe DEF HostStops, HostCrashes
<1>3. CASE \E p \in Starts : StartHost(p)
  BY <1>3, StartHostPipe
<1>4. CASE TasksStep
  BY <1>4, SendLinePipe, ReadPipe, PipeTypes DEF TasksStep
<1>5. CASE \E c \in Calls : Leave(c) \/ \E r \in Asked[c] : Begin(c, r)
  BY <1>5, LeavePipe, BeginPipe
<1> QED BY <1>1, <1>2, <1>3, <1>4, <1>5 DEF Bridge

LEMMA StoreOnly ==
  ASSUME IInv, UNCHANGED <<bridgeVars, job>>
  PROVE  PipeInv'
<1>1. UNCHANGED <<host, child, proc, call, inbox, outbox, job>>
  BY DEF bridgeVars
<1>2. BridgeType' /\ OneReader' /\ Unasked' /\ \A c \in AllCalls : GoodCall(call'[c])
  BY <1>1 DEF IInv, PipeInv, BridgeType, OneReader, Unasked, ReaderOf
<1>3. Unused'
  BY <1>1 DEF IInv, PipeInv, Unused, Empty, At
<1>4. ChildInv'
  BY <1>1 DEF IInv, PipeInv, ChildInv, Pending, Empty, At, ReaderOf
<1> QED BY <1>2, <1>3, <1>4 DEF PipeInv

LEMMA PipeInit_Inv == Init => PipeInv
<1> SUFFICES ASSUME Init PROVE PipeInv
  OBVIOUS
<1>1. /\ host = "down" /\ child = 0 /\ proc = [p \in Starts |-> "unborn"]
      /\ call = [c \in AllCalls |-> Silent]
      /\ inbox = [p \in Starts |-> <<>>] /\ outbox = [p \in Starts |-> <<>>]
      /\ job = [p \in Starts |-> IdleJob]
  BY NodeAssumption DEF Init, BridgeInit, StoreInit, AllCalls
<1>2. <<>> \in Seq(Lines) /\ <<>> \in Seq(Answer)
  OBVIOUS
<1>3. BridgeType
  BY <1>1, <1>2, CallTypes DEF BridgeType, HostPlaces, ProcStates, AllCalls
<1>4. \A c \in AllCalls : GoodCall(call[c]) /\ call[c].task = "none"
  BY <1>1, GoodNew, CallTypes
<1>5. Unused
  BY <1>1, JobTypes DEF Unused, Empty, At
<1> QED BY <1>1, <1>3, <1>4, <1>5 DEF PipeInv, OneReader, Unasked, ChildInv, ReaderOf

-----------------------------------------------------------------------------
(* The theorems. *)

LEMMA ProviderStep ==
  ASSUME IInv, NEW p \in Processes, Provider(p)
  PROVE  IInv'
<1> USE DEF IInv
<1>1. p \in Starts
  BY NodeAssumption
<1>2. CASE Receive(p)
  BY <1>1, <1>2, ReceivePipe, TurnInv, ReceiveInv, TurnTypes
<1>3. CASE Serve(p)
  BY <1>1, <1>3, ServePipe, TurnInv, StoreStepInv DEF Serve
<1>4. CASE Reply(p)
  BY <1>1, <1>4, ReplyPipe, TurnInv, EndedInv DEF Reply
<1>5. CASE SeesEof(p) \/ Dies(p) \/ Reaped(p)
  <2>1. Gone(p) /\ Ended(p)
    BY <1>5 DEF SeesEof, Dies, Reaped
  <2> QED BY <1>1, <2>1, GonePipe, TurnInv, EndedInv
<1> QED BY <1>2, <1>3, <1>4, <1>5 DEF Provider

LEMMA Inductive == IInv /\ [Next]_vars => IInv'
<1> SUFFICES ASSUME IInv, [Next]_vars PROVE IInv'
  OBVIOUS
<1> USE DEF IInv
<1>1. CASE Bridge /\ UNCHANGED storeVars
  <2>1. UNCHANGED job
    BY <1>1 DEF storeVars
  <2> QED BY <1>1, <2>1, BridgePipe, StoreStutter
<1>2. CASE \E p \in Processes : Provider(p)
  BY <1>2, ProviderStep
<1>3. CASE Tick
  <2>1. UNCHANGED <<bridgeVars, job>>
    BY <1>3 DEF Tick
  <2> QED BY <1>3, <2>1, TickInv, StoreOnly
<1>4. CASE UNCHANGED vars
  <2>1. UNCHANGED storeVars /\ UNCHANGED <<bridgeVars, job>>
    BY <1>4 DEF vars, storeVars
  <2> QED BY <2>1, StoreStutter, StoreOnly
<1> QED BY <1>1, <1>2, <1>3, <1>4 DEF Next

LEMMA Invariance == Spec => []IInv
<1>1. Init => IInv
  BY StoreInit_Inv, PipeInit_Inv DEF IInv
<1> QED BY <1>1, Inductive, PTL DEF Spec

\* The node is type-correct: the file never holds more than MaxRecords records.
THEOREM NodeTypeCorrect == Spec => []TypeOK
<1>1. IInv => TypeOK
  <2> SUFFICES ASSUME IInv PROVE TypeOK
    OBVIOUS
  <2>1. StoreType /\ Small(records) /\ BridgeType
    BY DEF IInv, StoreInv, GoodFile, PipeInv
  <2> QED BY <2>1 DEF TypeOK, StoreType, BridgeType, Small, Job, CallRecord
<1> QED BY <1>1, Invariance, PTL

\* ExclusiveFileLock and has_conflicting_active_record: while an operation is
\* claimed, no second contribution is produced for it, nor one for an operation
\* that shares a mark with it, whichever of the host's processes is asked.
THEOREM ClaimsAlwaysExclude == Spec => []ClaimsExclude
<1>1. IInv => ClaimsExclude
  BY DEF IInv, StoreInv, Excluded, Kept, Clash, ClaimsExclude
<1> QED BY <1>1, Invariance, PTL

\* claim_or_replay_node_contribution_with_rng: a contribution that was returned
\* is in the file for as long as its claim lasts, so a retry whose own request is
\* still valid finds that one.
THEOREM AnswersAlwaysDurable == Spec => []AnswersDurable
<1>1. IInv => AnswersDurable
  BY DEF IInv, StoreInv, Covers, Rec, AnswersDurable
<1> QED BY <1>1, Invariance, PTL

\* send_json_line: no caller is given the contribution that another one asked
\* for, whichever calls are cancelled and whichever processes are killed.
THEOREM AnswersAlwaysOwn == Spec => []OwnAnswer
<1>1. IInv => OwnAnswer
  <2> SUFFICES ASSUME IInv, NEW c \in Calls, NEW g \in call[c].answer.given
               PROVE  [op |-> g.op, decision |-> g.decision] \in call[c].request
    BY DEF OwnAnswer
  <2>1. GoodCall(call[c])
    BY PipeTypes DEF IInv
  <2>2. PICK r \in call[c].request : g.op = r.op /\ g.decision = r.decision
    BY <2>1 DEF GoodCall, Fits
  <2>3. r \in Lines
    BY <2>1, GoodRequest
  <2>4. r = [op |-> r.op, decision |-> r.decision]
    BY <2>3, NodeAssumption DEF Lines, Control
  <2> QED BY <2>2, <2>4
<1> QED BY <1>1, Invariance, PTL
=============================================================================
