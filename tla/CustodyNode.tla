------------------------------ MODULE CustodyNode ------------------------------
(***************************************************************************)
(* A custody node: a provider host, its bridge, and the custody provider   *)
(* (capsules/custody-provider/src/main.rs) with its replay store.  The     *)
(* host may crash and leave its provider behind: then the old process      *)
(* finishes what it is doing beside the one of the next host, on the same  *)
(* files.                                                                  *)
(***************************************************************************)
EXTENDS ProviderBridge, ReplayStore

CONSTANTS MaxClock   \* bound: the last time the clock shows
ASSUME NodeAssumption ==
    /\ Processes = Starts /\ MaxClock \in Nat
    /\ Requests \subseteq [op : Operations, decision : Decisions]
    /\ Operations \cap Controls = {}

vars == <<bridgeVars, storeVars>>

Init == BridgeInit /\ StoreInit

-----------------------------------------------------------------------------
(* run_provider_loop *)

Reading(p) == proc[p] = "running" /\ At(p, "idle")

\* A control request is answered at once; only the configuration that comes
\* with `init` can be refused.
AnswerControl(p, r) ==
    /\ \E ok \in BOOLEAN :
          /\ ~ok => r.op = "init"
          /\ job' = [job EXCEPT ![p] = [Replying([ok |-> ok, given |-> {}])
                                           EXCEPT !.last = (r.op = "shutdown")]]
    /\ UNCHANGED <<clock, records, temp, lock, sent, made>>

Receive(p) ==
    /\ Reading(p) /\ inbox[p] # <<>> /\ Take(p)
    /\ LET r == Head(inbox[p])
       IN IF r.op \in Controls THEN AnswerControl(p, r) ELSE BeginRelease(p, r)

Serve(p) == proc[p] = "running" /\ StoreStep(p) /\ UNCHANGED bridgeVars

\* The answer is written; after the last one, or when nobody reads it, the
\* process exits.
Reply(p) ==
    /\ proc[p] = "running" /\ At(p, "replying")
    /\ IF Connected(p)
       THEN /\ Put(p, job[p].answer)
            /\ proc' = IF job[p].last THEN [proc EXCEPT ![p] = "gone"] ELSE proc
       ELSE Gone(p)
    /\ Ended(p)

SeesEof(p) == Reading(p) /\ inbox[p] = <<>> /\ ~Connected(p) /\ Gone(p) /\ Ended(p)

\* The process dies, or has been killed and is reaped.
Dies(p) == proc[p] = "running" /\ Gone(p) /\ Ended(p)
Reaped(p) == proc[p] = "killed" /\ Gone(p) /\ Ended(p)

-----------------------------------------------------------------------------
Tick ==
    /\ clock < MaxClock /\ clock' = clock + 1
    /\ UNCHANGED <<bridgeVars, records, temp, lock, job, sent, made>>

Bridge ==
    \/ HostStep \/ HostStops \/ HostCrashes
    \/ \E p \in Starts : StartHost(p)
    \/ TasksStep
    \/ \E c \in Calls : Leave(c) \/ \E r \in Asked[c] : Begin(c, r)

Provider(p) == Receive(p) \/ Serve(p) \/ Reply(p) \/ SeesEof(p) \/ Dies(p) \/ Reaped(p)

Next ==
    \/ Bridge /\ UNCHANGED storeVars
    \/ \E p \in Processes : Provider(p)
    \/ Tick

\* The host's steps, its timers and its tasks; the kernel reaps what was killed.
\* Nothing is asked of the provider, which may hang, nor of the clients.
Fairness ==
    /\ WF_vars(HostStep /\ UNCHANGED storeVars)
    /\ WF_vars(TasksStep /\ UNCHANGED storeVars)
    /\ WF_vars(\E p \in Processes : Reaped(p))

Spec == Init /\ [][Next]_vars /\ Fairness

-----------------------------------------------------------------------------
(* Properties. *)

Lines == Requests \union {Control(c) : c \in Controls}

\* TYPE: the type invariant; the store never holds more than MaxRecords.
TypeOK ==
    /\ host \in HostPlaces /\ child \in Starts \union {0} /\ proc \in [Starts -> ProcStates]
    /\ call \in [Calls \union Controls ->
           [caller : Callers, task : Tasks, request : SUBSET Lines, answer : Answer]]
    /\ inbox \in [Starts -> Seq(Lines)] /\ outbox \in [Starts -> Seq(Answer)]
    /\ clock \in 0 .. MaxClock /\ temp \in BOOLEAN /\ made \in Nat
    /\ records \in SUBSET Record /\ Cardinality(records) <= MaxRecords
    /\ lock \in SUBSET Processes /\ sent \in SUBSET Contribution
    /\ job \in [Processes ->
           [step : Steps, request : SUBSET Requests, now : Nat, at : Nat,
            view : SUBSET Record, answer : Answer, last : BOOLEAN]]

\* "a cancelled HTTP request can cause the following provider call to receive
\* the previous call's response": a caller that is given a contribution is
\* given the one for its own operation and its own decision.
OwnAnswer ==
    \A c \in Calls : \A g \in call[c].answer.given :
        [op |-> g.op, decision |-> g.decision] \in call[c].request

\* While an operation is claimed, its node produces no second contribution for
\* it, and none for an operation that shares a replay key or an audit id.  The
\* time that counts is when the lock was obtained: `now` may be older.
ClaimsExclude ==
    \A c, d \in sent :
        (c.id < d.id /\ Marks[c.op] \cap Marks[d.op] # {}) => d.at >= ClaimedUntil[c.op]

\* What has been returned is in the store's file for as long as the claim lasts,
\* whatever process is killed: a retry whose request is still valid finds it.
AnswersDurable ==
    \A c \in sent :
        clock < ClaimedUntil[c.op] => [op |-> c.op, result |-> {c}] \in records

\* A start of the host ends, and so does the wait of a caller whose provider
\* process is gone, even if the provider never answers a line.
Starting == host \in {"init", "status", "asking", "waiting", "killing"}
Orphaned(c) == call[c].caller = "waiting" /\ proc[child] \in {"killed", "gone"}
Awaited == Starting \/ \E c \in Calls : Orphaned(c)
NoEndlessWait == []<>~Awaited
=============================================================================
