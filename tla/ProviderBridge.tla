----------------------------- MODULE ProviderBridge -----------------------------
(***************************************************************************)
(* elastos-runtime/src/provider/bridge.rs: the bridge of a provider host   *)
(* to the provider process it has spawned, over the process's stdin and    *)
(* stdout.  Every request runs in a task of its own, which takes the       *)
(* bridge's I/O lock, writes one line and reads one line, whether or not   *)
(* its caller still waits.  The host starts a process with `init`, asks    *)
(* for its status, and on failure asks it to shut down, then kills it.     *)
(***************************************************************************)
EXTENDS Naturals, Sequences

CONSTANTS Calls,       \* client calls
          Asked,       \* client call -> what it may ask
          Starts       \* starts of the host, each with a process of its own

Controls == {"init", "status", "shutdown"}
ASSUME StartsAssumption == Starts \in SUBSET Nat /\ 0 \notin Starts
ASSUME CallsAssumption == Calls \cap Controls = {}
Requests == UNION {Asked[c] : c \in Calls}

VARIABLES host,     \* where the host is
          child,    \* the process it has spawned last, 0 before the first
          proc,     \* process -> its state in the kernel
          call,     \* call -> its caller, its task, its request, its answer
          inbox,    \* process -> lines on its stdin
          outbox    \* process -> lines on its stdout
bridgeVars == <<host, child, proc, call, inbox, outbox>>

HostPlaces == {"down", "init", "status", "serving", "asking", "waiting", "killing"}
ProcStates == {"unborn", "running", "killed", "gone"}
Callers == {"idle", "waiting", "left", "done"}
Tasks == {"none", "queued", "reading"}

Control(c) == [op |-> c, decision |-> "none"]
Lost == [ok |-> FALSE, given |-> {}]
Silent == [caller |-> "idle", task |-> "none", request |-> {}, answer |-> Lost]
Asks(r) == [caller |-> "waiting", task |-> "queued", request |-> {r}, answer |-> Lost]

BridgeInit ==
    /\ host = "down" /\ child = 0
    /\ proc = [p \in Starts |-> "unborn"]
    /\ call = [c \in Calls \union Controls |-> Silent]
    /\ inbox = [p \in Starts |-> <<>>] /\ outbox = [p \in Starts |-> <<>>]

\* A task ends: its caller, if it still waits, has the answer, and a failure is
\* the end of the request.
Finished(record, answer) ==
    IF record.caller = "waiting" /\ answer # Lost
    THEN [record EXCEPT !.caller = "done", !.task = "none", !.answer = answer]
    ELSE [Silent EXCEPT !.caller = "done"]
Settled(c, answer) == [call EXCEPT ![c] = Finished(@, answer)]

-----------------------------------------------------------------------------
(* send_json_line *)

IoFree == \A c \in DOMAIN call : call[c].task # "reading"

SendLine(c) ==
    /\ host # "down" /\ call[c].task = "queued" /\ IoFree
    /\ IF proc[child] = "gone"
       THEN call' = Settled(c, Lost) /\ UNCHANGED inbox
       ELSE /\ call' = [call EXCEPT ![c].task = "reading"]
            /\ \E r \in call[c].request : inbox' = [inbox EXCEPT ![child] = Append(@, r)]
    /\ UNCHANGED <<host, child, proc, outbox>>

ReadLine(c) ==
    /\ host # "down" /\ call[c].task = "reading"
    /\ outbox[child] # <<>>
    /\ call' = Settled(c, Head(outbox[child]))
    /\ outbox' = [outbox EXCEPT ![child] = Tail(@)]
    /\ UNCHANGED <<host, child, proc, inbox>>

ReadEof(c) ==
    /\ host # "down" /\ call[c].task = "reading"
    /\ outbox[child] = <<>> /\ proc[child] = "gone"
    /\ call' = Settled(c, Lost)
    /\ UNCHANGED <<host, child, proc, inbox, outbox>>

TasksStep == \E c \in DOMAIN call : SendLine(c) \/ ReadLine(c) \/ ReadEof(c)

\* Mutant: the task ends with its caller, its line stays in the pipe.
Dropped_undrained(c) ==
    [call EXCEPT ![c] = IF @.caller = "waiting" THEN Finished(@, Lost) ELSE @]

\* The caller is cancelled or times out; its task is not, and reads its line.
Dropped(c) == [call EXCEPT ![c].caller = IF @ = "waiting" THEN "left" ELSE @]

Begin(c, r) ==
    /\ host = "serving" /\ call[c].caller = "idle"
    /\ call' = [call EXCEPT ![c] = Asks(r)]
    /\ UNCHANGED <<host, child, proc, inbox, outbox>>

Leave(c) ==
    /\ call[c].caller = "waiting" /\ call' = Dropped(c)
    /\ UNCHANGED <<host, child, proc, inbox, outbox>>

-----------------------------------------------------------------------------
(* The host: spawn_command, register_inactive_custody_provider, shutdown. *)

\* The next process is spawned and asked to init.
StartHost(p) ==
    /\ host = "down" /\ proc[p] = "unborn" /\ child < p
    /\ host' = "init" /\ child' = p
    /\ proc' = [proc EXCEPT ![p] = "running"]
    /\ call' = [c \in DOMAIN call |->
                  IF c = "init" THEN Asks(Control(c)) ELSE IF c \in Controls THEN Silent ELSE call[c]]
    /\ UNCHANGED <<inbox, outbox>>

HostGoes(place) == host' = place /\ UNCHANGED <<child, proc, inbox, outbox>>
AnsweredOk(c) == call[c].caller = "done" /\ call[c].answer.ok

InitDone ==
    /\ host = "init" /\ AnsweredOk("init")
    /\ call' = [call EXCEPT !["status"] = Asks(Control("status"))]
    /\ HostGoes("status")

StatusDone ==
    /\ host = "status" /\ AnsweredOk("status")
    /\ UNCHANGED call /\ HostGoes("serving")

\* The init or the status failed or timed out, or what the status said was not
\* accepted: the bridge is shut down.
GiveUp(c) ==
    /\ host = c /\ c \in {"init", "status"}
    /\ c = "init" => ~AnsweredOk(c)
    /\ call' = [Dropped(c) EXCEPT !["shutdown"] = Asks(Control("shutdown"))]
    /\ HostGoes("asking")

\* Mutant: the shutdown request has no timeout.
ShutdownAsked_untimed ==
    /\ host = "asking" /\ call["shutdown"].caller = "done"
    /\ UNCHANGED call /\ HostGoes("waiting")

\* shutdown: its request is answered or times out, then the exit is awaited,
\* then the process is killed.
ShutdownAsked ==
    /\ host = "asking"
    /\ call' = Dropped("shutdown") /\ HostGoes("waiting")

Kill(p) == [proc EXCEPT ![p] = IF @ = "running" THEN "killed" ELSE @]
WaitTimeout ==
    /\ host = "waiting" /\ proc[child] # "gone"
    /\ host' = "killing" /\ proc' = Kill(child)
    /\ UNCHANGED <<child, call, inbox, outbox>>

\* With the host its tasks and its ends of the pipes are gone, and whoever waits
\* has lost the answer.
HostEnds ==
    /\ host' = "down"
    /\ call' = [c \in DOMAIN call |->
                  IF call[c].task = "none" THEN call[c] ELSE Finished(call[c], Lost)]
    /\ outbox' = [outbox EXCEPT ![child] = <<>>]
    /\ UNCHANGED <<child, inbox>>

\* The failed start is reported once the process is gone or could not be reaped.
StartFailed ==
    /\ host = "killing" \/ (host = "waiting" /\ proc[child] = "gone")
    /\ HostEnds /\ UNCHANGED proc

\* Told to stop, the host drops its registry, which kills the process.
HostStops == host = "serving" /\ HostEnds /\ proc' = Kill(child)
\* The host dies and leaves the process behind.
HostCrashes == host # "down" /\ HostEnds /\ UNCHANGED proc

HostStep ==
    \/ InitDone \/ StatusDone \/ GiveUp("init") \/ GiveUp("status")
    \/ ShutdownAsked \/ WaitTimeout \/ StartFailed

-----------------------------------------------------------------------------
(* The process's ends of the pipes. *)

Connected(p) == host # "down" /\ child = p
Take(p) ==
    /\ inbox' = [inbox EXCEPT ![p] = Tail(@)]
    /\ UNCHANGED <<host, child, proc, call, outbox>>
Put(p, answer) ==
    /\ outbox' = [outbox EXCEPT ![p] = Append(@, answer)]
    /\ UNCHANGED <<host, child, call, inbox>>
Gone(p) ==
    /\ proc' = [proc EXCEPT ![p] = "gone"]
    /\ inbox' = [inbox EXCEPT ![p] = <<>>]
    /\ UNCHANGED <<host, child, call, outbox>>
=============================================================================
