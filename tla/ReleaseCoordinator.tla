------------------------- MODULE ReleaseCoordinator -------------------------
(***************************************************************************)
(* elastos-protected-content-runtime/src/coordinator.rs: concurrent calls  *)
(* of release and resume_exact over one ReleaseJournal.  A call is a       *)
(* process with one step per journal operation and per awaited provider    *)
(* call.  Providers answer anything: an Allowed decision (one of several a *)
(* node may sign), a denial, an error, a response that does not validate.  *)
(* A call can end between any two steps (a failed check, a dropped future),*)
(* a journal operation can fail or be cut short, the process can crash.    *)
(***************************************************************************)
EXTENDS ReleaseJournal

CONSTANTS Callers, NoOperation

\* What a call returned last: RuntimeReleaseCoordinatorOutcome, or an error, of
\* which the journal's refusal of a replay is told apart.
Answers == {"none", "terminal", "nonterminal", "conflict", "error"}
Steps == {"mark", "rights", "custody", "reconcile", "settle"}
Call == [at : Answers \cup Steps,
         op : Operations \cup {NoOperation},
         resuming : BOOLEAN,        \* StartedOperationResolutionMode::ExactResume
         known : SUBSET Allowed,    \* replayable_rights_decisions of the context
         fresh : SUBSET Allowed,    \* newly_replayable_rights_decisions
         next : 1 .. ProviderCount + 1,   \* the first provider not yet passed
         shares : SUBSET Allowed,   \* contributions
         offer : Terminal \cup {Open}]

VARIABLES
    calls,
    expired,  \* operations whose signed statement no longer verifies
    initial,  \* ghost: how many initial dispatches of an operation have begun
    custody,  \* ghost: the decisions a contribution was requested for
    denials,  \* ghost: the nodes that denied
    told      \* ghost: the terminal results returned to a caller

ghosts == <<initial, custody, denials, told>>
vars == <<journalVars, calls, expired, ghosts>>

TypeOK ==
    /\ JournalTypeOK
    /\ calls \in [Callers -> Call]
    /\ expired \subseteq Operations
    /\ initial \in [Operations -> Nat]
    /\ custody \in [Operations -> SUBSET Allowed]
    /\ denials \in [Operations -> SUBSET Providers]
    /\ told \in [Operations -> SUBSET Terminal]

(* Mutant: the providers are counted from 0. *)
Rest_zero(answer) == [at |-> answer, op |-> NoOperation, resuming |-> FALSE, known |-> {},
                      fresh |-> {}, next |-> 0, shares |-> {}, offer |-> Open]

Rest(answer) == [at |-> answer, op |-> NoOperation, resuming |-> FALSE, known |-> {},
                 fresh |-> {}, next |-> 1, shares |-> {}, offer |-> Open]

Init ==
    /\ JournalInit
    /\ calls = [p \in Callers |-> Rest("none")]
    /\ expired = {}
    /\ initial = [o \in Operations |-> 0]
    /\ custody = [o \in Operations |-> {}]
    /\ denials = [o \in Operations |-> {}]
    /\ told = [o \in Operations |-> {}]

Resting(p) == calls[p].at \in Answers
Return(p, answer) == calls' = [calls EXCEPT ![p] = Rest(answer)]
Op(p) == calls[p].op

\* The terminal result on record is the answer.
TellTerminal(p, o) ==
    /\ told' = [told EXCEPT ![o] = @ \cup {records[o].terminal}]
    /\ Return(p, "terminal")
    /\ UNCHANGED <<expired, initial, custody, denials>>

-----------------------------------------------------------------------------
\* release up to the journal: the statement verifies, then
\* persist_before_provider_effect records the operation or replays it.
\* write_or_replay compares a replay with the record field by field and takes
\* all but the terminal result and effect_started from the replay, so one
\* whose record has decisions is a conflict.
ReleaseNew(p, o) ==
    /\ Resting(p) /\ o \notin expired /\ ~Known(o)
    /\ \/ /\ HasRoom
          /\ WriteRecord(o, NewRecord)
          /\ calls' = [calls EXCEPT ![p] = [Rest("mark") EXCEPT !.op = o]]
       \/ ~HasRoom /\ ReadJournal /\ Return(p, "error")
    /\ UNCHANGED <<expired, ghosts>>

(* Mutant: an operation on record is dispatched like a new one. *)
ReleaseReplay_redispatch(p, o) ==
    /\ Resting(p) /\ o \notin expired /\ Known(o) /\ ReadJournal
    /\ calls' = [calls EXCEPT ![p] = [Rest("mark") EXCEPT !.op = o]]
    /\ UNCHANGED <<expired, ghosts>>

ReleaseReplay(p, o) ==
    /\ Resting(p) /\ o \notin expired /\ Known(o) /\ ReadJournal
    /\ \/ Settled(o) /\ TellTerminal(p, o)
       \/ /\ ~Settled(o)
          /\ IF records[o].decisions # {} THEN Return(p, "conflict")
             ELSE IF Started(o) THEN Return(p, "nonterminal")
             ELSE calls' = [calls EXCEPT ![p] = [Rest("mark") EXCEPT !.op = o]]
          /\ UNCHANGED <<expired, ghosts>>

MustMark(p) == calls[p].at = "mark" /\ ~Started(Op(p))

Dispatch(p) ==
    /\ calls' = [calls EXCEPT ![p].at = "rights"]
    /\ initial' = [initial EXCEPT ![Op(p)] = @ + 1]
    /\ UNCHANGED <<expired, custody, denials, told>>

(* Mutant: the providers are called before the record is marked. *)
MarkStarted_later(p) ==
    /\ calls[p].at = "mark" /\ ReadJournal /\ Dispatch(p)

\* mark_provider_effect_started succeeds whether or not it was this call that
\* marked the record.
MarkStarted(p) ==
    /\ calls[p].at = "mark"
    /\ IF MustMark(p) THEN WriteRecord(Op(p), StartedRecord(Op(p))) ELSE ReadJournal
    /\ Dispatch(p)

\* resume_exact up to the first provider call.
Resume(p, o) ==
    /\ Resting(p) /\ ReadJournal
    /\ \/ Settled(o) /\ TellTerminal(p, o)
       \/ /\ ~Settled(o)
          /\ IF Started(o) /\ o \notin expired
             THEN calls' = [calls EXCEPT ![p] = [Rest("rights") EXCEPT
                        !.op = o, !.resuming = TRUE, !.known = records[o].decisions]]
             ELSE Return(p, "error")
          /\ UNCHANGED <<expired, ghosts>>

-----------------------------------------------------------------------------
\* collect_rights_decisions: the providers in order, except those whose
\* decision is known, until there are enough.
Held(p) == calls[p].known \cup calls[p].fresh
ToAsk(p) == {n \in Providers : n >= calls[p].next /\ n \notin Deciders(Held(p))}

RightsOver(p) ==
    /\ calls[p].at = "rights"
    /\ Cardinality(Held(p)) >= Threshold \/ ToAsk(p) = {}

\* The offer that the call will try to settle the operation with.
MakeOffer(p, offer) ==
    calls' = [calls EXCEPT ![p] = [Rest("reconcile") EXCEPT !.op = Op(p), !.offer = offer]]

\* One awaited evaluate_rights call of the first provider left and its answer.
AskRights(p, n) ==
    /\ calls[p].at = "rights" /\ ~RightsOver(p)
    /\ n \in ToAsk(p) /\ \A m \in ToAsk(p) : n <= m
    /\ \/ \E v \in Versions :
             /\ calls' = [calls EXCEPT ![p].fresh = @ \cup {<<n, v>>}, ![p].next = n + 1]
             /\ UNCHANGED denials
       \/ /\ denials' = [denials EXCEPT ![Op(p)] = @ \cup {n}]
          /\ MakeOffer(p, [kind |-> "denied", by |-> n])
       \/ \* no exact result: an initial dispatch stops here, a resume goes on
          /\ calls' = [calls EXCEPT ![p].next =
                           IF calls[p].resuming THEN n + 1 ELSE ProviderCount + 1]
          /\ UNCHANGED denials
       \/ \* the response does not validate
          /\ IF calls[p].resuming THEN Return(p, "error")
             ELSE calls' = [calls EXCEPT ![p].next = ProviderCount + 1]
          /\ UNCHANGED denials
    /\ UNCHANGED <<journalVars, expired, initial, custody, told>>

\* Enough decisions are known: on to the contributions.
WithDecisions(p, D) ==
    IF Cardinality(D) < Threshold THEN Return(p, "nonterminal")
    ELSE calls' = [calls EXCEPT ![p].at = "custody", ![p].known = D,
                                ![p].fresh = {}, ![p].next = 1]

\* Nothing new: the decisions of the context, and the journal is left alone.
NothingToPersist(p) ==
    /\ RightsOver(p) /\ calls[p].fresh = {}
    /\ WithDecisions(p, calls[p].known)
    /\ UNCHANGED <<journalVars, expired, ghosts>>

MustMerge(p) ==
    /\ RightsOver(p) /\ calls[p].fresh # {}
    /\ ~Settled(Op(p)) /\ ~MergeConflicts(Op(p), calls[p].fresh)

\* persist_replayable_rights_decisions, and what it returns: the decisions on
\* record, which are none once the operation is settled.
PersistDecisions(p) ==
    /\ RightsOver(p) /\ calls[p].fresh # {}
    /\ IF MustMerge(p)
       THEN LET merged == MergedRecord(Op(p), calls[p].fresh)
            IN  WriteRecord(Op(p), merged) /\ WithDecisions(p, merged.decisions)
       ELSE /\ ReadJournal
            /\ IF Settled(Op(p)) THEN WithDecisions(p, {}) ELSE Return(p, "error")
    /\ UNCHANGED <<expired, ghosts>>

-----------------------------------------------------------------------------
\* collect_contributions: a share from each node with a decision, in order.
ShareToAsk(p) == {d \in calls[p].known : d[1] >= calls[p].next}

(* Mutant: one share less will do. *)
EnoughShares_short(shares) == Cardinality(shares) + 1 >= Threshold

EnoughShares(shares) == Cardinality(shares) = Threshold

\* One awaited release_contribution call and its answer.
AskCustody(p, d) ==
    /\ calls[p].at = "custody"
    /\ d \in ShareToAsk(p) /\ \A e \in ShareToAsk(p) : d[1] <= e[1]
    /\ custody' = [custody EXCEPT ![Op(p)] = @ \cup {d}]
    /\ \/ LET shares == calls[p].shares \cup {d}
          IN  IF EnoughShares(shares) THEN MakeOffer(p, [kind |-> "ready", shares |-> shares])
              ELSE calls' = [calls EXCEPT ![p].shares = shares, ![p].next = d[1] + 1]
       \/ \* no exact result
          IF calls[p].resuming THEN calls' = [calls EXCEPT ![p].next = d[1] + 1]
          ELSE Return(p, "nonterminal")
       \/ \* the response or the share does not verify, or the future is dropped
          \E answer \in {"error", "nonterminal"} :
              /\ calls[p].resuming => answer = "error"
              /\ Return(p, answer)
    /\ UNCHANGED <<journalVars, expired, initial, denials, told>>

SharesOver(p) ==
    /\ calls[p].at = "custody" /\ ShareToAsk(p) = {}
    /\ Return(p, "nonterminal")
    /\ UNCHANGED <<journalVars, expired, ghosts>>

\* reconcile loads the record first ...
Reconcile(p) ==
    /\ calls[p].at = "reconcile" /\ ReadJournal
    /\ IF Settled(Op(p))
       THEN IF records[Op(p)].terminal = calls[p].offer THEN TellTerminal(p, Op(p))
            ELSE Return(p, "error") /\ UNCHANGED <<expired, ghosts>>
       ELSE /\ calls' = [calls EXCEPT ![p].at = "settle"]
            /\ UNCHANGED <<expired, ghosts>>

MustSettle(p) == calls[p].at = "settle" /\ ~Settled(Op(p))

(* Mutant: mark_terminal trusts what reconcile has seen. *)
Settle_blind(p) ==
    /\ calls[p].at = "settle"
    /\ WriteRecord(Op(p), SettledRecord(calls[p].offer))
    /\ told' = [told EXCEPT ![Op(p)] = @ \cup {calls[p].offer}]
    /\ Return(p, "terminal")
    /\ UNCHANGED <<expired, initial, custody, denials>>

\* ... and mark_terminal looks again: the first terminal result stays.
Settle(p) ==
    /\ calls[p].at = "settle"
    /\ IF MustSettle(p)
       THEN /\ WriteRecord(Op(p), SettledRecord(calls[p].offer))
            /\ told' = [told EXCEPT ![Op(p)] = @ \cup {calls[p].offer}]
            /\ Return(p, "terminal")
            /\ UNCHANGED <<expired, initial, custody, denials>>
       ELSE /\ ReadJournal
            /\ IF records[Op(p)].terminal = calls[p].offer THEN TellTerminal(p, Op(p))
               ELSE Return(p, "error") /\ UNCHANGED <<expired, ghosts>>

-----------------------------------------------------------------------------
\* list_unresolved.
Scan == ReadJournal /\ UNCHANGED <<calls, expired, ghosts>>

\* A journal operation fails: before it writes, or cut short.
JournalUnavailable(p) ==
    /\ \/ calls[p].at \in {"mark", "reconcile", "settle"}
       \/ RightsOver(p) /\ calls[p].fresh # {}
    /\ \/ JournalFails
       \/ MustMark(p) /\ CutShort(Op(p), StartedRecord(Op(p)))
       \/ MustMerge(p) /\ CutShort(Op(p), MergedRecord(Op(p), calls[p].fresh))
       \/ MustSettle(p) /\ CutShort(Op(p), SettledRecord(calls[p].offer))
    /\ Return(p, "error")
    /\ UNCHANGED <<expired, ghosts>>

\* The same for the first operation of a call.
CallUnavailable(p, o) ==
    /\ Resting(p)
    /\ \/ JournalFails
       \/ o \notin expired /\ ~Known(o) /\ HasRoom /\ CutShort(o, NewRecord)
    /\ Return(p, "error")
    /\ UNCHANGED <<expired, ghosts>>

\* A check fails or the future is dropped.
GiveUp(p) ==
    /\ ~Resting(p)
    /\ Return(p, "error")
    /\ UNCHANGED <<journalVars, expired, ghosts>>

Crash ==
    /\ calls' = [p \in Callers |-> Rest("none")]
    /\ UNCHANGED <<journalVars, expired, ghosts>>

\* The time of the statement of a recorded operation is over.
Expire(o) ==
    /\ Known(o)
    /\ expired' = expired \cup {o}
    /\ UNCHANGED <<journalVars, calls, ghosts>>

Next ==
    \/ \E p \in Callers :
          \/ \E o \in Operations : \/ ReleaseNew(p, o) \/ ReleaseReplay(p, o) \/ Resume(p, o)
                                   \/ CallUnavailable(p, o)
          \/ \E n \in Providers : AskRights(p, n)
          \/ \E d \in Allowed : AskCustody(p, d)
          \/ MarkStarted(p) \/ NothingToPersist(p) \/ PersistDecisions(p) \/ SharesOver(p)
          \/ Reconcile(p) \/ Settle(p) \/ JournalUnavailable(p) \/ GiveUp(p)
    \/ Scan \/ Crash
    \/ \E o \in Operations : Expire(o)

Spec == Init /\ [][Next]_vars

-----------------------------------------------------------------------------
(* Properties *)

\* No provider is called for an operation unless its record says that the
\* effect has started, whoever else is at work and wherever it crashes:
\* mark_provider_effect_started comes before resolve_started_operation.
EffectsFollowRecord ==
    /\ \A p \in Callers : calls[p].at \in {"rights", "custody"} => Started(Op(p))
    /\ \A o \in Operations :
          (initial[o] > 0 \/ denials[o] # {} \/ custody[o] # {}) => Started(o)

\* Replays and restarts never add an initial dispatch: one call that finds the
\* operation unstarted begins one, so there are at most as many as calls that
\* looked before the first of them marked it; with one call at a time there is
\* one, over any number of replays and crashes
\* (test runtime_coordination_nonterminal_replay_does_not_redispatch).
DispatchBound == \A o \in Operations : initial[o] <= Cardinality(Callers)

\* Every terminal result any caller was given for an operation is the one on
\* record: the first settlement stands for all later calls, replays, resumes
\* and restarts (reconcile and mark_terminal each look for an earlier one).
OneOutcome == \A o \in Operations : told[o] # {} => told[o] = {records[o].terminal}

\* A node's share is requested only once a threshold of nodes have an Allowed
\* decision on record, and against the very decision recorded for the node
\* (persist_replayable_rights_decisions precedes collect_contributions).
SharesNeedQuorum ==
    \A o \in Operations : custody[o] # {} =>
        \/ Settled(o)
        \/ /\ custody[o] \subseteq records[o].decisions
           /\ Cardinality(Deciders(records[o].decisions)) >= Threshold

\* A terminal result rests on what providers did: a denial of the node it
\* names, or the shares of a threshold of different nodes, each requested.
OutcomeGrounded ==
    \A o \in Operations : Settled(o) =>
        LET result == records[o].terminal
        IN  IF result.kind = "denied" THEN result.by \in denials[o]
            ELSE /\ result.shares \subseteq custody[o]
                 /\ Cardinality(Deciders(result.shares)) = Threshold

\* A recorded decision stays on record until the terminal result replaces all
\* of them: no later call, resume or merge loses one a share may have been
\* requested against.
DecisionsKept ==
    \A o \in Operations : Known(o) =>
        \/ records'[o].terminal # Open
        \/ records[o].decisions \subseteq records'[o].decisions
DecisionsStay == [][DecisionsKept]_vars

\* However calls, replays, resumes and restarts overlap, an operation looks from
\* outside as if it went once through what ReleasePromise allows: the effects
\* begin on record, decisions come to count, shares are asked for behind a
\* quorum, one grounded result is settled, and only that is told.
Promise == INSTANCE ReleasePromise WITH
    begun <- {o \in Operations : Started(o)},
    decided <- [o \in Operations |-> IF Known(o) THEN records[o].decisions ELSE {}],
    asked <- custody,
    outcome <- [o \in Operations |-> IF Known(o) THEN records[o].terminal ELSE Open]
SettlesAsPromised == Promise!PromiseSpec

\* What an operation that was cut short leaves behind, the next one removes
\* ("This scan removes leftover temp files only").
LeftoversRemovable == Removable

\* The exact replay of a started operation is told so, not refused.
ReplayAccepted == \A p \in Callers : calls[p].at # "conflict"
=============================================================================
