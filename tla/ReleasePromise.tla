--------------------------- MODULE ReleasePromise ---------------------------
(***************************************************************************)
(* What a release promises, with no calls, journal operations, replays or  *)
(* restarts in it.  An operation begins; nodes decide, each at most once   *)
(* that counts; shares are asked for once enough nodes have allowed it; the*)
(* operation is settled once, by a denial or by enough shares; and whoever *)
(* is told a result is told that one.                                      *)
(***************************************************************************)
EXTENDS Naturals, FiniteSets

CONSTANTS Operations,
          Providers,   \* nodes that decide and hold a share
          Allowed,     \* their Allowed decisions, the node first
          Threshold,   \* how many nodes a release needs
          Open         \* no result yet

VARIABLES begun,    \* operations whose effects may have started
          decided,  \* the decisions that count, until there is a result
          denials,  \* the nodes that denied
          asked,    \* the decisions against which a share was asked for
          outcome,  \* the result
          told      \* the results callers were given

promiseVars == <<begun, decided, denials, asked, outcome, told>>

Nodes(D) == {d[1] : d \in D}

PromiseInit ==
    /\ begun = {}
    /\ decided = [o \in Operations |-> {}]
    /\ denials = [o \in Operations |-> {}]
    /\ asked = [o \in Operations |-> {}]
    /\ outcome = [o \in Operations |-> Open]
    /\ told = [o \in Operations |-> {}]

Begin(o) ==
    /\ begun' = begun \cup {o}
    /\ UNCHANGED <<decided, denials, asked, outcome, told>>

Deny(o, n) ==
    /\ o \in begun
    /\ denials' = [denials EXCEPT ![o] = @ \cup {n}]
    /\ UNCHANGED <<begun, decided, asked, outcome, told>>

\* Decisions come to count, several at once perhaps, and no node's twice.
Decide(o, D) ==
    /\ o \in begun /\ outcome[o] = Open
    /\ decided' = [decided EXCEPT ![o] = @ \cup D]
    /\ \A d, e \in decided'[o] : d[1] = e[1] => d = e
    /\ UNCHANGED <<begun, denials, asked, outcome, told>>

\* Before there is a result, a share is only asked for behind a quorum.  A call
\* that was overtaken by the settlement may still ask.
Ask(o, d) ==
    /\ o \in begun
    /\ outcome[o] = Open =>
          d \in decided[o] /\ Cardinality(Nodes(decided[o])) >= Threshold
    /\ asked' = [asked EXCEPT ![o] = @ \cup {d}]
    /\ UNCHANGED <<begun, decided, denials, outcome, told>>

\* The results that what the nodes did allows for.
Results(o) ==
    [kind : {"denied"}, by : denials[o]]
        \cup {[kind |-> "ready", shares |-> S] :
                 S \in {E \in SUBSET asked[o] : Cardinality(Nodes(E)) = Threshold}}

\* The operation is settled, and whoever did it may be told at once or never.
Settle(o, result) ==
    /\ o \in begun /\ outcome[o] = Open
    /\ outcome' = [outcome EXCEPT ![o] = result]
    /\ decided' = [decided EXCEPT ![o] = {}]
    /\ \/ told' = [told EXCEPT ![o] = @ \cup {result}]
       \/ UNCHANGED told
    /\ UNCHANGED <<begun, denials, asked>>

Tell(o) ==
    /\ outcome[o] # Open
    /\ told' = [told EXCEPT ![o] = @ \cup {outcome[o]}]
    /\ UNCHANGED <<begun, decided, denials, asked, outcome>>

PromiseNext ==
    \E o \in Operations :
        \/ Begin(o)
        \/ Tell(o)
        \/ \E n \in Providers : Deny(o, n)
        \/ \E d \in Allowed : Ask(o, d)
        \/ \E result \in Results(o) : Settle(o, result)
        \/ \E D \in SUBSET Allowed : Decide(o, D)

PromiseSpec == PromiseInit /\ [][PromiseNext]_promiseVars
=============================================================================
