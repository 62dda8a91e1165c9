--------------------------- MODULE ReleaseJournal ---------------------------
(***************************************************************************)
(* elastos-protected-content-runtime/src/journal.rs: the durable record of *)
(* every release operation.  Each operation of the journal holds one file  *)
(* lock from its first to its last step, so nobody sees an intermediate    *)
(* state, except what an operation that is cut short, by a crash or by an  *)
(* I/O error, leaves on disk: a temporary file that the next operation     *)
(* finds (residue).  There is at most one, since every operation begins by *)
(* removing what it finds, or fails.                                       *)
(*                                                                         *)
(* A record is written to a temporary file that is synced, then linked (a  *)
(* new record) or renamed (a replacement) to its name.                     *)
(***************************************************************************)
EXTENDS Naturals, FiniteSets

CONSTANTS Operations,    \* release operations, by operation hash
          ProviderCount, \* configured providers of the operation's node set
          Threshold,     \* how many of them a release needs
          Versions,      \* what tells two Allowed decisions of a node apart
          MaxRecords,    \* MAX_RUNTIME_RELEASE_RECORDS
          Absent, Open, Nothing   \* no record, no terminal result, no residue

ASSUME CountsAssumption ==
    /\ ProviderCount \in Nat /\ Threshold \in 1 .. ProviderCount
    /\ MaxRecords \in Nat

Providers == 1 .. ProviderCount   \* in the order of the node set's members
Allowed == Providers \X Versions  \* a signed Allowed decision, or a share of its node
Terminal == [kind : {"denied"}, by : Providers]
                \cup [kind : {"ready"}, shares : SUBSET Allowed]
Record == [started : BOOLEAN,             \* effect_started
           decisions : SUBSET Allowed,    \* replayable_rights_bytes
           terminal : Terminal \cup {Open}]
Residue == [op : Operations, linked : BOOLEAN]  \* linked: it is the record's own file

ASSUME AbsencesAssumption == Absent \notin Record /\ Open \notin Terminal /\ Nothing \notin Residue

VARIABLES records, residue
journalVars == <<records, residue>>

JournalTypeOK ==
    /\ records \in [Operations -> Record \cup {Absent}]
    /\ residue \in Residue \cup {Nothing}

JournalInit ==
    /\ records = [o \in Operations |-> Absent]
    /\ residue = Nothing

Known(o) == records[o] # Absent
Started(o) == Known(o) /\ records[o].started
Settled(o) == Known(o) /\ records[o].terminal # Open
Deciders(D) == {d[1] : d \in D}
Count == Cardinality({o \in Operations : Known(o)})

-----------------------------------------------------------------------------
\* cleanup_stale_temps succeeds: beside a record only a second link to the
\* record itself is removed, anything else makes the operation fail.
Removable == residue # Nothing => (~Known(residue.op) \/ residue.linked)

\* An operation that changes no record.
ReadJournal == Removable /\ residue' = Nothing /\ UNCHANGED records

\* An operation that writes the record of o and returns.
WriteRecord(o, record) ==
    /\ Removable
    /\ residue' = Nothing
    /\ records' = [records EXCEPT ![o] = record]

\* One that is cut short: before the record has its name, or after (when the
\* temporary file of a new record is still there, and that of a replacement
\* has become the record).
CutShort(o, record) ==
    /\ Removable
    /\ \/ /\ residue' = [op |-> o, linked |-> FALSE]
          /\ UNCHANGED records
       \/ /\ residue' = IF Known(o) THEN Nothing ELSE [op |-> o, linked |-> TRUE]
          /\ records' = [records EXCEPT ![o] = record]

\* One that fails before it writes.
JournalFails ==
    /\ UNCHANGED records
    /\ residue' \in {residue} \cup {r \in {Nothing} : Removable}

-----------------------------------------------------------------------------
NewRecord == [started |-> FALSE, decisions |-> {}, terminal |-> Open]

HasRoom == Count < MaxRecords

StartedRecord(o) == [records[o] EXCEPT !.started = TRUE]

(* Mutant: a second decision of a node is added to the first. *)
MergeConflicts_never(o, D) == FALSE

\* merge_replayable_rights_decisions refuses a second decision of a node ...
MergeConflicts(o, D) ==
    \E d \in D, e \in records[o].decisions : d[1] = e[1] /\ d # e

(* Mutant: the record takes the decisions of the last call. *)
MergedRecord_last(o, D) == [records[o] EXCEPT !.decisions = D]

\* ... and otherwise adds the decisions it has not got.
MergedRecord(o, D) == [records[o] EXCEPT !.decisions = @ \cup D]

\* mark_terminal: the decisions are dropped with the terminal result.
SettledRecord(result) == [started |-> TRUE, decisions |-> {}, terminal |-> result]
=============================================================================
