---------------------- MODULE ReleaseCoordinator_proofs ----------------------
(***************************************************************************)
(* What holds of every release, for any number of callers, operations and  *)
(* providers, and over any journal faults and crashes.  One inductive      *)
(* invariant carries the theorems: a call past mark_provider_effect_started*)
(* works on a started record, and what was told is on record.              *)
(***************************************************************************)
EXTENDS ReleaseCoordinator, TLAPS

Dispatched == {"rights", "custody", "reconcile", "settle"}

CallsOnRecord ==
    \A p \in Callers : calls[p].at \in Steps =>
        /\ Op(p) \in Operations
        /\ Known(Op(p))
        /\ calls[p].at \in Dispatched => Started(Op(p))

OffersMade ==
    \A p \in Callers : calls[p].at \in {"reconcile", "settle"} => calls[p].offer \in Terminal

EffectsRecorded ==
    \A o \in Operations :
        (initial[o] > 0 \/ denials[o] # {} \/ custody[o] # {}) => Started(o)

ToldOnRecord ==
    \A o \in Operations : told[o] # {} => Settled(o) /\ told[o] = {records[o].terminal}

IInv == TypeOK /\ CallsOnRecord /\ OffersMade /\ EffectsRecorded /\ ToldOnRecord

\* What every step keeps of a record: it stays, it stays started, and its
\* terminal result stays, and so do its decisions until there is a result.
RecordsGrow ==
    \A o \in Operations :
        /\ Known(o) => records'[o] # Absent
        /\ Started(o) => records'[o] # Absent /\ records'[o].started
        /\ Settled(o) => records'[o] # Absent /\ records'[o].terminal = records[o].terminal
        /\ Known(o) => \/ records'[o].terminal # Open
                       \/ records[o].decisions \subseteq records'[o].decisions

-----------------------------------------------------------------------------
(* The journal *)

\* A record that may replace that of o: it loses neither the start nor the
\* terminal result.
Follows(o, r) ==
    /\ r \in Record
    /\ Started(o) => r.started
    /\ Settled(o) => r.terminal = records[o].terminal
    /\ Known(o) => (r.terminal # Open \/ records[o].decisions \subseteq r.decisions)

LEMMA JournalWriteGrows ==
    ASSUME JournalTypeOK, NEW o \in Operations, NEW r, Follows(o, r),
           WriteRecord(o, r) \/ CutShort(o, r)
    PROVE  JournalTypeOK' /\ RecordsGrow
<1>1. r \in Record /\ r # Absent
  BY AbsencesAssumption DEF Follows
<1>2. records' = records \/ records' = [records EXCEPT ![o] = r]
  BY DEF WriteRecord, CutShort
<1>3. residue' \in Residue \cup {Nothing}
  <2>1. [op |-> o, linked |-> FALSE] \in Residue /\ [op |-> o, linked |-> TRUE] \in Residue
    BY DEF Residue
  <2>2. residue' \in {Nothing, [op |-> o, linked |-> FALSE], [op |-> o, linked |-> TRUE]}
    BY DEF WriteRecord, CutShort
  <2> QED BY <2>1, <2>2
<1>4. CASE records' = records
  BY <1>3, <1>4 DEF JournalTypeOK, RecordsGrow, Known, Started, Settled
<1>5. CASE records' = [records EXCEPT ![o] = r]
  BY <1>1, <1>3, <1>5 DEF JournalTypeOK, RecordsGrow, Known, Started, Settled, Follows
<1> QED BY <1>2, <1>4, <1>5

LEMMA JournalKeepsGrows ==
    ASSUME JournalTypeOK, ReadJournal \/ JournalFails \/ UNCHANGED journalVars
    PROVE  JournalTypeOK' /\ RecordsGrow
<1>1. records' = records /\ residue' \in Residue \cup {Nothing}
  BY DEF ReadJournal, JournalFails, journalVars, JournalTypeOK
<1> QED BY <1>1 DEF JournalTypeOK, RecordsGrow, Known, Started, Settled

LEMMA WritesFollow ==
    ASSUME TypeOK, CallsOnRecord, OffersMade, NEW p \in Callers
    PROVE  /\ MustMark(p) => Follows(Op(p), StartedRecord(Op(p)))
           /\ MustMerge(p) => Follows(Op(p), MergedRecord(Op(p), calls[p].fresh))
           /\ MustSettle(p) => Follows(Op(p), SettledRecord(calls[p].offer))
           /\ (MustMark(p) \/ MustMerge(p) \/ MustSettle(p)) => Op(p) \in Operations
<1>1. calls[p].at \in Steps => Op(p) \in Operations /\ records[Op(p)] \in Record
  BY DEF CallsOnRecord, TypeOK, JournalTypeOK, Known
<1>2. calls[p].fresh \subseteq Allowed
  BY DEF TypeOK, Call
<1>3. MustMark(p) => Follows(Op(p), StartedRecord(Op(p)))
  <2> SUFFICES ASSUME MustMark(p) PROVE Follows(Op(p), StartedRecord(Op(p))) OBVIOUS
  <2>1. records[Op(p)] \in Record
    BY <1>1 DEF MustMark, Steps
  <2>2. StartedRecord(Op(p)) \in Record
    BY <2>1 DEF StartedRecord, Record
  <2> QED BY <2>1, <2>2 DEF StartedRecord, Follows, Record
<1>4. MustMerge(p) => Follows(Op(p), MergedRecord(Op(p), calls[p].fresh))
  <2> SUFFICES ASSUME MustMerge(p)
               PROVE Follows(Op(p), MergedRecord(Op(p), calls[p].fresh)) OBVIOUS
  <2>1. records[Op(p)] \in Record
    BY <1>1 DEF MustMerge, RightsOver, Steps
  <2>2. MergedRecord(Op(p), calls[p].fresh) \in Record
    BY <1>2, <2>1 DEF MergedRecord, Record
  <2>3. /\ MergedRecord(Op(p), calls[p].fresh).started = records[Op(p)].started
        /\ MergedRecord(Op(p), calls[p].fresh).terminal = records[Op(p)].terminal
        /\ records[Op(p)].decisions \subseteq MergedRecord(Op(p), calls[p].fresh).decisions
    BY <2>1 DEF MergedRecord, Record
  <2> QED BY <2>2, <2>3, Zenon DEF Follows, Started
<1>5. MustSettle(p) => Follows(Op(p), SettledRecord(calls[p].offer))
  BY <1>1, AbsencesAssumption DEF MustSettle, OffersMade, SettledRecord, Follows, Record, Steps
<1> QED BY <1>1, <1>3, <1>4, <1>5 DEF MustMark, MustMerge, MustSettle, RightsOver, Steps

\* Every step keeps the journal well formed and its records growing.
LEMMA JournalStep ==
    ASSUME TypeOK, CallsOnRecord, OffersMade, [Next]_vars
    PROVE  JournalTypeOK' /\ RecordsGrow
<1> USE WritesFollow, JournalWriteGrows, JournalKeepsGrows
<1>0. JournalTypeOK
  BY DEF TypeOK
<1>1. ASSUME NEW o \in Operations, ~Known(o) PROVE Follows(o, NewRecord)
  BY <1>1 DEF Follows, NewRecord, Record, Known, Started, Settled
<1>2. ASSUME NEW p \in Callers, NEW o \in Operations, ReleaseNew(p, o)
      PROVE  JournalTypeOK' /\ RecordsGrow
  BY <1>0, <1>1, <1>2 DEF ReleaseNew
<1>3. ASSUME NEW p \in Callers, NEW o \in Operations, CallUnavailable(p, o)
      PROVE  JournalTypeOK' /\ RecordsGrow
  BY <1>0, <1>1, <1>3 DEF CallUnavailable
<1>4. ASSUME NEW p \in Callers, MarkStarted(p)
      PROVE  JournalTypeOK' /\ RecordsGrow
  BY <1>0, <1>4 DEF MarkStarted
<1>5. ASSUME NEW p \in Callers, PersistDecisions(p)
      PROVE  JournalTypeOK' /\ RecordsGrow
  BY <1>0, <1>5 DEF PersistDecisions
<1>6. ASSUME NEW p \in Callers, Settle(p)
      PROVE  JournalTypeOK' /\ RecordsGrow
  BY <1>0, <1>6 DEF Settle
<1>7. ASSUME NEW p \in Callers, JournalUnavailable(p)
      PROVE  JournalTypeOK' /\ RecordsGrow
  BY <1>0, <1>7 DEF JournalUnavailable
<1>8. ASSUME \/ \E p \in Callers :
                   \/ \E o \in Operations : ReleaseReplay(p, o) \/ Resume(p, o)
                   \/ Reconcile(p)
             \/ Scan
      PROVE  JournalTypeOK' /\ RecordsGrow
  BY <1>0, <1>8 DEF ReleaseReplay, Resume, Reconcile, Scan
<1>9. ASSUME \/ \E p \in Callers :
                   \/ \E n \in Providers : AskRights(p, n)
                   \/ \E d \in Allowed : AskCustody(p, d)
                   \/ NothingToPersist(p) \/ SharesOver(p) \/ GiveUp(p)
             \/ Crash \/ (\E o \in Operations : Expire(o)) \/ UNCHANGED vars
      PROVE  JournalTypeOK' /\ RecordsGrow
  BY <1>0, <1>9 DEF AskRights, AskCustody, NothingToPersist, SharesOver, GiveUp, Crash,
                    Expire, vars
<1> QED BY <1>2, <1>3, <1>4, <1>5, <1>6, <1>7, <1>8, <1>9 DEF Next, vars

-----------------------------------------------------------------------------
(* The calls *)

\* What a call may become in a step.
CallGood(c) ==
    /\ c \in Call
    /\ c.at \in Steps => c.op \in Operations /\ records'[c.op] # Absent
    /\ c.at \in Dispatched => records'[c.op].started
    /\ c.at \in {"reconcile", "settle"} => c.offer \in Terminal

Moves(p) == \E c : CallGood(c) /\ calls' = [calls EXCEPT ![p] = c]

LEMMA RestIsCall ==
    ASSUME NEW a \in Answers \cup Steps
    PROVE  Rest(a) \in Call /\ Rest(a).at = a
BY CountsAssumption DEF Rest, Call

LEMMA ReturnMoves ==
    ASSUME NEW p \in Callers, NEW a \in Answers, Return(p, a)
    PROVE  Moves(p)
<1>1. Rest(a) \in Call /\ Rest(a).at = a
  BY RestIsCall
<1>2. a \notin Steps /\ a \notin Dispatched
  BY DEF Answers, Steps, Dispatched
<1>3. CallGood(Rest(a))
  BY <1>1, <1>2 DEF CallGood, Dispatched
<1> QED BY <1>3 DEF Return, Moves

LEMMA OneCallMoves ==
    ASSUME TypeOK, CallsOnRecord, OffersMade, RecordsGrow, NEW p \in Callers, Moves(p)
    PROVE  calls' \in [Callers -> Call] /\ CallsOnRecord' /\ OffersMade'
<1>1. PICK c : CallGood(c) /\ calls' = [calls EXCEPT ![p] = c]
  BY DEF Moves
<1>2. calls \in [Callers -> Call] /\ calls' \in [Callers -> Call] /\ calls'[p] = c
  BY <1>1 DEF CallGood, TypeOK
<1>3. \A q \in Callers : q # p => calls'[q] = calls[q]
  BY <1>1, <1>2
<1>4. CallsOnRecord'
  <2> SUFFICES ASSUME NEW q \in Callers, calls'[q].at \in Steps
               PROVE  /\ calls'[q].op \in Operations
                      /\ records'[calls'[q].op] # Absent
                      /\ calls'[q].at \in Dispatched => records'[calls'[q].op].started
    BY DEF CallsOnRecord, Op, Known, Started
  <2>1. CASE q = p
    BY <1>1, <1>2, <2>1 DEF CallGood
  <2>2. CASE q # p
    BY <1>3, <2>2 DEF CallsOnRecord, Op, RecordsGrow
  <2> QED BY <2>1, <2>2
<1>5. OffersMade'
  BY <1>1, <1>2, <1>3 DEF OffersMade, CallGood
<1> QED BY <1>2, <1>4, <1>5

LEMMA NobodyMoves ==
    ASSUME TypeOK, CallsOnRecord, OffersMade, RecordsGrow, UNCHANGED calls
    PROVE  calls' \in [Callers -> Call] /\ CallsOnRecord' /\ OffersMade'
BY DEF TypeOK, CallsOnRecord, OffersMade, RecordsGrow, Op, Known, Started

\* A call that goes on works on the same operation, which stays on record.
LEMMA GoesOn ==
    ASSUME TypeOK, CallsOnRecord, RecordsGrow, NEW p \in Callers, calls[p].at \in Steps
    PROVE  /\ calls[p] \in Call
           /\ calls[p].op \in Operations
           /\ records'[calls[p].op] # Absent
           /\ calls[p].at \in Dispatched => records'[calls[p].op].started
BY DEF TypeOK, CallsOnRecord, RecordsGrow, Op

LEMMA CallsStep ==
    ASSUME TypeOK, CallsOnRecord, OffersMade, RecordsGrow, JournalTypeOK', Next
    PROVE  \/ \E p \in Callers : Moves(p)
           \/ UNCHANGED calls
           \/ Crash
<1> USE ReturnMoves DEF Answers
<1>mark. ASSUME NEW p \in Callers, NEW o \in Operations, records'[o] # Absent,
                calls' = [calls EXCEPT ![p] = [Rest("mark") EXCEPT !.op = o]]
         PROVE  Moves(p)
  <2> DEFINE c == [Rest("mark") EXCEPT !.op = o]
  <2>0. Rest("mark") \in Call /\ Rest("mark").at = "mark"
    BY RestIsCall DEF Steps
  <2>1. c \in Call /\ c.op = o /\ c.at = "mark"
    BY <2>0 DEF Call
  <2> HIDE DEF c
  <2>2. CallGood(c)
    BY <1>mark, <2>1 DEF CallGood, Dispatched
  <2> QED BY <1>mark, <2>2 DEF Moves, c
<1>offer. ASSUME NEW p \in Callers, NEW t \in Terminal, calls[p].at \in {"rights", "custody"},
                 MakeOffer(p, t)
          PROVE  Moves(p)
  <2> DEFINE c == [Rest("reconcile") EXCEPT !.op = Op(p), !.offer = t]
  <2>1. /\ Op(p) \in Operations /\ records'[Op(p)] # Absent /\ records'[Op(p)].started
    BY <1>offer, GoesOn DEF Steps, Dispatched, Op
  <2>0. Rest("reconcile") \in Call /\ Rest("reconcile").at = "reconcile"
    BY RestIsCall DEF Steps
  <2>2. c \in Call /\ c.op = Op(p) /\ c.at = "reconcile" /\ c.offer = t
    BY <2>0, <2>1 DEF Call
  <2> HIDE DEF c
  <2>3. CallGood(c)
    BY <2>1, <2>2 DEF CallGood, Dispatched
  <2> QED BY <1>offer, <2>3 DEF Moves, MakeOffer, c
<1>on. ASSUME NEW p \in Callers, calls[p].at \in {"rights", "custody"},
              NEW c \in Call, c.op = calls[p].op, c.at \in {"rights", "custody"},
              calls' = [calls EXCEPT ![p] = c]
       PROVE  Moves(p)
  <2>1. CallGood(c)
    BY <1>on, GoesOn DEF CallGood, Steps, Dispatched
  <2> QED BY <1>on, <2>1 DEF Moves
<1>1. ASSUME NEW p \in Callers, NEW o \in Operations, ReleaseNew(p, o)
      PROVE  Moves(p)
  <2>1. CASE Return(p, "error")
    BY <2>1
  <2>2. CASE /\ WriteRecord(o, NewRecord)
             /\ calls' = [calls EXCEPT ![p] = [Rest("mark") EXCEPT !.op = o]]
    <3>0. NewRecord \in Record
      BY DEF NewRecord, Record
    <3>1. records'[o] = NewRecord /\ NewRecord # Absent
      BY <2>2, <3>0, AbsencesAssumption DEF WriteRecord, TypeOK, JournalTypeOK
    <3> QED BY <1>mark, <2>2, <3>1
  <2> QED BY <1>1, <2>1, <2>2 DEF ReleaseNew
<1>2. ASSUME NEW p \in Callers, NEW o \in Operations, ReleaseReplay(p, o)
      PROVE  Moves(p)
  <2>1. records'[o] # Absent
    BY <1>2 DEF ReleaseReplay, RecordsGrow
  <2> QED BY <1>2, <1>mark, <2>1 DEF ReleaseReplay, TellTerminal
<1>3. ASSUME NEW p \in Callers, MarkStarted(p)
      PROVE  Moves(p)
  <2> DEFINE c == [calls[p] EXCEPT !.at = "rights"]
  <2>1. calls[p] \in Call /\ Op(p) \in Operations /\ records[Op(p)] \in Record
    BY <1>3 DEF MarkStarted, TypeOK, JournalTypeOK, CallsOnRecord, Known, Steps
  <2>2. records'[Op(p)] \in Record /\ records'[Op(p)].started
    <3>1. CASE MustMark(p)
      <4>1. StartedRecord(Op(p)) \in Record /\ StartedRecord(Op(p)).started
        BY <2>1 DEF StartedRecord, Record
      <4>2. records'[Op(p)] = StartedRecord(Op(p))
        BY <1>3, <2>1, <3>1 DEF MarkStarted, WriteRecord, TypeOK, JournalTypeOK
      <4> QED BY <4>1, <4>2
    <3>2. CASE ~MustMark(p)
      BY <1>3, <2>1, <3>2 DEF MarkStarted, MustMark, Started, ReadJournal
    <3> QED BY <3>1, <3>2
  <2>3. c \in Call /\ c.op = Op(p) /\ c.at = "rights"
    BY <2>1 DEF Call, Steps, Op
  <2> HIDE DEF c
  <2>4. CallGood(c)
    BY <2>1, <2>2, <2>3, AbsencesAssumption DEF CallGood, Dispatched
  <2> QED BY <1>3, <2>4 DEF MarkStarted, Dispatch, Moves, c
<1>4. ASSUME NEW p \in Callers, NEW o \in Operations, Resume(p, o)
      PROVE  Moves(p)
  <2> DEFINE c == [Rest("rights") EXCEPT !.op = o, !.resuming = TRUE,
                                         !.known = records[o].decisions]
  <2>1. CASE Started(o) /\ calls' = [calls EXCEPT ![p] = c]
    <3>1. records[o] \in Record
      BY <2>1 DEF Started, Known, TypeOK, JournalTypeOK
    <3>0. Rest("rights") \in Call /\ Rest("rights").at = "rights"
      BY RestIsCall DEF Steps
    <3>5. records[o].decisions \subseteq Allowed
      BY <3>1 DEF Record
    <3>2. c \in Call /\ c.op = o /\ c.at = "rights"
      BY <3>0, <3>5 DEF Call
    <3>3. records'[o] # Absent /\ records'[o].started
      BY <2>1 DEF RecordsGrow
    <3> HIDE DEF c
    <3>4. CallGood(c)
      BY <3>2, <3>3 DEF CallGood, Dispatched
    <3> QED BY <2>1, <3>4 DEF Moves, c
  <2> QED BY <1>4, <2>1 DEF Resume, TellTerminal
<1>5. ASSUME NEW p \in Callers, NEW n \in Providers, AskRights(p, n)
      PROVE  Moves(p)
  <2>1. calls[p].at = "rights" /\ calls[p] \in Call
    BY <1>5 DEF AskRights, TypeOK
  <2>2. n \in Nat /\ n + 1 \in 1 .. ProviderCount + 1 /\ ProviderCount + 1 \in 1 .. ProviderCount + 1
    BY CountsAssumption DEF Providers
  <2>3. ASSUME NEW v \in Versions,
               calls' = [calls EXCEPT ![p].fresh = @ \cup {<<n, v>>}, ![p].next = n + 1]
        PROVE  Moves(p)
    <3> DEFINE c == [calls[p] EXCEPT !.fresh = @ \cup {<<n, v>>}, !.next = n + 1]
    <3>1. <<n, v>> \in Allowed
      BY DEF Allowed
    <3>2. c \in Call /\ c.op = calls[p].op /\ c.at = "rights"
      BY <2>1, <2>2, <3>1 DEF Call
    <3> QED BY <1>on, <2>1, <2>3, <3>2
  <2>4. CASE MakeOffer(p, [kind |-> "denied", by |-> n])
    <3>1. [kind |-> "denied", by |-> n] \in Terminal
      BY DEF Terminal
    <3> QED BY <1>offer, <2>1, <2>4, <3>1
  <2>5. ASSUME NEW m \in 1 .. ProviderCount + 1, calls' = [calls EXCEPT ![p].next = m]
        PROVE  Moves(p)
    <3> DEFINE c == [calls[p] EXCEPT !.next = m]
    <3>1. c \in Call /\ c.op = calls[p].op /\ c.at = "rights"
      BY <2>1 DEF Call
    <3> QED BY <1>on, <2>1, <2>5, <3>1
  <2> QED BY <1>5, <2>2, <2>3, <2>4, <2>5 DEF AskRights
<1>6. ASSUME NEW p \in Callers, NEW D, D \subseteq Allowed, calls[p].at = "rights",
             WithDecisions(p, D)
      PROVE  Moves(p)
  <2> DEFINE c == [calls[p] EXCEPT !.at = "custody", !.known = D, !.fresh = {}, !.next = 1]
  <2>1. CASE calls' = [calls EXCEPT ![p] = c]
    <3>1. calls[p] \in Call /\ "custody" \in Steps /\ 1 \in 1 .. ProviderCount + 1
      BY CountsAssumption DEF TypeOK, Steps
    <3>2. c \in Call /\ c.op = calls[p].op /\ c.at = "custody"
      BY <1>6, <3>1 DEF Call
    <3> QED BY <1>6, <1>on, <2>1, <3>2
  <2> QED BY <1>6, <2>1 DEF WithDecisions
<1>7. ASSUME NEW p \in Callers, NothingToPersist(p) \/ PersistDecisions(p)
      PROVE  Moves(p)
  <2>1. calls[p].at = "rights" /\ calls[p] \in Call
    BY <1>7 DEF NothingToPersist, PersistDecisions, RightsOver, TypeOK
  <2>2. calls[p].known \subseteq Allowed /\ calls[p].fresh \subseteq Allowed /\ {} \subseteq Allowed
    BY <2>1 DEF Call
  <2>3. records[Op(p)] \in Record
    BY <2>1 DEF CallsOnRecord, TypeOK, JournalTypeOK, Known, Steps
  <2>4. MergedRecord(Op(p), calls[p].fresh).decisions \subseteq Allowed
    BY <2>2, <2>3 DEF MergedRecord, Record
  <2>5. CASE NothingToPersist(p)
    BY <1>6, <2>1, <2>2, <2>5 DEF NothingToPersist
  <2>6. CASE PersistDecisions(p)
    BY <1>6, <2>1, <2>2, <2>4, <2>6 DEF PersistDecisions
  <2> QED BY <1>7, <2>5, <2>6
<1>8. ASSUME NEW p \in Callers, NEW d \in Allowed, AskCustody(p, d)
      PROVE  Moves(p)
  <2>1. calls[p].at = "custody" /\ calls[p] \in Call
    BY <1>8 DEF AskCustody, TypeOK
  <2>2. d[1] \in Nat /\ d[1] + 1 \in 1 .. ProviderCount + 1
    BY CountsAssumption DEF Allowed, Providers
  <2>3. calls[p].shares \cup {d} \subseteq Allowed
    BY <2>1 DEF Call
  <2>4. CASE MakeOffer(p, [kind |-> "ready", shares |-> calls[p].shares \cup {d}])
    <3>1. [kind |-> "ready", shares |-> calls[p].shares \cup {d}] \in Terminal
      BY <2>3 DEF Terminal
    <3> QED BY <1>offer, <2>1, <2>4, <3>1
  <2>5. ASSUME NEW S, S \subseteq Allowed,
               calls' = [calls EXCEPT ![p].shares = S, ![p].next = d[1] + 1]
        PROVE  Moves(p)
    <3> DEFINE c == [calls[p] EXCEPT !.shares = S, !.next = d[1] + 1]
    <3>1. c \in Call /\ c.op = calls[p].op /\ c.at = "custody"
      BY <2>1, <2>2, <2>5 DEF Call
    <3> QED BY <1>on, <2>1, <2>5, <3>1
  <2>6. CASE calls' = [calls EXCEPT ![p].next = d[1] + 1]
    <3> DEFINE c == [calls[p] EXCEPT !.next = d[1] + 1]
    <3>1. c \in Call /\ c.op = calls[p].op /\ c.at = "custody"
      BY <2>1, <2>2 DEF Call
    <3> QED BY <1>on, <2>1, <2>6, <3>1
  <2> QED BY <1>8, <2>3, <2>4, <2>5, <2>6 DEF AskCustody
<1>9. ASSUME NEW p \in Callers, Reconcile(p)
      PROVE  Moves(p)
  <2> DEFINE c == [calls[p] EXCEPT !.at = "settle"]
  <2>1. CASE calls' = [calls EXCEPT ![p] = c]
    <3>1. /\ calls[p] \in Call /\ Op(p) \in Operations /\ records'[Op(p)] # Absent
          /\ records'[Op(p)].started /\ calls[p].offer \in Terminal
      BY <1>9, GoesOn DEF Reconcile, Steps, Dispatched, Op, OffersMade
    <3>2. c \in Call /\ c.op = Op(p) /\ c.at = "settle" /\ c.offer = calls[p].offer
      BY <3>1 DEF Call, Steps, Op
    <3> HIDE DEF c
    <3>3. CallGood(c)
      BY <3>1, <3>2 DEF CallGood, Dispatched
    <3> QED BY <2>1, <3>3 DEF Moves, c
  <2> QED BY <1>9, <2>1 DEF Reconcile, TellTerminal
<1>10. ASSUME NEW p \in Callers,
              \/ Settle(p) \/ SharesOver(p) \/ JournalUnavailable(p) \/ GiveUp(p)
              \/ \E o \in Operations : CallUnavailable(p, o)
       PROVE  Moves(p)
  BY <1>10 DEF Settle, TellTerminal, SharesOver, JournalUnavailable, GiveUp, CallUnavailable
<1>11. ASSUME Scan \/ \E o \in Operations : Expire(o)
       PROVE  UNCHANGED calls
  BY <1>11 DEF Scan, Expire
<1> HIDE DEF Answers
<1> QED BY <1>1, <1>2, <1>3, <1>4, <1>5, <1>7, <1>8, <1>9, <1>10, <1>11 DEF Next

LEMMA CallsTyped ==
    ASSUME TypeOK, CallsOnRecord, OffersMade, [Next]_vars
    PROVE  calls' \in [Callers -> Call] /\ CallsOnRecord' /\ OffersMade'
<1>1. RecordsGrow /\ JournalTypeOK'
  BY JournalStep
<1>2. CASE Crash
  <2>1. \A p \in Callers : calls'[p] = Rest("none")
    BY <1>2 DEF Crash
  <2>2. Rest("none") \in Call /\ Rest("none").at = "none"
    BY RestIsCall DEF Answers
  <2>3. calls' \in [Callers -> Call]
    BY <1>2, <2>2 DEF Crash
  <2>4. \A p \in Callers : calls'[p].at \notin Steps
    BY <2>1, <2>2 DEF Steps
  <2>5. CallsOnRecord' /\ OffersMade'
    BY <2>4 DEF CallsOnRecord, OffersMade, Steps
  <2> QED BY <2>3, <2>5
<1>3. CASE UNCHANGED calls
  BY <1>1, <1>3, NobodyMoves
<1>4. ASSUME NEW p \in Callers, Moves(p)
      PROVE  calls' \in [Callers -> Call] /\ CallsOnRecord' /\ OffersMade'
  BY <1>1, <1>4, OneCallMoves
<1> QED BY <1>1, <1>2, <1>3, <1>4, CallsStep DEF vars

-----------------------------------------------------------------------------
(* What was done and told *)

\* The two ways in which a result is told: it is on record, or it is written.
ToldStep ==
    \/ UNCHANGED told
    \/ \E o \in Operations :
          /\ Settled(o) /\ records[o].terminal \in Terminal
          /\ told' = [told EXCEPT ![o] = @ \cup {records[o].terminal}]
    \/ \E o \in Operations, t \in Terminal :
          /\ ~Settled(o)
          /\ records' = [records EXCEPT ![o] = SettledRecord(t)]
          /\ told' = [told EXCEPT ![o] = @ \cup {t}]

LEMMA TellsStep ==
    ASSUME TypeOK, CallsOnRecord, OffersMade, [Next]_vars
    PROVE  ToldStep
<1>1. ASSUME NEW p \in Callers, NEW o \in Operations, Settled(o), TellTerminal(p, o)
      PROVE  ToldStep
  <2>1. records[o].terminal \in Terminal
    BY <1>1 DEF Settled, Known, TypeOK, JournalTypeOK, Record
  <2> QED BY <1>1, <2>1 DEF ToldStep, TellTerminal
<1>2. ASSUME NEW p \in Callers, NEW o \in Operations, ReleaseReplay(p, o) \/ Resume(p, o)
      PROVE  ToldStep
  BY <1>1, <1>2 DEF ReleaseReplay, Resume, ghosts, ToldStep
<1>3. ASSUME NEW p \in Callers, calls[p].at \in Steps
      PROVE  Op(p) \in Operations
  BY <1>3 DEF CallsOnRecord
<1>4. ASSUME NEW p \in Callers, Reconcile(p)
      PROVE  ToldStep
  BY <1>1, <1>3, <1>4 DEF Reconcile, ghosts, ToldStep, Steps
<1>5. ASSUME NEW p \in Callers, Settle(p)
      PROVE  ToldStep
  <2>1. Op(p) \in Operations /\ calls[p].offer \in Terminal
    BY <1>3, <1>5 DEF Settle, OffersMade, Steps
  <2>2. CASE MustSettle(p)
    <3>1. /\ ~Settled(Op(p))
          /\ records' = [records EXCEPT ![Op(p)] = SettledRecord(calls[p].offer)]
          /\ told' = [told EXCEPT ![Op(p)] = @ \cup {calls[p].offer}]
      BY <1>5, <2>2 DEF Settle, MustSettle, WriteRecord
    <3> QED BY <2>1, <3>1 DEF ToldStep
  <2>3. CASE ~MustSettle(p)
    <3>1. Settled(Op(p))
      BY <1>5, <2>3 DEF Settle, MustSettle
    <3> QED BY <1>1, <1>5, <2>1, <2>3, <3>1 DEF Settle, ghosts, ToldStep
  <2> QED BY <2>2, <2>3
<1>6. ASSUME UNCHANGED told PROVE ToldStep
  BY <1>6 DEF ToldStep
<1>7. ASSUME \E p \in Callers :
                   \/ \E o \in Operations : ReleaseNew(p, o) \/ CallUnavailable(p, o)
                   \/ \E n \in Providers : AskRights(p, n)
                   \/ \E d \in Allowed : AskCustody(p, d)
                   \/ MarkStarted(p)
      PROVE  UNCHANGED told
  BY <1>7 DEF ReleaseNew, CallUnavailable, AskRights, AskCustody, MarkStarted, Dispatch, ghosts
<1>8. ASSUME \E p \in Callers :
                   \/ NothingToPersist(p) \/ PersistDecisions(p)
                   \/ SharesOver(p) \/ JournalUnavailable(p) \/ GiveUp(p)
      PROVE  UNCHANGED told
  BY <1>8 DEF NothingToPersist, PersistDecisions, SharesOver, JournalUnavailable, GiveUp, ghosts
<1>9. ASSUME Scan \/ Crash \/ (\E o \in Operations : Expire(o)) \/ UNCHANGED vars
      PROVE  UNCHANGED told
  BY <1>9 DEF Scan, Crash, Expire, vars, ghosts
<1> QED BY <1>2, <1>4, <1>5, <1>6, <1>7, <1>8, <1>9 DEF Next

LEMMA ToldKept ==
    ASSUME TypeOK, ToldOnRecord, RecordsGrow, ToldStep
    PROVE  told' \in [Operations -> SUBSET Terminal] /\ ToldOnRecord'
<1>0. told \in [Operations -> SUBSET Terminal] /\ records \in [Operations -> Record \cup {Absent}]
  BY DEF TypeOK, JournalTypeOK
<1>1. CASE UNCHANGED told
  BY <1>0, <1>1 DEF ToldOnRecord, RecordsGrow, Settled, Known
<1>2. ASSUME NEW o \in Operations, Settled(o), records[o].terminal \in Terminal,
             told' = [told EXCEPT ![o] = @ \cup {records[o].terminal}]
      PROVE  told' \in [Operations -> SUBSET Terminal] /\ ToldOnRecord'
  BY <1>0, <1>2 DEF ToldOnRecord, RecordsGrow, Settled, Known
<1>3. ASSUME NEW o \in Operations, NEW t \in Terminal, ~Settled(o),
             records' = [records EXCEPT ![o] = SettledRecord(t)],
             told' = [told EXCEPT ![o] = @ \cup {t}]
      PROVE  told' \in [Operations -> SUBSET Terminal] /\ ToldOnRecord'
  <2>1. told' \in [Operations -> SUBSET Terminal]
    BY <1>0, <1>3
  <2>2. SettledRecord(t) \in Record /\ SettledRecord(t).terminal = t
    BY DEF SettledRecord, Record
  <2>3. Settled(o)' /\ records'[o].terminal = t /\ told'[o] = {t}
    BY <1>0, <1>3, <2>2, AbsencesAssumption DEF Settled, Known, ToldOnRecord
  <2>4. \A q \in Operations : q # o => told'[q] = told[q] /\ records'[q] = records[q]
    BY <1>0, <1>3
  <2>5. ToldOnRecord'
    BY <2>3, <2>4 DEF ToldOnRecord, Settled, Known
  <2> QED BY <2>1, <2>5
<1> QED BY <1>1, <1>2, <1>3 DEF ToldStep

\* A step adds an effect only to an operation whose record is, or with the same
\* step becomes, started.
EffectStep(o) ==
    \/ initial'[o] = initial[o] /\ denials'[o] = denials[o] /\ custody'[o] = custody[o]
    \/ records'[o] # Absent /\ records'[o].started

\* The steps of a call that dispatch nothing and ask no provider.
Quiet ==
    \E p \in Callers :
        \/ \E o \in Operations : \/ ReleaseNew(p, o) \/ ReleaseReplay(p, o)
                                 \/ Resume(p, o) \/ CallUnavailable(p, o)
        \/ NothingToPersist(p) \/ PersistDecisions(p) \/ SharesOver(p)
        \/ Reconcile(p) \/ Settle(p) \/ JournalUnavailable(p) \/ GiveUp(p)

LEMMA StepKinds ==
    ASSUME [Next]_vars
    PROVE  \/ \E p \in Callers : MarkStarted(p)
           \/ \E p \in Callers, n \in Providers : AskRights(p, n)
           \/ \E p \in Callers, d \in Allowed : AskCustody(p, d)
           \/ Quiet \/ Scan \/ Crash \/ (\E o \in Operations : Expire(o)) \/ UNCHANGED vars
BY DEF Next, Quiet

LEMMA QuietFacts == ASSUME Quiet PROVE UNCHANGED <<initial, custody, denials, expired>>
<1>1. ASSUME NEW p \in Callers, NEW o \in Operations,
             ReleaseNew(p, o) \/ ReleaseReplay(p, o) \/ Resume(p, o) \/ CallUnavailable(p, o)
      PROVE  UNCHANGED <<initial, custody, denials, expired>>
  BY <1>1 DEF ReleaseNew, ReleaseReplay, Resume, CallUnavailable, TellTerminal, ghosts
<1>2. ASSUME NEW p \in Callers,
             \/ NothingToPersist(p) \/ PersistDecisions(p) \/ SharesOver(p)
             \/ Reconcile(p) \/ Settle(p) \/ JournalUnavailable(p) \/ GiveUp(p)
      PROVE  UNCHANGED <<initial, custody, denials, expired>>
  BY <1>2 DEF NothingToPersist, PersistDecisions, SharesOver, Reconcile, Settle,
              JournalUnavailable, GiveUp, TellTerminal, ghosts
<1> QED BY <1>1, <1>2 DEF Quiet

LEMMA OutsideFacts ==
    ASSUME Scan \/ Crash \/ (\E o \in Operations : Expire(o)) \/ UNCHANGED vars
    PROVE  UNCHANGED <<initial, custody, denials>>
BY DEF Scan, Crash, Expire, vars, ghosts

LEMMA EffectsStep ==
    ASSUME TypeOK, CallsOnRecord, OffersMade, JournalTypeOK', RecordsGrow, [Next]_vars
    PROVE  /\ expired' \subseteq Operations
           /\ initial' \in [Operations -> Nat]
           /\ custody' \in [Operations -> SUBSET Allowed]
           /\ denials' \in [Operations -> SUBSET Providers]
           /\ \A o \in Operations : EffectStep(o)
<1> DEFINE Goal == /\ expired' \subseteq Operations
                   /\ initial' \in [Operations -> Nat]
                   /\ custody' \in [Operations -> SUBSET Allowed]
                   /\ denials' \in [Operations -> SUBSET Providers]
                   /\ \A o \in Operations : EffectStep(o)
<1>0. /\ initial \in [Operations -> Nat] /\ custody \in [Operations -> SUBSET Allowed]
      /\ denials \in [Operations -> SUBSET Providers] /\ expired \subseteq Operations
  BY DEF TypeOK
<1>same. ASSUME UNCHANGED <<initial, custody, denials>>, expired' \subseteq Operations
         PROVE  Goal
  BY <1>0, <1>same DEF EffectStep
<1>1. ASSUME NEW p \in Callers, MarkStarted(p)
      PROVE  Goal
  <2>1. Op(p) \in Operations /\ records[Op(p)] \in Record
    BY <1>1 DEF MarkStarted, CallsOnRecord, TypeOK, JournalTypeOK, Known, Steps
  <2>2. records'[Op(p)] # Absent /\ records'[Op(p)].started
    <3>1. CASE MustMark(p)
      <4>1. StartedRecord(Op(p)) \in Record /\ StartedRecord(Op(p)).started
        BY <2>1 DEF StartedRecord, Record
      <4>2. records'[Op(p)] = StartedRecord(Op(p))
        BY <1>1, <2>1, <3>1 DEF MarkStarted, WriteRecord, TypeOK, JournalTypeOK
      <4> QED BY <4>1, <4>2, AbsencesAssumption
    <3>2. CASE ~MustMark(p)
      BY <1>1, <2>1, <3>2 DEF MarkStarted, MustMark, RecordsGrow
    <3> QED BY <3>1, <3>2
  <2>3. /\ initial' = [initial EXCEPT ![Op(p)] = @ + 1]
        /\ custody' = custody /\ denials' = denials /\ expired' = expired
    BY <1>1 DEF MarkStarted, Dispatch
  <2> QED BY <1>0, <2>1, <2>2, <2>3 DEF EffectStep
<1>2. ASSUME NEW p \in Callers, calls[p].at \in {"rights", "custody"}
      PROVE  /\ Op(p) \in Operations
             /\ records'[Op(p)] # Absent /\ records'[Op(p)].started
  BY <1>2, GoesOn DEF Steps, Dispatched, Op
<1>3. ASSUME NEW p \in Callers, NEW n \in Providers, AskRights(p, n)
      PROVE  Goal
  <2>1. /\ denials' = denials \/ denials' = [denials EXCEPT ![Op(p)] = @ \cup {n}]
        /\ initial' = initial /\ custody' = custody /\ expired' = expired
        /\ calls[p].at = "rights"
    BY <1>3 DEF AskRights
  <2> QED BY <1>0, <1>2, <2>1 DEF EffectStep
<1>4. ASSUME NEW p \in Callers, NEW d \in Allowed, AskCustody(p, d)
      PROVE  Goal
  <2>1. /\ custody' = [custody EXCEPT ![Op(p)] = @ \cup {d}]
        /\ initial' = initial /\ denials' = denials /\ expired' = expired
        /\ calls[p].at = "custody"
    BY <1>4 DEF AskCustody
  <2> QED BY <1>0, <1>2, <2>1 DEF EffectStep
<1>5. ASSUME Quiet PROVE Goal
  BY <1>0, <1>same, <1>5, QuietFacts
<1>6. ASSUME Scan \/ Crash \/ (\E o \in Operations : Expire(o)) \/ UNCHANGED vars PROVE Goal
  <2>1. expired' \subseteq Operations
    BY <1>0, <1>6 DEF Scan, Crash, Expire, vars, ghosts
  <2> QED BY <1>6, <1>same, <2>1, OutsideFacts
<1> HIDE DEF Goal
<1>7. Goal
  BY <1>1, <1>3, <1>4, <1>5, <1>6, StepKinds
<1> QED BY <1>7 DEF Goal

-----------------------------------------------------------------------------
(* The theorems *)

LEMMA Initially == Init => IInv
<1> SUFFICES ASSUME Init PROVE IInv OBVIOUS
<1>1. Rest("none") \in Call /\ Rest("none").at = "none"
  BY RestIsCall DEF Answers
<1>2. TypeOK
  BY <1>1 DEF Init, JournalInit, TypeOK, JournalTypeOK
<1>3. \A p \in Callers : calls[p].at \notin Steps
  BY <1>1 DEF Init, Steps
<1>4. EffectsRecorded /\ ToldOnRecord
  BY DEF Init, EffectsRecorded, ToldOnRecord
<1> QED BY <1>2, <1>3, <1>4 DEF IInv, CallsOnRecord, OffersMade, Steps

LEMMA Stepwise == IInv /\ [Next]_vars => IInv'
<1> SUFFICES ASSUME IInv, [Next]_vars PROVE IInv' OBVIOUS
<1>0. TypeOK /\ CallsOnRecord /\ OffersMade /\ EffectsRecorded /\ ToldOnRecord
  BY DEF IInv
<1>1. JournalTypeOK' /\ RecordsGrow
  BY <1>0, JournalStep
<1>2. calls' \in [Callers -> Call] /\ CallsOnRecord' /\ OffersMade'
  BY <1>0, CallsTyped
<1>3. told' \in [Operations -> SUBSET Terminal] /\ ToldOnRecord'
  BY <1>0, <1>1, TellsStep, ToldKept
<1>4. /\ expired' \subseteq Operations
      /\ initial' \in [Operations -> Nat]
      /\ custody' \in [Operations -> SUBSET Allowed]
      /\ denials' \in [Operations -> SUBSET Providers]
      /\ \A o \in Operations : EffectStep(o)
  BY <1>0, <1>1, EffectsStep
<1>5. TypeOK'
  BY <1>1, <1>2, <1>3, <1>4 DEF TypeOK
<1>6. EffectsRecorded'
  BY <1>0, <1>1, <1>4 DEF EffectsRecorded, EffectStep, RecordsGrow, Started, Known
<1> QED BY <1>2, <1>3, <1>5, <1>6 DEF IInv

LEMMA Inductive == Spec => []IInv
<1> QED BY Initially, Stepwise, PTL DEF Spec

\* The state of the journal, of every call and of the ghosts is well typed.
THEOREM ReleaseTypeCorrect == Spec => []TypeOK
<1>1. IInv => TypeOK
  BY DEF IInv
<1> QED BY <1>1, Inductive, PTL

\* mark_provider_effect_started before any provider call: whatever overlaps,
\* fails or crashes, a provider is only ever called for an operation whose
\* record says that its effect has started.
THEOREM EffectsAlwaysFollowRecord == Spec => []EffectsFollowRecord
<1>1. IInv => EffectsFollowRecord
  BY DEF IInv, CallsOnRecord, EffectsRecorded, EffectsFollowRecord, Steps, Dispatched
<1> QED BY <1>1, Inductive, PTL

\* mark_terminal settles an operation once: all callers that are ever given a
\* terminal result of an operation are given the same one, and it is on record.
THEOREM OneOutcomeEver == Spec => []OneOutcome
<1>1. IInv => OneOutcome
  BY DEF IInv, ToldOnRecord, OneOutcome
<1> QED BY <1>1, Inductive, PTL

\* persist_replayable_rights_decisions and mark_terminal: a recorded decision
\* stays on record until the operation is settled.
THEOREM DecisionsAlwaysStay == Spec => DecisionsStay
<1>1. IInv /\ [Next]_vars => DecisionsKept
  BY JournalStep DEF IInv, RecordsGrow, DecisionsKept
<1> QED BY <1>1, Inductive, PTL DEF Spec, DecisionsStay
=============================================================================
