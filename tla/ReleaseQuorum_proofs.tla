------------------------ MODULE ReleaseQuorum_proofs ------------------------
(***************************************************************************)
(* What a release rests on, for any number of callers, operations and      *)
(* providers: shares are requested behind a recorded quorum only, a result *)
(* is grounded in what providers did, and replays add no dispatch.  The    *)
(* invariant follows the decisions from the answer of a node through the   *)
(* merge in the journal to the offer that settles the operation.           *)
(* With it every step is one of ReleasePromise, or a stutter.              *)
(***************************************************************************)
EXTENDS ReleaseCoordinator_proofs, FiniteSetTheorems

\* No node has decided twice in D.
Single(D) == \A d, e \in D : d[1] = e[1] => d = e

\* A terminal result t of o rests on the shares S requested for o and on the
\* nodes N that denied o.
Grounded(S, N, t) ==
    IF t.kind = "denied" THEN t.by \in N
    ELSE t.shares \subseteq S /\ Cardinality(Deciders(t.shares)) = Threshold

\* A record with one decision per node, and a grounded result if it has one.
Sound(S, N, r) == Single(r.decisions) /\ (r.terminal # Open => Grounded(S, N, r.terminal))
RecordsSound ==
    \A o \in Operations : Known(o) => Sound(custody[o], denials[o], records[o])

\* A call whose record is r: the decisions it goes by are on record until there
\* is a result, the shares it has are of such decisions, its offer is grounded.
Backed(r, D) == r.terminal # Open \/ D \subseteq r.decisions
CallSound(r, S, N, c) ==
    /\ c.at = "mark" => c.known = {} /\ c.fresh = {}
    /\ c.at \in {"mark", "rights"} => c.shares = {}
    /\ c.at \in {"rights", "custody"} => Single(c.known \cup c.fresh) /\ Backed(r, c.known)
    /\ c.at = "custody" =>
         /\ Cardinality(c.known) >= Threshold
         /\ c.fresh = {}
         /\ c.shares \subseteq c.known \cap S
    /\ c.at \in {"reconcile", "settle"} => Grounded(S, N, c.offer)
CallsSound ==
    \A p \in Callers : calls[p].at \in Steps =>
        CallSound(records[Op(p)], custody[Op(p)], denials[Op(p)], calls[p])

QInv == IInv /\ RecordsSound /\ CallsSound /\ SharesNeedQuorum

-----------------------------------------------------------------------------
(* Decisions and their nodes *)

LEMMA DecidersFinite ==
    ASSUME NEW D, D \subseteq Allowed
    PROVE  IsFiniteSet(Deciders(D)) /\ Cardinality(Deciders(D)) \in Nat
<1>1. IsFiniteSet(Providers)
  BY FS_Interval, CountsAssumption DEF Providers
<1>2. Deciders(D) \in SUBSET Providers
  BY DEF Deciders, Allowed
<1> QED BY <1>1, <1>2, FS_Subset, FS_CardinalityType

LEMMA DecidersGrow ==
    ASSUME NEW D, NEW E, D \subseteq E, E \subseteq Allowed
    PROVE  Cardinality(Deciders(D)) <= Cardinality(Deciders(E))
<1>1. IsFiniteSet(Deciders(E))
  BY DecidersFinite
<1>2. Deciders(D) \in SUBSET Deciders(E)
  BY DEF Deciders
<1> QED BY <1>1, <1>2, FS_Subset

\* With one decision per node, decisions count as nodes.
LEMMA SingleCounts ==
    ASSUME NEW D, D \subseteq Allowed, Single(D)
    PROVE  Cardinality(D) \in Nat /\ Cardinality(Deciders(D)) = Cardinality(D)
<1> DEFINE f == [d \in D |-> d[1]]
<1>1. f \in [D -> Deciders(D)]
  BY DEF Deciders
<1>2. f \in Injection(D, Deciders(D))
  BY <1>1 DEF Single, Injection, IsInjective
<1>3. f \in Surjection(D, Deciders(D))
  BY <1>1 DEF Deciders, Surjection
<1>4. IsFiniteSet(Deciders(D))
  BY DecidersFinite
<1> HIDE DEF f
<1>5. IsFiniteSet(D) /\ (Cardinality(D) = Cardinality(Deciders(D)) <=> f \in Surjection(D, Deciders(D)))
  BY <1>2, <1>4, FS_Injection
<1> QED BY <1>3, <1>5, FS_CardinalityType

LEMMA SingleSubset ==
    ASSUME NEW D, NEW E, D \subseteq E, Single(E)
    PROVE  Single(D)
BY DEF Single

LEMMA GroundedGrows ==
    ASSUME NEW S, NEW N, NEW S2, NEW N2, NEW t, S \subseteq S2, N \subseteq N2, Grounded(S, N, t)
    PROVE  Grounded(S2, N2, t)
BY DEF Grounded

-----------------------------------------------------------------------------
(* The journal *)

RecordsStaySound ==
    \A o \in Operations : records'[o] # Absent => Sound(custody[o], denials[o], records'[o])

LEMMA JournalWriteSound ==
    ASSUME JournalTypeOK, RecordsSound, NEW o \in Operations, NEW r,
           Sound(custody[o], denials[o], r), WriteRecord(o, r) \/ CutShort(o, r)
    PROVE  RecordsStaySound
<1>1. records' = records \/ records' = [records EXCEPT ![o] = r]
  BY DEF WriteRecord, CutShort
<1>2. CASE records' = records
  BY <1>2 DEF RecordsStaySound, RecordsSound, Known
<1>3. CASE records' = [records EXCEPT ![o] = r]
  <2> SUFFICES ASSUME NEW q \in Operations, records'[q] # Absent
               PROVE  Sound(custody[q], denials[q], records'[q])
    BY DEF RecordsStaySound
  <2>1. CASE q = o
    BY <1>3, <2>1 DEF JournalTypeOK
  <2>2. CASE q # o
    BY <1>3, <2>2 DEF JournalTypeOK, RecordsSound, Known
  <2> QED BY <2>1, <2>2
<1> QED BY <1>1, <1>2, <1>3

LEMMA JournalKeepsSound ==
    ASSUME RecordsSound, UNCHANGED records
    PROVE  RecordsStaySound
BY DEF RecordsStaySound, RecordsSound, Known

\* What a call may write is sound: the start, the merge, the result.
LEMMA WritesSound ==
    ASSUME TypeOK, CallsOnRecord, RecordsSound, CallsSound, NEW p \in Callers
    PROVE  LET o == Op(p)
           IN  /\ MustMark(p) => Sound(custody[o], denials[o], StartedRecord(o))
               /\ MustMerge(p) => Sound(custody[o], denials[o], MergedRecord(o, calls[p].fresh))
               /\ MustSettle(p) => Sound(custody[o], denials[o], SettledRecord(calls[p].offer))
<1> DEFINE o == Op(p)
<1>0. calls[p].at \in Steps => /\ o \in Operations /\ Known(o) /\ records[o] \in Record
                               /\ Sound(custody[o], denials[o], records[o])
                               /\ CallSound(records[o], custody[o], denials[o], calls[p])
  BY DEF CallsOnRecord, TypeOK, JournalTypeOK, Known, RecordsSound, CallsSound
<1>1. ASSUME MustMark(p) PROVE Sound(custody[o], denials[o], StartedRecord(o))
  <2>1. records[o] \in Record /\ Sound(custody[o], denials[o], records[o])
    BY <1>0, <1>1 DEF MustMark, Steps
  <2>2. /\ StartedRecord(o).decisions = records[o].decisions
        /\ StartedRecord(o).terminal = records[o].terminal
    BY <2>1 DEF StartedRecord, Record
  <2> QED BY <2>1, <2>2 DEF Sound
<1>2. ASSUME MustMerge(p) PROVE Sound(custody[o], denials[o], MergedRecord(o, calls[p].fresh))
  <2> DEFINE F == calls[p].fresh
  <2>1. /\ records[o] \in Record /\ Sound(custody[o], denials[o], records[o])
        /\ Single(calls[p].known \cup F) /\ ~MergeConflicts(o, F)
    BY <1>0, <1>2 DEF MustMerge, RightsOver, Steps, CallSound
  <2>2. /\ MergedRecord(o, F).decisions = records[o].decisions \cup F
        /\ MergedRecord(o, F).terminal = records[o].terminal
    BY <2>1 DEF MergedRecord, Record
  <2>3. Single(records[o].decisions \cup F)
    BY <2>1 DEF Single, Sound, MergeConflicts
  <2> QED BY <2>1, <2>2, <2>3 DEF Sound
<1>3. ASSUME MustSettle(p) PROVE Sound(custody[o], denials[o], SettledRecord(calls[p].offer))
  <2>1. Grounded(custody[o], denials[o], calls[p].offer)
    BY <1>0, <1>3 DEF MustSettle, Steps, CallSound
  <2> QED BY <2>1 DEF Sound, SettledRecord, Single
<1> QED BY <1>1, <1>2, <1>3

LEMMA JournalStepSound ==
    ASSUME TypeOK, CallsOnRecord, RecordsSound, CallsSound, [Next]_vars
    PROVE  RecordsStaySound
<1>0. JournalTypeOK
  BY DEF TypeOK
<1>1. ASSUME NEW o \in Operations PROVE Sound(custody[o], denials[o], NewRecord)
  BY DEF Sound, NewRecord, Single
<1>o. ASSUME NEW p \in Callers, calls[p].at \in Steps PROVE Op(p) \in Operations
  BY <1>o DEF CallsOnRecord
<1>2. ASSUME NEW p \in Callers, NEW o \in Operations, ReleaseNew(p, o)
      PROVE  RecordsStaySound
  BY <1>0, <1>1, <1>2, JournalWriteSound, JournalKeepsSound DEF ReleaseNew, ReadJournal
<1>3. ASSUME NEW p \in Callers, NEW o \in Operations, CallUnavailable(p, o)
      PROVE  RecordsStaySound
  BY <1>0, <1>1, <1>3, JournalWriteSound, JournalKeepsSound DEF CallUnavailable, JournalFails
<1>4. ASSUME NEW p \in Callers, MarkStarted(p)
      PROVE  RecordsStaySound
  BY <1>0, <1>o, <1>4, WritesSound, JournalWriteSound, JournalKeepsSound
     DEF MarkStarted, ReadJournal, Steps
<1>5. ASSUME NEW p \in Callers, PersistDecisions(p)
      PROVE  RecordsStaySound
  BY <1>0, <1>o, <1>5, WritesSound, JournalWriteSound, JournalKeepsSound
     DEF PersistDecisions, ReadJournal, RightsOver, Steps
<1>6. ASSUME NEW p \in Callers, Settle(p)
      PROVE  RecordsStaySound
  BY <1>0, <1>o, <1>6, WritesSound, JournalWriteSound, JournalKeepsSound
     DEF Settle, ReadJournal, Steps
<1>7. ASSUME NEW p \in Callers, JournalUnavailable(p)
      PROVE  RecordsStaySound
  BY <1>0, <1>o, <1>7, WritesSound, JournalWriteSound, JournalKeepsSound
     DEF JournalUnavailable, JournalFails, RightsOver, Steps
<1>8. ASSUME UNCHANGED records PROVE RecordsStaySound
  BY <1>8, JournalKeepsSound
<1>9. ASSUME NEW p \in Callers,
             \/ \E o \in Operations : ReleaseReplay(p, o) \/ Resume(p, o)
             \/ Reconcile(p) \/ NothingToPersist(p) \/ SharesOver(p) \/ GiveUp(p)
      PROVE  UNCHANGED records
  BY <1>9 DEF ReleaseReplay, Resume, Reconcile, NothingToPersist, SharesOver, GiveUp,
              ReadJournal, journalVars
<1>10. ASSUME NEW p \in Callers,
              \/ \E n \in Providers : AskRights(p, n)
              \/ \E d \in Allowed : AskCustody(p, d)
       PROVE  UNCHANGED records
  BY <1>10 DEF AskRights, AskCustody, journalVars
<1>11. ASSUME Scan \/ Crash \/ (\E o \in Operations : Expire(o)) \/ UNCHANGED vars
       PROVE  UNCHANGED records
  BY <1>11 DEF Scan, Crash, Expire, ReadJournal, journalVars, vars
<1>12. CASE Quiet
  BY <1>2, <1>3, <1>5, <1>6, <1>7, <1>8, <1>9, <1>12 DEF Quiet
<1> QED BY <1>4, <1>8, <1>10, <1>11, <1>12, StepKinds

-----------------------------------------------------------------------------
(* The calls *)

GhostsGrow ==
    \A o \in Operations : custody[o] \subseteq custody'[o] /\ denials[o] \subseteq denials'[o]

LEMMA GhostsStep ==
    ASSUME TypeOK, [Next]_vars
    PROVE  GhostsGrow
<1>0. custody \in [Operations -> SUBSET Allowed] /\ denials \in [Operations -> SUBSET Providers]
  BY DEF TypeOK
<1>1. ASSUME UNCHANGED <<custody, denials>> PROVE GhostsGrow
  BY <1>1 DEF GhostsGrow
<1>2. ASSUME NEW p \in Callers, NEW n \in Providers, AskRights(p, n) PROVE GhostsGrow
  <2>1. /\ denials' = denials \/ denials' = [denials EXCEPT ![Op(p)] = @ \cup {n}]
        /\ custody' = custody
    BY <1>2 DEF AskRights
  <2> QED BY <1>0, <2>1 DEF GhostsGrow
<1>3. ASSUME NEW p \in Callers, NEW d \in Allowed, AskCustody(p, d) PROVE GhostsGrow
  <2>1. custody' = [custody EXCEPT ![Op(p)] = @ \cup {d}] /\ denials' = denials
    BY <1>3 DEF AskCustody
  <2> QED BY <1>0, <2>1 DEF GhostsGrow
<1>4. ASSUME NEW p \in Callers, MarkStarted(p) PROVE UNCHANGED <<custody, denials>>
  BY <1>4 DEF MarkStarted, Dispatch
<1> HIDE DEF GhostsGrow
<1> QED BY <1>1, <1>2, <1>3, <1>4, StepKinds, QuietFacts, OutsideFacts

\* What a call may become: at rest, or sound in the state after the step, and
\* about to mark a record only if that was not marked.
GoodNext(c) ==
    /\ c.at \in Steps => CallSound(records'[c.op], custody'[c.op], denials'[c.op], c)
    /\ c.at = "mark" => ~Started(c.op)
MovesSound(p) == \E c : GoodNext(c) /\ calls' = [calls EXCEPT ![p] = c]

\* A sound call stays sound when its record, and what was asked, grow.
LEMMA SoundStays ==
    ASSUME RecordsGrow, GhostsGrow, CallsOnRecord, CallsSound, NEW p \in Callers,
           calls[p].at \in Steps
    PROVE  CallSound(records'[Op(p)], custody'[Op(p)], denials'[Op(p)], calls[p])
<1> DEFINE o == Op(p)
<1>1. o \in Operations /\ Known(o) /\ CallSound(records[o], custody[o], denials[o], calls[p])
  BY DEF CallsOnRecord, CallsSound
<1>2. ASSUME NEW D, Backed(records[o], D) PROVE Backed(records'[o], D)
  BY <1>1, <1>2 DEF Backed, RecordsGrow, Settled
<1>3. custody[o] \subseteq custody'[o] /\ denials[o] \subseteq denials'[o]
  BY <1>1 DEF GhostsGrow
<1>4. Grounded(custody[o], denials[o], calls[p].offer)
        => Grounded(custody'[o], denials'[o], calls[p].offer)
  BY <1>3, GroundedGrows
<1> HIDE DEF o
<1>5. CallSound(records'[o], custody'[o], denials'[o], calls[p])
  BY <1>1, <1>2, <1>3, <1>4 DEF CallSound
<1> QED BY <1>5 DEF o

LEMMA OneCallSound ==
    ASSUME TypeOK, RecordsGrow, GhostsGrow, CallsOnRecord, CallsSound,
           NEW p \in Callers, MovesSound(p)
    PROVE  CallsSound'
<1>1. PICK c : GoodNext(c) /\ calls' = [calls EXCEPT ![p] = c]
  BY DEF MovesSound
<1>2. calls'[p] = c /\ \A q \in Callers : q # p => calls'[q] = calls[q]
  BY <1>1 DEF TypeOK
<1> SUFFICES ASSUME NEW q \in Callers, calls'[q].at \in Steps
             PROVE  CallSound(records'[calls'[q].op], custody'[calls'[q].op],
                              denials'[calls'[q].op], calls'[q])
  BY DEF CallsSound, Op
<1>3. CASE q = p
  BY <1>1, <1>2, <1>3 DEF GoodNext
<1>4. CASE q # p
  BY <1>2, <1>4, SoundStays DEF Op
<1> QED BY <1>3, <1>4

LEMMA RestSound ==
    ASSUME NEW p \in Callers, NEW a \in Answers, Return(p, a)
    PROVE  MovesSound(p)
<1>1. Rest(a).at = a
  BY DEF Rest
<1>2. GoodNext(Rest(a))
  BY <1>1 DEF GoodNext, Answers, Steps
<1> QED BY <1>2 DEF Return, MovesSound

\* A call that has just begun has nothing yet; a call with an offer, only that.
LEMMA MarkSound ==
    ASSUME NEW p \in Callers, NEW o, ~Started(o),
           calls' = [calls EXCEPT ![p] = [Rest("mark") EXCEPT !.op = o]]
    PROVE  MovesSound(p)
<1> DEFINE c == [Rest("mark") EXCEPT !.op = o]
<1>1. c.at = "mark" /\ c.op = o /\ c.known = {} /\ c.fresh = {} /\ c.shares = {}
  BY DEF Rest
<1> HIDE DEF c
<1>2. GoodNext(c)
  BY <1>1 DEF GoodNext, CallSound
<1> QED BY <1>2 DEF MovesSound, c

LEMMA OfferSound ==
    ASSUME NEW p \in Callers, NEW t, MakeOffer(p, t),
           Grounded(custody'[Op(p)], denials'[Op(p)], t)
    PROVE  MovesSound(p)
<1> DEFINE c == [Rest("reconcile") EXCEPT !.op = Op(p), !.offer = t]
<1>1. c.at = "reconcile" /\ c.op = Op(p) /\ c.offer = t
  BY DEF Rest
<1> HIDE DEF c
<1>2. GoodNext(c)
  BY <1>1 DEF GoodNext, CallSound
<1> QED BY <1>2 DEF MovesSound, MakeOffer, c

LEMMA RightsSound ==
    ASSUME TypeOK, CallsOnRecord, RecordsGrow, GhostsGrow, CallsSound,
           NEW p \in Callers, NEW n \in Providers, AskRights(p, n)
    PROVE  MovesSound(p)
<1> DEFINE o == Op(p)
<1>1. /\ calls[p].at = "rights" /\ calls[p] \in Call
      /\ CallSound(records'[o], custody'[o], denials'[o], calls[p])
  BY SoundStays DEF AskRights, TypeOK, Steps
<1>2. ASSUME NEW m, calls' = [calls EXCEPT ![p].next = m]
      PROVE  MovesSound(p)
  <2> DEFINE c == [calls[p] EXCEPT !.next = m]
  <2>1. /\ c.at = calls[p].at /\ c.op = Op(p) /\ c.known = calls[p].known
        /\ c.fresh = calls[p].fresh /\ c.shares = calls[p].shares
    BY <1>1 DEF Call, Op
  <2> HIDE DEF c
  <2>2. GoodNext(c)
    BY <1>1, <2>1 DEF GoodNext, CallSound
  <2> QED BY <1>2, <2>2 DEF MovesSound, c
<1>3. ASSUME NEW v \in Versions,
             calls' = [calls EXCEPT ![p].fresh = @ \cup {<<n, v>>}, ![p].next = n + 1]
      PROVE  MovesSound(p)
  <2> DEFINE c == [calls[p] EXCEPT !.fresh = @ \cup {<<n, v>>}, !.next = n + 1]
  <2>1. /\ c.at = calls[p].at /\ c.op = Op(p) /\ c.known = calls[p].known
        /\ c.fresh = calls[p].fresh \cup {<<n, v>>} /\ c.shares = calls[p].shares
    BY <1>1 DEF Call, Op
  <2> HIDE DEF c
  <2>2. n \notin Deciders(calls[p].known \cup calls[p].fresh)
    BY DEF AskRights, ToAsk, Held
  <2>3. Single(calls[p].known \cup calls[p].fresh \cup {<<n, v>>})
    BY <1>1, <2>2 DEF CallSound, Single, Deciders
  <2>4. GoodNext(c)
    BY <1>1, <2>1, <2>3 DEF GoodNext, CallSound
  <2> QED BY <1>3, <2>4 DEF MovesSound, c
<1>4. ASSUME MakeOffer(p, [kind |-> "denied", by |-> n]),
             denials' = [denials EXCEPT ![Op(p)] = @ \cup {n}]
      PROVE  MovesSound(p)
  <2>1. n \in denials'[Op(p)]
    BY <1>1, <1>4 DEF TypeOK, CallsOnRecord, Steps
  <2> QED BY <1>4, <2>1, OfferSound DEF Grounded
<1> QED BY <1>2, <1>3, <1>4, RestSound DEF AskRights, Answers

LEMMA DecisionsSound ==
    ASSUME TypeOK, CallsOnRecord, RecordsGrow, GhostsGrow, CallsSound, NEW p \in Callers,
           calls[p].at = "rights", NEW D, D \subseteq Allowed, Single(D),
           Backed(records'[Op(p)], D), WithDecisions(p, D)
    PROVE  MovesSound(p)
<1> DEFINE o == Op(p)
           c == [calls[p] EXCEPT !.at = "custody", !.known = D, !.fresh = {}, !.next = 1]
<1>1. CASE Cardinality(D) < Threshold
  BY <1>1, RestSound DEF WithDecisions, Answers
<1>2. CASE ~(Cardinality(D) < Threshold)
  <2>1. calls[p] \in Call /\ CallSound(records'[o], custody'[o], denials'[o], calls[p])
    BY SoundStays DEF TypeOK, Steps
  <2>2. /\ c.at = "custody" /\ c.op = o /\ c.known = D /\ c.fresh = {}
        /\ c.shares = calls[p].shares
    BY <2>1 DEF Call, Op
  <2>3. calls[p].shares = {}
    BY <2>1 DEF CallSound
  <2>4. Cardinality(D) >= Threshold
    BY <1>2, SingleCounts, CountsAssumption
  <2>5. calls' = [calls EXCEPT ![p] = c]
    BY <1>2 DEF WithDecisions
  <2> HIDE DEF c, o
  <2>6. Single(D \cup {})
    BY DEF Single
  <2>7. GoodNext(c)
    BY <2>2, <2>3, <2>4, <2>6 DEF GoodNext, CallSound, o
  <2> QED BY <2>5, <2>7 DEF MovesSound
<1> QED BY <1>1, <1>2

LEMMA MergeSound ==
    ASSUME TypeOK, CallsOnRecord, RecordsGrow, GhostsGrow, RecordsStaySound, CallsSound,
           NEW p \in Callers, NothingToPersist(p) \/ PersistDecisions(p)
    PROVE  MovesSound(p)
<1> DEFINE o == Op(p)
<1>1. /\ calls[p].at = "rights" /\ calls[p] \in Call /\ o \in Operations
      /\ records[o] \in Record /\ records[o] # Absent
      /\ CallSound(records'[o], custody'[o], denials'[o], calls[p])
  BY SoundStays, AbsencesAssumption
     DEF NothingToPersist, PersistDecisions, RightsOver, TypeOK, JournalTypeOK,
         CallsOnRecord, Known, Steps
<1>2. CASE NothingToPersist(p)
  <2>1. calls[p].known \subseteq Allowed
    BY <1>1 DEF Call
  <2>2. Single(calls[p].known) /\ Backed(records'[o], calls[p].known)
    BY <1>1, SingleSubset DEF CallSound
  <2> QED BY <1>1, <1>2, <2>1, <2>2, DecisionsSound DEF NothingToPersist
<1>3. CASE PersistDecisions(p) /\ MustMerge(p)
  <2> DEFINE r == MergedRecord(o, calls[p].fresh)
  <2>1. r.decisions = records[o].decisions \cup calls[p].fresh
    BY <1>1 DEF MergedRecord, Record
  <2>2. r.decisions \subseteq Allowed
    BY <1>1, <2>1 DEF Record, Call
  <2>3. records'[o] = r
    BY <1>1, <1>3 DEF PersistDecisions, WriteRecord, TypeOK, JournalTypeOK
  <2>4. records'[o] # Absent
    BY <1>1 DEF RecordsGrow, Known
  <2>5. Single(r.decisions) /\ Backed(records'[o], r.decisions)
    BY <1>1, <2>3, <2>4 DEF RecordsStaySound, Sound, Backed
  <2>6. WithDecisions(p, r.decisions)
    BY <1>3 DEF PersistDecisions
  <2> HIDE DEF r
  <2> QED BY <1>1, <2>2, <2>5, <2>6, DecisionsSound
<1>4. CASE PersistDecisions(p) /\ ~MustMerge(p)
  <2>1. Single({}) /\ Backed(records'[o], {})
    BY DEF Single, Backed
  <2>2. CASE WithDecisions(p, {})
    BY <1>1, <2>1, <2>2, DecisionsSound
  <2>3. CASE Return(p, "error")
    BY <2>3, RestSound DEF Answers
  <2> QED BY <1>4, <2>2, <2>3 DEF PersistDecisions
<1> QED BY <1>2, <1>3, <1>4

LEMMA CustodySound ==
    ASSUME TypeOK, CallsOnRecord, RecordsGrow, GhostsGrow, CallsSound,
           NEW p \in Callers, NEW d \in Allowed, AskCustody(p, d)
    PROVE  MovesSound(p)
<1> DEFINE o == Op(p)
<1>1. /\ calls[p].at = "custody" /\ calls[p] \in Call /\ o \in Operations
      /\ CallSound(records'[o], custody'[o], denials'[o], calls[p])
  BY SoundStays DEF AskCustody, TypeOK, CallsOnRecord, Steps
<1>2. d \in calls[p].known /\ d \in custody'[o]
  <2>1. custody' = [custody EXCEPT ![o] = @ \cup {d}] /\ d \in ShareToAsk(p)
    BY DEF AskCustody
  <2> QED BY <1>1, <2>1 DEF TypeOK, ShareToAsk
<1>3. ASSUME NEW S, S = calls[p].shares \/ S = calls[p].shares \cup {d}, NEW m,
             calls' = [calls EXCEPT ![p].shares = S, ![p].next = m]
      PROVE  MovesSound(p)
  <2> DEFINE c == [calls[p] EXCEPT !.shares = S, !.next = m]
  <2>1. /\ c.at = "custody" /\ c.op = o /\ c.known = calls[p].known
        /\ c.fresh = calls[p].fresh /\ c.shares = S
    BY <1>1 DEF Call, Op
  <2> HIDE DEF c, o
  <2>2. S \subseteq calls[p].known \cap custody'[o]
    BY <1>1, <1>2, <1>3 DEF CallSound
  <2>3. GoodNext(c)
    BY <1>1, <2>1, <2>2 DEF GoodNext, CallSound
  <2> QED BY <1>3, <2>3 DEF MovesSound, c
<1>4. ASSUME calls' = [calls EXCEPT ![p].next = d[1] + 1]
      PROVE  MovesSound(p)
  <2>1. calls' = [calls EXCEPT ![p].shares = calls[p].shares, ![p].next = d[1] + 1]
    <3>1. [calls[p] EXCEPT !.next = d[1] + 1]
            = [calls[p] EXCEPT !.shares = calls[p].shares, !.next = d[1] + 1]
      BY <1>1 DEF Call
    <3> QED BY <1>4, <3>1
  <2> QED BY <1>3, <2>1
<1>5. ASSUME EnoughShares(calls[p].shares \cup {d}),
             MakeOffer(p, [kind |-> "ready", shares |-> calls[p].shares \cup {d}])
      PROVE  MovesSound(p)
  <2> DEFINE S == calls[p].shares \cup {d}
  <2>1. S \subseteq calls[p].known \cap custody'[o] /\ Single(calls[p].known)
    BY <1>1, <1>2, SingleSubset DEF CallSound
  <2>2. S \subseteq Allowed /\ Single(S)
    BY <1>1, <2>1, SingleSubset DEF Call
  <2> HIDE DEF S
  <2>3. Cardinality(Deciders(S)) = Cardinality(S)
    BY <2>2, SingleCounts
  <2>4. Cardinality(S) = Threshold
    BY <1>5 DEF EnoughShares, S
  <2>5. Grounded(custody'[o], denials'[o], [kind |-> "ready", shares |-> S])
    BY <2>1, <2>3, <2>4 DEF Grounded
  <2> QED BY <1>5, <2>5, OfferSound DEF S
<1> QED BY <1>3, <1>4, <1>5, RestSound DEF AskCustody, Answers

LEMMA CallsMove ==
    ASSUME TypeOK, CallsOnRecord, RecordsGrow, GhostsGrow, RecordsStaySound, CallsSound, Next
    PROVE  \/ \E p \in Callers : MovesSound(p)
           \/ UNCHANGED calls
           \/ Crash
<1> USE RestSound DEF Answers
<1>1. ASSUME NEW p \in Callers, NEW o \in Operations, ReleaseNew(p, o)
      PROVE  MovesSound(p)
  BY <1>1, MarkSound DEF ReleaseNew, Started
<1>2. ASSUME NEW p \in Callers, NEW o \in Operations, ReleaseReplay(p, o)
      PROVE  MovesSound(p)
  BY <1>2, MarkSound DEF ReleaseReplay, TellTerminal
<1>3. ASSUME NEW p \in Callers, MarkStarted(p)
      PROVE  MovesSound(p)
  <2> DEFINE c == [calls[p] EXCEPT !.at = "rights"]
  <2>1. /\ calls[p].at = "mark" /\ calls[p] \in Call
        /\ CallSound(records[Op(p)], custody[Op(p)], denials[Op(p)], calls[p])
    BY <1>3 DEF MarkStarted, CallsSound, TypeOK, Steps
  <2>2. /\ c.at = "rights" /\ c.op = Op(p) /\ c.known = calls[p].known
        /\ c.fresh = calls[p].fresh /\ c.shares = calls[p].shares
    BY <2>1 DEF Call, Op
  <2> HIDE DEF c
  <2>3. GoodNext(c)
    BY <2>1, <2>2 DEF GoodNext, CallSound, Single, Backed
  <2> QED BY <1>3, <2>3 DEF MarkStarted, Dispatch, MovesSound, c
<1>4. ASSUME NEW p \in Callers, NEW o \in Operations, Resume(p, o)
      PROVE  MovesSound(p)
  <2> DEFINE c == [Rest("rights") EXCEPT !.op = o, !.resuming = TRUE,
                                         !.known = records[o].decisions]
  <2>1. CASE Started(o) /\ calls' = [calls EXCEPT ![p] = c]
    <3>1. /\ c.at = "rights" /\ c.op = o /\ c.known = records[o].decisions
          /\ c.fresh = {} /\ c.shares = {}
      BY DEF Rest
    <3> HIDE DEF c
    <3>2. records'[o] = records[o] /\ records'[o] # Absent
      BY <1>4, <2>1 DEF Resume, ReadJournal, Started, Known
    <3>3. Single(records[o].decisions)
      BY <3>2 DEF RecordsStaySound, Sound
    <3>4. Single(c.known \cup c.fresh) /\ Backed(records'[o], c.known)
      BY <3>1, <3>2, <3>3 DEF Single, Backed
    <3>5. GoodNext(c)
      BY <3>1, <3>4 DEF GoodNext, CallSound
    <3> QED BY <2>1, <3>5 DEF MovesSound, c
  <2> QED BY <1>4, <2>1 DEF Resume, TellTerminal
<1>5. ASSUME NEW p \in Callers, Reconcile(p)
      PROVE  MovesSound(p)
  <2> DEFINE c == [calls[p] EXCEPT !.at = "settle"]
  <2>1. CASE calls' = [calls EXCEPT ![p] = c]
    <3>1. /\ calls[p].at = "reconcile" /\ calls[p] \in Call
          /\ CallSound(records'[Op(p)], custody'[Op(p)], denials'[Op(p)], calls[p])
      BY <1>5, SoundStays DEF Reconcile, TypeOK, Steps
    <3>2. c.at = "settle" /\ c.op = Op(p) /\ c.offer = calls[p].offer
      BY <3>1 DEF Call, Op
    <3> HIDE DEF c
    <3>3. GoodNext(c)
      BY <3>1, <3>2 DEF GoodNext, CallSound
    <3> QED BY <2>1, <3>3 DEF MovesSound, c
  <2> QED BY <1>5, <2>1 DEF Reconcile, TellTerminal
<1>6. ASSUME NEW p \in Callers,
             \/ Settle(p) \/ SharesOver(p) \/ JournalUnavailable(p) \/ GiveUp(p)
             \/ \E o \in Operations : CallUnavailable(p, o)
      PROVE  MovesSound(p)
  BY <1>6 DEF Settle, TellTerminal, SharesOver, JournalUnavailable, GiveUp, CallUnavailable
<1>7. ASSUME Scan \/ \E o \in Operations : Expire(o)
      PROVE  UNCHANGED calls
  BY <1>7 DEF Scan, Expire
<1> HIDE DEF Answers
<1> QED BY <1>1, <1>2, <1>3, <1>4, <1>5, <1>6, <1>7, RightsSound, CustodySound, MergeSound
        DEF Next

LEMMA CallsSoundStep ==
    ASSUME TypeOK, CallsOnRecord, RecordsGrow, GhostsGrow, RecordsStaySound, CallsSound, [Next]_vars
    PROVE  CallsSound'
<1>1. CASE Crash
  <2>1. \A p \in Callers : calls'[p].at = "none"
    BY <1>1 DEF Crash, Rest
  <2> QED BY <2>1 DEF CallsSound, Steps
<1>2. CASE UNCHANGED calls
  BY <1>2, SoundStays DEF CallsSound, Op
<1> QED BY <1>1, <1>2, CallsMove, OneCallSound DEF vars

-----------------------------------------------------------------------------
(* The quorum *)

LEMMA QuorumStep ==
    ASSUME IInv, IInv', RecordsGrow, CallsSound, SharesNeedQuorum, [Next]_vars
    PROVE  SharesNeedQuorum'
<1> SUFFICES ASSUME NEW o \in Operations, custody'[o] # {}, ~Settled(o)'
             PROVE  /\ custody'[o] \subseteq records'[o].decisions
                    /\ Cardinality(Deciders(records'[o].decisions)) >= Threshold
  BY DEF SharesNeedQuorum
<1>1. /\ Known(o)' /\ records'[o] \in Record /\ records'[o].decisions \subseteq Allowed
      /\ records'[o].terminal = Open
  <2>1. Started(o)'
    BY DEF IInv, EffectsRecorded
  <2>2. records'[o] \in Record
    BY <2>1 DEF IInv, TypeOK, JournalTypeOK, Started, Known
  <2> QED BY <2>1, <2>2 DEF Started, Settled, Record
<1>2. ASSUME Known(o) PROVE ~Settled(o) /\ records[o].decisions \subseteq records'[o].decisions
  BY <1>1, <1>2 DEF RecordsGrow, Settled
<1>3. ASSUME custody[o] # {}
      PROVE  /\ custody[o] \subseteq records'[o].decisions
             /\ Cardinality(Deciders(records'[o].decisions)) >= Threshold
  <2>1. Known(o)
    BY <1>3 DEF IInv, EffectsRecorded, Started
  <2>2. /\ custody[o] \subseteq records[o].decisions
        /\ Cardinality(Deciders(records[o].decisions)) >= Threshold
    BY <1>2, <1>3, <2>1 DEF SharesNeedQuorum
  <2>3. records[o].decisions \subseteq records'[o].decisions
    BY <1>2, <2>1
  <2>4. records[o].decisions \subseteq Allowed
    BY <1>1, <2>3
  <2>5. /\ Cardinality(Deciders(records[o].decisions)) \in Nat
        /\ Cardinality(Deciders(records'[o].decisions)) \in Nat
    BY <1>1, <2>4, DecidersFinite
  <2>6. Cardinality(Deciders(records[o].decisions)) <= Cardinality(Deciders(records'[o].decisions))
    BY <1>1, <2>3, DecidersGrow
  <2> QED BY <2>2, <2>3, <2>5, <2>6, CountsAssumption
<1>4. CASE custody'[o] = custody[o]
  BY <1>3, <1>4
<1>5. ASSUME NEW p \in Callers, NEW d \in Allowed, AskCustody(p, d), Op(p) = o
      PROVE  /\ custody'[o] \subseteq records'[o].decisions
             /\ Cardinality(Deciders(records'[o].decisions)) >= Threshold
  <2>1. /\ calls[p].at = "custody" /\ calls[p] \in Call /\ records' = records
        /\ CallSound(records[o], custody[o], denials[o], calls[p])
        /\ custody' = [custody EXCEPT ![o] = @ \cup {d}] /\ d \in calls[p].known
    BY <1>5 DEF AskCustody, IInv, TypeOK, CallsSound, Steps, ShareToAsk, journalVars
  <2> DEFINE K == calls[p].known
             R == records'[o].decisions
  <2>2. K \subseteq R /\ K \subseteq Allowed /\ Single(K)
    BY <1>1, <2>1, SingleSubset DEF CallSound, Backed, Call
  <2>3. Cardinality(Deciders(K)) >= Threshold
    BY <2>1, <2>2, SingleCounts DEF CallSound
  <2>4. Cardinality(Deciders(R)) >= Threshold
    <3>1. Cardinality(Deciders(K)) <= Cardinality(Deciders(R))
      BY <1>1, <2>2, DecidersGrow
    <3>2. Cardinality(Deciders(K)) \in Nat /\ Cardinality(Deciders(R)) \in Nat
      BY <1>1, <2>2, DecidersFinite
    <3> QED BY <2>3, <3>1, <3>2, CountsAssumption
  <2>5. custody'[o] = custody[o] \cup {d}
    BY <2>1 DEF IInv, TypeOK
  <2>6. custody'[o] \subseteq R
    BY <1>3, <2>1, <2>2, <2>5
  <2> QED BY <2>4, <2>6
<1>6. \/ custody'[o] = custody[o]
      \/ \E p \in Callers, d \in Allowed : AskCustody(p, d) /\ Op(p) = o
  <2>1. ASSUME NEW p \in Callers, NEW d \in Allowed, AskCustody(p, d), Op(p) # o
        PROVE  custody'[o] = custody[o]
    BY <2>1 DEF AskCustody, IInv, TypeOK
  <2>2. ASSUME NEW p \in Callers, NEW n \in Providers, AskRights(p, n)
        PROVE  custody' = custody
    BY <2>2 DEF AskRights
  <2>3. ASSUME NEW p \in Callers, MarkStarted(p) PROVE custody' = custody
    BY <2>3 DEF MarkStarted, Dispatch
  <2> QED BY <2>1, <2>2, <2>3, StepKinds, QuietFacts, OutsideFacts
<1> QED BY <1>4, <1>5, <1>6

-----------------------------------------------------------------------------
(* The dispatches *)

\* The calls that have found o unstarted and are about to dispatch it: once o
\* is started there are no more of them.
Marking(o) == {p \in Callers : calls[p].at = "mark" /\ Op(p) = o}
DispatchInv ==
    \A o \in Operations :
        Started(o) => initial[o] + Cardinality(Marking(o)) <= Cardinality(Callers)

NoNewMark == \A p \in Callers :
    calls'[p].at = "mark" => calls'[p] = calls[p] \/ ~Started(calls'[p].op)

LEMMA MarksStep ==
    ASSUME QInv, [Next]_vars
    PROVE  NoNewMark
<1>0. TypeOK /\ CallsOnRecord /\ RecordsGrow /\ GhostsGrow /\ RecordsStaySound /\ CallsSound
  BY JournalStep, JournalStepSound, GhostsStep DEF QInv, IInv
<1>1. CASE Crash
  BY <1>1 DEF Crash, Rest, NoNewMark
<1>2. CASE UNCHANGED calls
  BY <1>2 DEF NoNewMark
<1>3. ASSUME NEW p \in Callers, MovesSound(p)
      PROVE  NoNewMark
  <2>1. PICK c : GoodNext(c) /\ calls' = [calls EXCEPT ![p] = c]
    BY <1>3 DEF MovesSound
  <2> QED BY <1>0, <2>1 DEF NoNewMark, GoodNext, TypeOK
<1> QED BY <1>0, <1>1, <1>2, <1>3, CallsMove DEF vars

\* A dispatch takes one of them away.
LEMMA InitialStep ==
    ASSUME TypeOK, CallsOnRecord, [Next]_vars, NEW o \in Operations
    PROVE  \/ initial'[o] = initial[o]
           \/ \E p \in Marking(o) :
                 initial'[o] = initial[o] + 1 /\ Marking(o)' \subseteq Callers \ {p}
<1>1. ASSUME NEW p \in Callers, MarkStarted(p)
      PROVE  \/ initial'[o] = initial[o]
             \/ /\ p \in Marking(o)
                /\ initial'[o] = initial[o] + 1 /\ Marking(o)' \subseteq Callers \ {p}
  <2>1. /\ calls[p].at = "mark" /\ initial' = [initial EXCEPT ![Op(p)] = @ + 1]
        /\ calls' = [calls EXCEPT ![p].at = "rights"]
    BY <1>1 DEF MarkStarted, Dispatch
  <2>2. calls'[p].at = "rights"
    BY <2>1 DEF TypeOK, Call
  <2>3. Marking(o)' \subseteq Callers \ {p}
    BY <2>2 DEF Marking
  <2>4. CASE Op(p) = o
    BY <2>1, <2>3, <2>4 DEF Marking, TypeOK
  <2>5. CASE Op(p) # o
    BY <2>1, <2>5 DEF TypeOK
  <2> QED BY <2>4, <2>5
<1>2. ASSUME NEW p \in Callers,
             \/ \E n \in Providers : AskRights(p, n)
             \/ \E d \in Allowed : AskCustody(p, d)
      PROVE  initial' = initial
  BY <1>2 DEF AskRights, AskCustody
<1> QED BY <1>1, <1>2, StepKinds, QuietFacts, OutsideFacts

LEMMA DispatchStep ==
    ASSUME IsFiniteSet(Callers), QInv, DispatchInv, [Next]_vars
    PROVE  DispatchInv'
<1> SUFFICES ASSUME NEW o \in Operations, Started(o)'
             PROVE  initial'[o] + Cardinality(Marking(o)') <= Cardinality(Callers)
  BY DEF DispatchInv
<1>0. TypeOK /\ CallsOnRecord /\ initial[o] \in Nat /\ NoNewMark
  BY MarksStep DEF QInv, IInv, TypeOK
<1>1. /\ Marking(o) \subseteq Callers /\ Marking(o)' \subseteq Callers
      /\ IsFiniteSet(Marking(o)) /\ IsFiniteSet(Marking(o)')
  <2>1. Marking(o) \in SUBSET Callers /\ Marking(o)' \in SUBSET Callers
    BY DEF Marking
  <2> QED BY <2>1, FS_Subset
<1>2. /\ Cardinality(Callers) \in Nat /\ Cardinality(Marking(o)) \in Nat
      /\ Cardinality(Marking(o)') \in Nat
  BY <1>1, FS_CardinalityType
<1>3. ASSUME NEW p \in Callers PROVE Cardinality(Callers \ {p}) = Cardinality(Callers) - 1
  BY <1>3, FS_RemoveElement
<1>4. CASE ~Started(o)
  <2>1. initial[o] = 0
    BY <1>0, <1>4 DEF QInv, IInv, EffectsRecorded
  <2>2. CASE initial'[o] = initial[o]
    <3>1. Cardinality(Marking(o)') <= Cardinality(Callers)
      BY <1>1, FS_Subset
    <3> QED BY <1>2, <2>1, <2>2, <3>1
  <2>3. ASSUME NEW p \in Marking(o), initial'[o] = initial[o] + 1,
               Marking(o)' \subseteq Callers \ {p}
        PROVE  initial'[o] + Cardinality(Marking(o)') <= Cardinality(Callers)
    <3>1. IsFiniteSet(Callers \ {p}) /\ p \in Callers
      BY <1>1, FS_RemoveElement
    <3>2. Cardinality(Marking(o)') <= Cardinality(Callers \ {p})
      BY <2>3, <3>1, FS_Subset
    <3> QED BY <1>2, <1>3, <2>1, <2>3, <3>1, <3>2
  <2> QED BY <1>0, <2>2, <2>3, InitialStep
<1>5. CASE Started(o)
  <2>1. initial[o] + Cardinality(Marking(o)) <= Cardinality(Callers)
    BY <1>5 DEF DispatchInv
  <2>2. Marking(o)' \subseteq Marking(o)
    BY <1>0, <1>5 DEF Marking, NoNewMark, Op
  <2>3. CASE initial'[o] = initial[o]
    <3>1. Cardinality(Marking(o)') <= Cardinality(Marking(o))
      BY <1>1, <2>2, FS_Subset
    <3> QED BY <1>0, <1>2, <2>1, <2>3, <3>1
  <2>4. ASSUME NEW p \in Marking(o), initial'[o] = initial[o] + 1,
               Marking(o)' \subseteq Callers \ {p}
        PROVE  initial'[o] + Cardinality(Marking(o)') <= Cardinality(Callers)
    <3>1. /\ IsFiniteSet(Marking(o) \ {p})
          /\ Cardinality(Marking(o) \ {p}) = Cardinality(Marking(o)) - 1
      BY <1>1, FS_RemoveElement
    <3>2. Marking(o)' \in SUBSET (Marking(o) \ {p})
      BY <2>2, <2>4
    <3>3. Cardinality(Marking(o)') <= Cardinality(Marking(o) \ {p})
      BY <3>1, <3>2, FS_Subset
    <3> QED BY <1>0, <1>2, <2>1, <2>4, <3>1, <3>3
  <2> QED BY <1>0, <2>3, <2>4, InitialStep
<1> QED BY <1>4, <1>5

-----------------------------------------------------------------------------
(* The theorems *)

LEMMA QuorumInductive == Spec => []QInv
<1>1. Init => QInv
  <2> SUFFICES ASSUME Init PROVE QInv OBVIOUS
  <2>1. \A p \in Callers : calls[p].at \notin Steps
    BY DEF Init, Rest, Steps
  <2>2. RecordsSound /\ SharesNeedQuorum
    BY DEF Init, JournalInit, RecordsSound, Known, SharesNeedQuorum
  <2> QED BY <2>1, <2>2, Initially DEF QInv, CallsSound
<1>2. QInv /\ [Next]_vars => QInv'
  <2> SUFFICES ASSUME QInv, [Next]_vars PROVE QInv' OBVIOUS
  <2>1. /\ IInv /\ TypeOK /\ CallsOnRecord /\ OffersMade
        /\ RecordsSound /\ CallsSound /\ SharesNeedQuorum
    BY DEF QInv, IInv
  <2>2. IInv' /\ RecordsGrow /\ GhostsGrow /\ RecordsStaySound
    BY <2>1, Stepwise, JournalStep, GhostsStep, JournalStepSound
  <2>3. CallsSound'
    BY <2>1, <2>2, CallsSoundStep
  <2>4. RecordsSound'
    <3> SUFFICES ASSUME NEW o \in Operations, Known(o)'
                 PROVE  Sound(custody'[o], denials'[o], records'[o])
      BY DEF RecordsSound
    <3>1. Sound(custody[o], denials[o], records'[o])
      BY <2>2 DEF RecordsStaySound, Known
    <3>2. custody[o] \subseteq custody'[o] /\ denials[o] \subseteq denials'[o]
      BY <2>2 DEF GhostsGrow
    <3> QED BY <3>1, <3>2, GroundedGrows DEF Sound
  <2>5. SharesNeedQuorum'
    BY <2>1, <2>2, QuorumStep
  <2> QED BY <2>2, <2>3, <2>4, <2>5 DEF QInv
<1> QED BY <1>1, <1>2, PTL DEF Spec

\* persist_replayable_rights_decisions before collect_contributions: a node is
\* asked for its share only behind a recorded quorum, and only against the
\* decision on record for it, whichever calls overlap, resume or crash.
THEOREM SharesAlwaysNeedQuorum == Spec => []SharesNeedQuorum
<1>1. QInv => SharesNeedQuorum
  BY DEF QInv
<1> QED BY <1>1, QuorumInductive, PTL

\* mark_terminal and reconcile: no result is ever on record that no provider's
\* denial, or no threshold of different nodes' requested shares, stands behind.
THEOREM OutcomesAlwaysGrounded == Spec => []OutcomeGrounded
<1>1. QInv => OutcomeGrounded
  BY DEF QInv, RecordsSound, Sound, Grounded, OutcomeGrounded, Settled
<1> QED BY <1>1, QuorumInductive, PTL

\* release and mark_provider_effect_started: however often an operation is
\* replayed, resumed or cut short, it is dispatched at most once for each call
\* that can be under way at a time.
THEOREM DispatchesBounded ==
    ASSUME IsFiniteSet(Callers)
    PROVE  Spec => []DispatchBound
<1>1. Init => DispatchInv
  BY DEF Init, JournalInit, DispatchInv, Started, Known
<1>2. QInv /\ DispatchInv /\ [Next]_vars => DispatchInv'
  BY DispatchStep
<1>3. QInv /\ DispatchInv => DispatchBound
  <2> SUFFICES ASSUME QInv, DispatchInv, NEW o \in Operations
               PROVE  initial[o] <= Cardinality(Callers)
    BY DEF DispatchBound
  <2>1. Marking(o) \in SUBSET Callers
    BY DEF Marking
  <2>2. Cardinality(Callers) \in Nat /\ Cardinality(Marking(o)) \in Nat
    BY <2>1, FS_Subset, FS_CardinalityType
  <2>3. initial[o] \in Nat /\ (initial[o] > 0 => Started(o))
    BY DEF QInv, IInv, TypeOK, EffectsRecorded
  <2> QED BY <2>2, <2>3 DEF DispatchInv
<1> QED BY <1>1, <1>2, <1>3, QuorumInductive, PTL DEF Spec

-----------------------------------------------------------------------------
(* The refinement of ReleasePromise *)

\* What the promise sees of the journal.
Begun == {o \in Operations : Started(o)}
Decided == [o \in Operations |-> IF Known(o) THEN records[o].decisions ELSE {}]
Outcome == [o \in Operations |-> IF Known(o) THEN records[o].terminal ELSE Open]
View == <<Begun, Decided, Outcome>>
Kept == [Promise!PromiseNext]_(Promise!promiseVars)

LEMMA ViewWritten ==
    ASSUME JournalTypeOK, NEW o \in Operations, NEW r \in Record,
           records' = [records EXCEPT ![o] = r]
    PROVE  /\ Begun' = IF r.started THEN Begun \cup {o} ELSE Begun \ {o}
           /\ Decided' = [Decided EXCEPT ![o] = r.decisions]
           /\ Outcome' = [Outcome EXCEPT ![o] = r.terminal]
<1>1. \A q \in Operations : records'[q] = IF q = o THEN r ELSE records[q]
  BY DEF JournalTypeOK
<1>2. \A q \in Operations : /\ Known(q)' <=> q = o \/ Known(q)
                            /\ Started(q)' <=> IF q = o THEN r.started ELSE Started(q)
  BY <1>1, AbsencesAssumption DEF Known, Started
<1>3. Begun' = IF r.started THEN Begun \cup {o} ELSE Begun \ {o}
  BY <1>2 DEF Begun
<1>4. Decided' = [q \in Operations |-> IF q = o THEN r.decisions ELSE Decided[q]]
  BY <1>1, <1>2 DEF Decided
<1>5. Outcome' = [q \in Operations |-> IF q = o THEN r.terminal ELSE Outcome[q]]
  BY <1>1, <1>2 DEF Outcome
<1>6. /\ Decided = [q \in Operations |-> Decided[q]]
      /\ Outcome = [q \in Operations |-> Outcome[q]]
  BY DEF Decided, Outcome
<1>7. [Decided EXCEPT ![o] = r.decisions]
        = [q \in Operations |-> IF q = o THEN r.decisions ELSE Decided[q]]
  BY <1>6
<1>8. [Outcome EXCEPT ![o] = r.terminal]
        = [q \in Operations |-> IF q = o THEN r.terminal ELSE Outcome[q]]
  BY <1>6
<1> QED BY <1>3, <1>4, <1>5, <1>7, <1>8

LEMMA ViewOf ==
    ASSUME NEW o \in Operations
    PROVE  /\ o \in Begun <=> Started(o)
           /\ Known(o) => Decided[o] = records[o].decisions /\ Outcome[o] = records[o].terminal
           /\ ~Known(o) => Decided[o] = {} /\ Outcome[o] = Open
BY DEF Begun, Decided, Outcome

\* A step that changes nothing the promise speaks of.
LEMMA KeptStill ==
    ASSUME UNCHANGED View, UNCHANGED <<custody, denials, told>>
    PROVE  Kept
BY DEF View, Begun, Decided, Outcome, Kept, Promise!promiseVars

LEMMA ViewKept == ASSUME UNCHANGED records PROVE UNCHANGED View
BY DEF View, Begun, Decided, Outcome, Known, Started

\* The record of a new operation says nothing yet.
LEMMA KeptNew ==
    ASSUME JournalTypeOK, NEW o \in Operations, ~Known(o),
           WriteRecord(o, NewRecord) \/ CutShort(o, NewRecord),
           UNCHANGED <<custody, denials, told>>
    PROVE  Kept
<1>1. CASE UNCHANGED records
  BY <1>1, ViewKept, KeptStill
<1>2. CASE records' = [records EXCEPT ![o] = NewRecord]
  <2>1. /\ NewRecord \in Record /\ ~NewRecord.started
        /\ NewRecord.decisions = {} /\ NewRecord.terminal = Open
    BY DEF NewRecord, Record
  <2>2. o \notin Begun /\ Decided[o] = {} /\ Outcome[o] = Open
    BY ViewOf DEF Started
  <2>3. /\ Begun' = Begun \ {o}
        /\ Decided' = [Decided EXCEPT ![o] = {}] /\ Outcome' = [Outcome EXCEPT ![o] = Open]
    BY <1>2, <2>1, ViewWritten
  <2>4. /\ [Decided EXCEPT ![o] = Decided[o]] = Decided
        /\ [Outcome EXCEPT ![o] = Outcome[o]] = Outcome
    BY DEF Decided, Outcome
  <2>5. UNCHANGED View
    BY <2>2, <2>3, <2>4 DEF View
  <2> QED BY <2>5, KeptStill
<1> QED BY <1>1, <1>2 DEF WriteRecord, CutShort

\* mark_provider_effect_started.
LEMMA KeptStart ==
    ASSUME JournalTypeOK, NEW o \in Operations, Known(o),
           WriteRecord(o, StartedRecord(o)) \/ CutShort(o, StartedRecord(o)),
           UNCHANGED <<custody, denials, told>>
    PROVE  Kept
<1>1. CASE UNCHANGED records
  BY <1>1, ViewKept, KeptStill
<1>2. CASE records' = [records EXCEPT ![o] = StartedRecord(o)]
  <2>1. records[o] \in Record
    BY DEF JournalTypeOK, Known
  <2>2. /\ StartedRecord(o) \in Record /\ StartedRecord(o).started
        /\ StartedRecord(o).decisions = records[o].decisions
        /\ StartedRecord(o).terminal = records[o].terminal
    BY <2>1 DEF StartedRecord, Record
  <2>r. PICK r \in Record : r = StartedRecord(o)
    BY <2>2
  <2>v. /\ Begun' = Begun \cup {o}
        /\ Decided' = [Decided EXCEPT ![o] = r.decisions]
        /\ Outcome' = [Outcome EXCEPT ![o] = r.terminal]
    BY <1>2, <2>2, <2>r, ViewWritten
  <2>3. /\ Begun' = Begun \cup {o}
        /\ Decided' = [Decided EXCEPT ![o] = Decided[o]]
        /\ Outcome' = [Outcome EXCEPT ![o] = Outcome[o]]
    BY <2>2, <2>r, <2>v, ViewOf
  <2>4. /\ [Decided EXCEPT ![o] = Decided[o]] = Decided
        /\ [Outcome EXCEPT ![o] = Outcome[o]] = Outcome
    BY DEF Decided, Outcome
  <2>5. Begun' = Begun \cup {o} /\ Decided' = Decided /\ Outcome' = Outcome
    BY <2>3, <2>4
  <2>6. Promise!Begin(o)
    BY <2>5 DEF Promise!Begin, Begun, Decided, Outcome
  <2> QED BY <2>6 DEF Kept, Promise!PromiseNext
<1> QED BY <1>1, <1>2 DEF WriteRecord, CutShort

\* persist_replayable_rights_decisions.
LEMMA KeptMerge ==
    ASSUME JournalTypeOK, NEW o \in Operations, Started(o), ~Settled(o), NEW D \in SUBSET Allowed,
           Single(MergedRecord(o, D).decisions),
           WriteRecord(o, MergedRecord(o, D)) \/ CutShort(o, MergedRecord(o, D)),
           UNCHANGED <<custody, denials, told>>
    PROVE  Kept
<1>1. CASE UNCHANGED records
  BY <1>1, ViewKept, KeptStill
<1>2. CASE records' = [records EXCEPT ![o] = MergedRecord(o, D)]
  <2>1. records[o] \in Record
    BY DEF JournalTypeOK, Known, Started
  <2>2. /\ MergedRecord(o, D) \in Record
        /\ MergedRecord(o, D).started = records[o].started
        /\ MergedRecord(o, D).decisions = records[o].decisions \cup D
        /\ MergedRecord(o, D).terminal = records[o].terminal
    BY <2>1 DEF MergedRecord, Record
  <2>3. /\ o \in Begun /\ Outcome[o] = Open /\ Known(o) /\ records[o].started
        /\ Decided[o] = records[o].decisions
    BY ViewOf DEF Started, Settled
  <2>r. PICK r \in Record : r = MergedRecord(o, D)
    BY <2>2
  <2>v. /\ Begun' = Begun \cup {o}
        /\ Decided' = [Decided EXCEPT ![o] = r.decisions]
        /\ Outcome' = [Outcome EXCEPT ![o] = r.terminal]
    BY <1>2, <2>2, <2>3, <2>r, ViewWritten
  <2>4. /\ Begun' = Begun \cup {o}
        /\ Decided' = [Decided EXCEPT ![o] = Decided[o] \cup D]
        /\ Outcome' = [Outcome EXCEPT ![o] = Outcome[o]]
    BY <2>2, <2>3, <2>r, <2>v, ViewOf
  <2>5. [Outcome EXCEPT ![o] = Outcome[o]] = Outcome
    BY DEF Outcome
  <2>6. Begun' = Begun /\ Decided' = [Decided EXCEPT ![o] = @ \cup D] /\ Outcome' = Outcome
    BY <2>3, <2>4, <2>5
  <2>7. \A d, e \in Decided'[o] : d[1] = e[1] => d = e
    <3>1. o \in DOMAIN Decided
      BY DEF Decided
    <3>2. Decided'[o] = records[o].decisions \cup D
      BY <2>3, <2>6, <3>1
    <3> QED BY <2>2, <3>2 DEF Single
  <2>8. Promise!Decide(o, D)
    BY <2>3, <2>6, <2>7 DEF Promise!Decide, Begun, Decided, Outcome
  <2> QED BY <2>8 DEF Kept, Promise!PromiseNext
<1> QED BY <1>1, <1>2 DEF WriteRecord, CutShort

\* The promise counts nodes as the code does.
LEMMA SameCount ==
    ASSUME NEW D
    PROVE  Promise!Cardinality(Promise!Nodes(D)) = Cardinality(Deciders(D))
BY DEF Promise!Cardinality, Promise!IsFiniteSet, Cardinality, IsFiniteSet, Promise!Nodes, Deciders

\* mark_terminal, told at once or not.
LEMMA KeptSettle ==
    ASSUME JournalTypeOK, NEW o \in Operations, Started(o), ~Settled(o),
           NEW t \in Terminal, Grounded(custody[o], denials[o], t), TypeOK,
           records' = [records EXCEPT ![o] = SettledRecord(t)],
           told' = [told EXCEPT ![o] = @ \cup {t}] \/ UNCHANGED told,
           UNCHANGED <<custody, denials>>
    PROVE  Kept
<1>1. /\ SettledRecord(t) \in Record /\ SettledRecord(t).started
      /\ SettledRecord(t).decisions = {} /\ SettledRecord(t).terminal = t
  BY DEF SettledRecord, Record
<1>2. o \in Begun /\ Outcome[o] = Open
  BY ViewOf DEF Started, Settled
<1>3. /\ Begun' = Begun \cup {o}
      /\ Decided' = [Decided EXCEPT ![o] = {}] /\ Outcome' = [Outcome EXCEPT ![o] = t]
  <2>1. PICK r \in Record : r = SettledRecord(t)
    BY <1>1
  <2>2. /\ Begun' = IF r.started THEN Begun \cup {o} ELSE Begun \ {o}
        /\ Decided' = [Decided EXCEPT ![o] = r.decisions]
        /\ Outcome' = [Outcome EXCEPT ![o] = r.terminal]
    BY <2>1, ViewWritten
  <2> QED BY <1>1, <2>1, <2>2
<1>4. Begun' = Begun
  BY <1>2, <1>3
<1>5. t \in Promise!Results(o)
  <2>1. CASE t.kind = "denied"
    BY <2>1 DEF Grounded, Terminal, Promise!Results
  <2>2. CASE t.kind # "denied"
    <3>1. t = [kind |-> "ready", shares |-> t.shares]
      BY <2>2 DEF Terminal
    <3>2. /\ t.shares \in SUBSET custody[o]
          /\ Promise!Cardinality(Promise!Nodes(t.shares)) = Threshold
      BY <2>2, SameCount DEF Grounded
    <3>3. t.shares \in {E \in SUBSET custody[o] :
                          Promise!Cardinality(Promise!Nodes(E)) = Threshold}
      BY <3>2
    <3> QED BY <3>1, <3>3, Zenon DEF Promise!Results
  <2> QED BY <2>1, <2>2
<1>6. Promise!Settle(o, t)
  BY <1>2, <1>3, <1>4 DEF Promise!Settle, Begun, Decided, Outcome
<1> QED BY <1>5, <1>6 DEF Kept, Promise!PromiseNext

\* The result on record is told.
LEMMA KeptTell ==
    ASSUME NEW o \in Operations, Settled(o), UNCHANGED records,
           told' = [told EXCEPT ![o] = @ \cup {records[o].terminal}],
           UNCHANGED <<custody, denials>>
    PROVE  Kept
<1>1. Outcome[o] = records[o].terminal /\ Outcome[o] # Open
  BY ViewOf DEF Settled
<1>2. UNCHANGED View
  BY ViewKept
<1>3. Promise!Tell(o)
  BY <1>1, <1>2 DEF Promise!Tell, View, Begun, Decided, Outcome
<1> QED BY <1>3 DEF Kept, Promise!PromiseNext

\* An awaited evaluate_rights call.
LEMMA KeptRights ==
    ASSUME QInv, NEW p \in Callers, NEW n \in Providers, AskRights(p, n)
    PROVE  Kept
<1>1. UNCHANGED <<records, custody, told>>
  BY DEF AskRights, journalVars
<1>2. UNCHANGED View
  BY <1>1, ViewKept
<1>3. CASE UNCHANGED denials
  BY <1>1, <1>2, <1>3, KeptStill
<1>4. CASE denials' = [denials EXCEPT ![Op(p)] = @ \cup {n}]
  <2>1. Op(p) \in Operations /\ Started(Op(p))
    BY DEF QInv, IInv, CallsOnRecord, AskRights, Steps, Dispatched
  <2>2. Op(p) \in Begun
    BY <2>1, ViewOf
  <2>3. Promise!Deny(Op(p), n)
    BY <1>1, <1>2, <1>4, <2>2 DEF Promise!Deny, View, Begun, Decided, Outcome
  <2> QED BY <2>1, <2>3 DEF Kept, Promise!PromiseNext
<1> QED BY <1>3, <1>4 DEF AskRights

\* An awaited release_contribution call: until there is a result, the decisions
\* that the call goes by are on record, and they are a quorum.
LEMMA KeptCustody ==
    ASSUME QInv, NEW p \in Callers, NEW d \in Allowed, AskCustody(p, d)
    PROVE  Kept
<1>1. /\ UNCHANGED <<records, denials, told>>
      /\ custody' = [custody EXCEPT ![Op(p)] = @ \cup {d}]
      /\ calls[p].at = "custody" /\ d \in calls[p].known
  BY DEF AskCustody, journalVars, ShareToAsk
<1>2. UNCHANGED View
  BY <1>1, ViewKept
<1>3. /\ Op(p) \in Operations /\ Started(Op(p)) /\ Known(Op(p))
      /\ CallSound(records[Op(p)], custody[Op(p)], denials[Op(p)], calls[p])
      /\ records[Op(p)] \in Record /\ calls[p] \in Call
  BY <1>1 DEF QInv, IInv, TypeOK, JournalTypeOK, CallsOnRecord, CallsSound, Steps, Dispatched, Known
<1>4. Op(p) \in Begun
  BY <1>3, ViewOf
<1>5. ASSUME Outcome[Op(p)] = Open
      PROVE  /\ d \in Decided[Op(p)]
             /\ Promise!Cardinality(Promise!Nodes(Decided[Op(p)])) >= Threshold
  <2> DEFINE K == calls[p].known
             R == records[Op(p)].decisions
  <2>1. Decided[Op(p)] = R /\ records[Op(p)].terminal = Open
    BY <1>3, <1>5, ViewOf
  <2>2. K \subseteq R /\ Single(K) /\ Cardinality(K) >= Threshold
    BY <1>1, <1>3, <2>1, SingleSubset DEF CallSound, Backed
  <2>3. K \subseteq Allowed /\ R \subseteq Allowed
    BY <1>3 DEF Call, Record
  <2> HIDE DEF K, R
  <2>4. Cardinality(Deciders(K)) = Cardinality(K) /\ Cardinality(K) \in Nat
    BY <2>2, <2>3, SingleCounts
  <2>5. Cardinality(Deciders(K)) <= Cardinality(Deciders(R)) /\ Cardinality(Deciders(R)) \in Nat
    BY <2>2, <2>3, DecidersGrow, DecidersFinite
  <2>6. Promise!Cardinality(Promise!Nodes(R)) = Cardinality(Deciders(R))
    BY SameCount
  <2>7. Threshold \in Nat
    BY CountsAssumption
  <2> QED BY <1>1, <2>1, <2>2, <2>4, <2>5, <2>6, <2>7 DEF K
<1>6. Promise!Ask(Op(p), d)
  <2>1. Begun' = Begun /\ Decided' = Decided /\ Outcome' = Outcome
    BY <1>2 DEF View
  <2> QED BY <1>1, <1>4, <1>5, <2>1, Zenon DEF Promise!Ask, Begun, Decided, Outcome
<1> QED BY <1>3, <1>6 DEF Kept, Promise!PromiseNext

\* What is written, whole or cut short, is one of the above.
LEMMA KeptByWrites ==
    ASSUME QInv, NEW p \in Callers, UNCHANGED <<custody, denials>>
    PROVE  LET o == Op(p)
           IN  /\ /\ MustMark(p) /\ UNCHANGED told
                  /\ WriteRecord(o, StartedRecord(o)) \/ CutShort(o, StartedRecord(o))
                  => Kept
               /\ /\ MustMerge(p) /\ UNCHANGED told
                  /\ \/ WriteRecord(o, MergedRecord(o, calls[p].fresh))
                     \/ CutShort(o, MergedRecord(o, calls[p].fresh))
                  => Kept
               /\ /\ MustSettle(p)
                  /\ told' = [told EXCEPT ![o] = @ \cup {calls[p].offer}] \/ UNCHANGED told
                  /\ records' = [records EXCEPT ![o] = SettledRecord(calls[p].offer)]
                  => Kept
<1> DEFINE o == Op(p)
<1>0. TypeOK /\ JournalTypeOK /\ CallsOnRecord /\ OffersMade /\ RecordsSound /\ CallsSound
  BY DEF QInv, IInv, TypeOK
<1>1. ASSUME MustMark(p), UNCHANGED told,
             WriteRecord(o, StartedRecord(o)) \/ CutShort(o, StartedRecord(o))
      PROVE  Kept
  <2>1. o \in Operations /\ Known(o)
    BY <1>0, <1>1 DEF MustMark, CallsOnRecord, Steps
  <2>2. PICK q \in Operations : q = o
    BY <2>1
  <2> HIDE DEF o
  <2>3. /\ Known(q) /\ UNCHANGED <<custody, denials, told>>
        /\ WriteRecord(q, StartedRecord(q)) \/ CutShort(q, StartedRecord(q))
    BY <1>1, <2>1, <2>2
  <2> QED BY <1>0, <2>3, KeptStart
<1>2. ASSUME MustMerge(p), UNCHANGED told,
             \/ WriteRecord(o, MergedRecord(o, calls[p].fresh))
             \/ CutShort(o, MergedRecord(o, calls[p].fresh))
      PROVE  Kept
  <2>1. /\ o \in Operations /\ Started(o) /\ ~Settled(o) /\ calls[p].fresh \in SUBSET Allowed
        /\ Single(MergedRecord(o, calls[p].fresh).decisions)
    BY <1>0, <1>2, WritesSound
       DEF MustMerge, RightsOver, CallsOnRecord, Steps, Dispatched, TypeOK, Call, Sound
  <2>2. PICK q \in Operations, D \in SUBSET Allowed : q = o /\ D = calls[p].fresh
    BY <2>1
  <2> HIDE DEF o
  <2>3. /\ Started(q) /\ ~Settled(q) /\ Single(MergedRecord(q, D).decisions)
        /\ WriteRecord(q, MergedRecord(q, D)) \/ CutShort(q, MergedRecord(q, D))
        /\ UNCHANGED <<custody, denials, told>>
    BY <1>2, <2>1, <2>2
  <2> QED BY <1>0, <2>3, KeptMerge
<1>3. ASSUME MustSettle(p),
             told' = [told EXCEPT ![o] = @ \cup {calls[p].offer}] \/ UNCHANGED told,
             records' = [records EXCEPT ![o] = SettledRecord(calls[p].offer)]
      PROVE  Kept
  <2>1. /\ o \in Operations /\ Started(o) /\ ~Settled(o) /\ calls[p].offer \in Terminal
        /\ Grounded(custody[o], denials[o], calls[p].offer)
    BY <1>0, <1>3 DEF MustSettle, CallsOnRecord, OffersMade, CallsSound, CallSound, Steps, Dispatched
  <2>2. PICK q \in Operations, t \in Terminal : q = o /\ t = calls[p].offer
    BY <2>1
  <2> HIDE DEF o
  <2>3. /\ Started(q) /\ ~Settled(q) /\ Grounded(custody[q], denials[q], t)
        /\ records' = [records EXCEPT ![q] = SettledRecord(t)]
        /\ told' = [told EXCEPT ![q] = @ \cup {t}] \/ UNCHANGED told
        /\ UNCHANGED <<custody, denials>>
    BY <1>3, <2>1, <2>2
  <2> QED BY <1>0, <2>3, KeptSettle
<1> QED BY <1>1, <1>2, <1>3

LEMMA PromiseSteps == ASSUME QInv, [Next]_vars PROVE Kept
<1>0. TypeOK /\ JournalTypeOK /\ CallsOnRecord
  BY DEF QInv, IInv, TypeOK
<1>o. ASSUME NEW p \in Callers, calls[p].at \in Steps PROVE Op(p) \in Operations
  BY <1>0, <1>o DEF CallsOnRecord
<1>still. ASSUME UNCHANGED records, UNCHANGED <<custody, denials, told>> PROVE Kept
  BY <1>still, ViewKept, KeptStill
<1>tell. ASSUME NEW p \in Callers, NEW o, o \in Operations, Settled(o), UNCHANGED records,
                TellTerminal(p, o)
         PROVE  Kept
  <2>1. PICK q \in Operations : q = o
    BY <1>tell
  <2>2. /\ Settled(q) /\ UNCHANGED <<custody, denials>>
        /\ told' = [told EXCEPT ![q] = @ \cup {records[q].terminal}]
    BY <1>tell, <2>1 DEF TellTerminal
  <2> QED BY <1>tell, <2>2, KeptTell
<1>1. ASSUME NEW p \in Callers, NEW o \in Operations, ReleaseNew(p, o) \/ CallUnavailable(p, o)
      PROVE  Kept
  <2>1. UNCHANGED <<custody, denials, told>>
    BY <1>1 DEF ReleaseNew, CallUnavailable, ghosts
  <2>2. \/ UNCHANGED records
        \/ ~Known(o) /\ (WriteRecord(o, NewRecord) \/ CutShort(o, NewRecord))
    BY <1>1 DEF ReleaseNew, CallUnavailable, ReadJournal, JournalFails
  <2> QED BY <1>0, <1>still, <2>1, <2>2, KeptNew
<1>2. ASSUME NEW p \in Callers, NEW o \in Operations, ReleaseReplay(p, o) \/ Resume(p, o)
      PROVE  Kept
  BY <1>2, <1>still, <1>tell DEF ReleaseReplay, Resume, ReadJournal, ghosts
<1>3. ASSUME NEW p \in Callers, MarkStarted(p) PROVE Kept
  <2>1. UNCHANGED <<custody, denials, told>>
    BY <1>3 DEF MarkStarted, Dispatch
  <2> QED BY <1>3, <1>still, <2>1, KeptByWrites DEF MarkStarted, ReadJournal
<1>4. ASSUME NEW p \in Callers, PersistDecisions(p) PROVE Kept
  <2>1. UNCHANGED <<custody, denials, told>>
    BY <1>4 DEF PersistDecisions, ghosts
  <2> QED BY <1>4, <1>still, <2>1, KeptByWrites DEF PersistDecisions, ReadJournal
<1>5. ASSUME NEW p \in Callers, Reconcile(p) PROVE Kept
  BY <1>5, <1>o, <1>still, <1>tell DEF Reconcile, ReadJournal, ghosts, Steps
<1>6. ASSUME NEW p \in Callers, Settle(p) PROVE Kept
  <2>1. CASE MustSettle(p)
    BY <1>6, <2>1, KeptByWrites DEF Settle, WriteRecord
  <2>2. CASE ~MustSettle(p)
    <3>1. Settled(Op(p)) /\ Op(p) \in Operations
      BY <1>6, <1>o, <2>2 DEF Settle, MustSettle, Steps
    <3> QED BY <1>6, <1>still, <1>tell, <2>2, <3>1 DEF Settle, ReadJournal, ghosts
  <2> QED BY <2>1, <2>2
<1>7. ASSUME NEW p \in Callers, JournalUnavailable(p) PROVE Kept
  <2>1. UNCHANGED <<custody, denials, told>>
    BY <1>7 DEF JournalUnavailable, ghosts
  <2>2. ASSUME MustSettle(p), CutShort(Op(p), SettledRecord(calls[p].offer)) PROVE Kept
    BY <1>still, <2>1, <2>2, KeptByWrites DEF CutShort
  <2> QED BY <1>7, <1>still, <2>1, <2>2, KeptByWrites DEF JournalUnavailable, JournalFails
<1>8. ASSUME NEW p \in Callers, NothingToPersist(p) \/ SharesOver(p) \/ GiveUp(p) PROVE Kept
  BY <1>8, <1>still DEF NothingToPersist, SharesOver, GiveUp, journalVars, ghosts
<1>9. ASSUME Scan \/ Crash \/ (\E o \in Operations : Expire(o)) \/ UNCHANGED vars PROVE Kept
  BY <1>9, <1>still DEF Scan, Crash, Expire, ReadJournal, journalVars, ghosts, vars
<1>10. CASE Quiet
  BY <1>1, <1>2, <1>4, <1>5, <1>6, <1>7, <1>8, <1>10 DEF Quiet
<1> QED BY <1>3, <1>9, <1>10, KeptRights, KeptCustody, StepKinds

\* Calls, the journal, replays, resumes, crashes and restarts together implement
\* the promise: the effects begin on record, no node's decision counts twice, a
\* share is asked for behind a recorded quorum or after the result only, one
\* grounded result is settled for good, and only that one is told.
THEOREM ReleasesSettleAsPromised == Spec => SettlesAsPromised
<1>1. Init => Promise!PromiseInit
  BY DEF Init, JournalInit, Promise!PromiseInit, Started, Known
<1>2. QInv /\ [Next]_vars => [Promise!PromiseNext]_(Promise!promiseVars)
  BY PromiseSteps DEF Kept
<1> QED BY <1>1, <1>2, QuorumInductive, PTL DEF Spec, SettlesAsPromised, Promise!PromiseSpec
=============================================================================
