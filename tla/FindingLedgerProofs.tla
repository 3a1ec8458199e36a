------------------------- MODULE FindingLedgerProofs -------------------------
(* What the ledger keeps for any number of submissions, operators, findings  *)
(* and packs, whatever overlaps, fails or is killed.                         *)
EXTENDS FindingLedger, WellFoundedInduction, TLAPS

Row == [fingerprint : Fingerprints, triage : TRIAGE_OPERATOR_STATES \cup {"new"},
        lastSeen : Runs, version : Nat]
CallPcs == Ended \cup {"lookup", "write", "event"}
TriagePcs == Ended \cup {"update", "read", "event"}
Submission == [pc : CallPcs, run : Runs \cup {0}, pack : Packs \cup {<<>>}, at : Nat, row : Nat]
TriageCall == [pc : TriagePcs, selected : SUBSET Rows, todo : SUBSET Rows,
               state : RequestedStates \cup {"new"}, version : Nat]

\* The entries of a pack before the n-th have their row.
MaterialisedTo(pack, n) ==
  \A k \in DOMAIN pack : k < n /\ pack[k] # Untitled => RowsWith(pack[k]) # {}

\* A submission that is on its way was recorded, materialised the entries before
\* the one it stands at, and stands at the row of that one if it has chosen it.
Progress(s) ==
  LET a == call[s] IN
  /\ a.pc \in {"lookup", "write", "event", "done"} =>
       \E n \in DOMAIN accepted : accepted[n].by = s
  /\ a.pc \in {"lookup", "write", "event"} => a.run \in Runs /\ MaterialisedTo(a.pack, a.at)
  /\ a.pc \in {"write", "event"} => a.at \in DOMAIN a.pack /\ a.pack[a.at] # Untitled
  /\ a.pc = "write" => a.row = 0 \/ a.row \in RowsWith(a.pack[a.at])
  /\ a.pc = "event" => a.row \in RowsWith(a.pack[a.at])
  /\ a.pc = "done" => \A k \in DOMAIN a.pack : a.pack[k] # Untitled => RowsWith(a.pack[k]) # {}

LedgerRows ==
  /\ findings \in Seq(Row)
  /\ accepted \in Seq([by : Submitters, run : Runs])
  /\ call \in [Submitters -> Submission]
  /\ triage \in [Triagers -> TriageCall]

\* A triage that writes was let through with a state an operator may set, for
\* findings that exist, and has some left.
Admitted(a) ==
  a.pc \in {"update", "read", "event"} =>
    /\ a.state \in TRIAGE_OPERATOR_STATES
    /\ a.selected \subseteq Ids /\ a.todo \subseteq a.selected /\ a.todo # {}

TriageAdmitted == \A o \in Triagers : Admitted(triage[o])

LedgerIInv == LedgerRows /\ TriageAdmitted /\ \A s \in Submitters : Progress(s)

------------------------------------------------------------------------------
\* The ids are sorted before a triage, so there is a first one.
LEMMA LeastNatural ==
  ASSUME NEW T \in SUBSET Nat, T # {} PROVE \E x \in T : \A y \in T : x <= y
<1> DEFINE R == OpToRel(<, Nat)
<1>1. IsWellFoundedOn(R, Nat)
  BY NatLessThanWellFounded
<1>2. \A x, y \in Nat : y < x => <<y, x>> \in R
  BY DEF OpToRel
<1> HIDE DEF R
<1>3. PICK x \in T : \A y \in T : ~ (<<y, x>> \in R)
  BY <1>1, WFMin
<1>4. ASSUME NEW y \in T PROVE x <= y
  <2>1. x \in Nat /\ y \in Nat
    OBVIOUS
  <2>2. ~(y < x)
    BY <1>2, <1>3, <2>1
  <2> QED BY <2>1, <2>2
<1> QED BY <1>4

LEMMA PackType ==
  ASSUME NEW pack \in Packs \cup {<<>>}
  PROVE  /\ pack \in Seq(Fingerprints \cup {Untitled})
         /\ DOMAIN pack = 1..Len(pack) /\ Len(pack) \in Nat
<1>1. pack \in Seq(Fingerprints \cup {Untitled})
  <2>1. CASE pack \in Packs
    BY <2>1, LedgerConstants, Zenon
  <2>2. CASE pack = <<>>
    BY <2>2
  <2> QED BY <2>1, <2>2
<1> QED BY <1>1

LEMMA LedgerInitial == LedgerInit => LedgerIInv
<1> SUFFICES ASSUME LedgerInit PROVE LedgerIInv
  OBVIOUS
<1>1. LedgerRows
  BY DEF LedgerInit, LedgerRows, Submission, TriageCall, CallPcs, TriagePcs, Ended
<1>2. TriageAdmitted
  BY DEF LedgerInit, TriageAdmitted, Admitted
<1>3. \A s \in Submitters : Progress(s)
  BY DEF LedgerInit, Progress
<1> QED BY <1>1, <1>2, <1>3 DEF LedgerIInv

\* Rows are only added and keep their fingerprint.
Grows ==
  /\ findings' \in Seq(Row)
  /\ Ids \subseteq Ids'
  /\ \A f \in Ids : findings'[f].fingerprint = findings[f].fingerprint

LEMMA RowsStay ==
  ASSUME Grows, NEW fp
  PROVE  RowsWith(fp) \subseteq RowsWith(fp)'
BY DEF Grows, RowsWith, Ids

LEMMA MaterialisedStay ==
  ASSUME Grows, NEW pack, NEW n, MaterialisedTo(pack, n)
  PROVE  MaterialisedTo(pack, n)'
BY RowsStay DEF MaterialisedTo

\* A submission that does not move keeps its progress.
LEMMA ProgressStays ==
  ASSUME Grows, NEW s \in Submitters, Progress(s), call'[s] = call[s],
         DOMAIN accepted \subseteq DOMAIN accepted',
         \A n \in DOMAIN accepted : accepted'[n] = accepted[n]
  PROVE  Progress(s)'
BY RowsStay, MaterialisedStay DEF Progress, Grows

LEMMA TriageStays ==
  ASSUME TriageAdmitted, Grows, UNCHANGED triage
  PROVE  TriageAdmitted'
BY DEF TriageAdmitted, Admitted, Grows

\* One submission moves, and nothing of the triage commands.
LEMMA SubmissionMoves ==
  ASSUME LedgerIInv, NEW s \in Submitters, NEW a \in Submission,
         call' = [call EXCEPT ![s] = a], UNCHANGED triage, Grows,
         accepted' \in Seq([by : Submitters, run : Runs]),
         DOMAIN accepted \subseteq DOMAIN accepted',
         \A n \in DOMAIN accepted : accepted'[n] = accepted[n],
         Progress(s)'
  PROVE  LedgerIInv'
<1>1. LedgerRows'
  BY DEF LedgerIInv, LedgerRows, Grows
<1>2. ASSUME NEW t \in Submitters PROVE Progress(t)'
  <2>1. CASE t = s
    BY <2>1
  <2>2. CASE t # s
    BY <2>2, ProgressStays DEF LedgerIInv, LedgerRows
  <2> QED BY <2>1, <2>2
<1> QED BY <1>1, <1>2, TriageStays DEF LedgerIInv

\* One triage command moves; the rows keep their fingerprints.
LEMMA TriageMoves ==
  ASSUME LedgerIInv, NEW o \in Triagers, NEW a \in TriageCall,
         triage' = [triage EXCEPT ![o] = a], UNCHANGED <<call, accepted>>, Grows,
         Admitted(a)
  PROVE  LedgerIInv'
<1>1. LedgerRows'
  BY DEF LedgerIInv, LedgerRows, Grows
<1>2. TriageAdmitted'
  BY DEF LedgerIInv, LedgerRows, TriageAdmitted, Admitted, Grows
<1>3. \A t \in Submitters : Progress(t)'
  BY ProgressStays DEF LedgerIInv
<1> QED BY <1>1, <1>2, <1>3 DEF LedgerIInv

LEMMA Unchanged ==
  ASSUME LedgerIInv, UNCHANGED findings
  PROVE  Grows
BY DEF LedgerIInv, LedgerRows, Grows, Ids

LEMMA CallType ==
  ASSUME LedgerIInv, NEW s \in Submitters
  PROVE  call[s] \in Submission /\ Progress(s)
BY DEF LedgerIInv, LedgerRows

LEMMA TriageType ==
  ASSUME LedgerIInv, NEW o \in Triagers
  PROVE  triage[o] \in TriageCall /\ Admitted(triage[o])
BY DEF LedgerIInv, LedgerRows, TriageAdmitted

\* What a step that only moves one submission has to show.
LEMMA SubmissionSteps ==
  ASSUME LedgerIInv, NEW s \in Submitters, NEW a \in Submission,
         call' = [call EXCEPT ![s] = a], UNCHANGED <<findings, accepted, triage>>,
         Progress(s)'
  PROVE  LedgerIInv'
BY SubmissionMoves, Unchanged DEF LedgerIInv, LedgerRows

LEMMA SubmitKeeps ==
  ASSUME LedgerIInv, NEW s \in Submitters, SubmitStageResult(s) PROVE LedgerIInv'
<1>1. PICK run \in Runs, pack \in Packs :
        /\ call' = [call EXCEPT ![s] =
                      [pc |-> "lookup", run |-> run, pack |-> pack, at |-> 1, row |-> 0]]
        /\ accepted' = Append(accepted, [by |-> s, run |-> run])
  BY DEF SubmitStageResult
<1> DEFINE a == [pc |-> "lookup", run |-> run, pack |-> pack, at |-> 1, row |-> 0]
<1>2. a \in Submission
  BY DEF Submission, CallPcs
<1>3. /\ accepted' \in Seq([by : Submitters, run : Runs])
      /\ DOMAIN accepted \subseteq DOMAIN accepted'
      /\ \A n \in DOMAIN accepted : accepted'[n] = accepted[n]
      /\ Len(accepted') \in DOMAIN accepted' /\ accepted'[Len(accepted')].by = s
  BY <1>1 DEF LedgerIInv, LedgerRows
<1>4. Grows
  BY Unchanged DEF SubmitStageResult
<1>5. call'[s] = a
  BY <1>1 DEF LedgerIInv, LedgerRows
<1>6. Progress(s)'
  BY <1>3, <1>5, PackType DEF Progress, MaterialisedTo
<1> HIDE DEF a
<1>7. call' = [call EXCEPT ![s] = a]
  BY <1>1 DEF a
<1> QED BY <1>2, <1>3, <1>4, <1>6, <1>7, SubmissionMoves DEF SubmitStageResult

LEMMA SkipKeeps ==
  ASSUME LedgerIInv, NEW s \in Submitters, SkipUntitled(s) PROVE LedgerIInv'
<1> DEFINE a == [call[s] EXCEPT !.at = @ + 1]
<1>1. call[s] \in Submission /\ Progress(s) /\ call[s].pc = "lookup"
      /\ call[s].at \in DOMAIN call[s].pack /\ call[s].pack[call[s].at] = Untitled
  BY CallType DEF SkipUntitled
<1>2. a \in Submission
  BY <1>1 DEF Submission
<1>3. call' = [call EXCEPT ![s] = a] /\ call'[s] = a
  BY DEF SkipUntitled, LedgerIInv, LedgerRows
<1>4. a.pc = "lookup" /\ a.run = call[s].run /\ a.pack = call[s].pack /\ a.at = call[s].at + 1
  BY <1>1 DEF Submission
<1>5. MaterialisedTo(a.pack, a.at)
  <2>1. call[s].at \in Nat /\ DOMAIN a.pack \subseteq Nat
    BY <1>1, <1>4, PackType DEF Submission
  <2> QED BY <1>1, <1>4, <2>1 DEF Progress, MaterialisedTo
<1>6. \A pack, n : MaterialisedTo(pack, n) => MaterialisedTo(pack, n)'
  BY Unchanged, MaterialisedStay DEF SkipUntitled
<1> HIDE DEF a
<1>7. Progress(s)'
  BY <1>1, <1>3, <1>4, <1>5, <1>6 DEF Progress, SkipUntitled
<1> QED BY <1>2, <1>3, <1>7, SubmissionSteps DEF SkipUntitled

\* The row a submission stands at has the fingerprint it looked up.
LEMMA LookUpKeeps ==
  ASSUME LedgerIInv, NEW s \in Submitters, LookUpFingerprint(s) PROVE LedgerIInv'
<1> DEFINE found == RowsWith(call[s].pack[call[s].at])
<1>1. PICK row \in IF found = {} THEN {0} ELSE found :
        call' = [call EXCEPT ![s].row = row, ![s].pc = "write"]
  BY DEF LookUpFingerprint
<1> DEFINE a == [call[s] EXCEPT !.row = row, !.pc = "write"]
<1>2. call[s] \in Submission /\ Progress(s) /\ call[s].pc = "lookup"
      /\ call[s].at \in DOMAIN call[s].pack /\ call[s].pack[call[s].at] # Untitled
  BY CallType DEF LookUpFingerprint
<1>3. row \in Nat /\ (row = 0 \/ row \in RowsWith(call[s].pack[call[s].at]))
  BY DEF RowsWith, Ids, LedgerIInv, LedgerRows
<1>4. a \in Submission
  BY <1>2, <1>3 DEF Submission, CallPcs
<1>5. call' = [call EXCEPT ![s] = a] /\ call'[s] = a
  BY <1>1 DEF LedgerIInv, LedgerRows
<1>6. a.pc = "write" /\ a.run = call[s].run /\ a.pack = call[s].pack /\ a.at = call[s].at
      /\ a.row = row
  BY <1>2 DEF Submission
<1>7. \A fp : RowsWith(fp) \subseteq RowsWith(fp)'
  BY Unchanged, RowsStay DEF LookUpFingerprint
<1>8. \A pack, n : MaterialisedTo(pack, n) => MaterialisedTo(pack, n)'
  BY Unchanged, MaterialisedStay DEF LookUpFingerprint
<1> HIDE DEF a
<1>9. Progress(s)'
  BY <1>2, <1>3, <1>5, <1>6, <1>7, <1>8 DEF Progress, LookUpFingerprint
<1> QED BY <1>4, <1>5, <1>9, SubmissionSteps DEF LookUpFingerprint

LEMMA SightedRow ==
  ASSUME NEW r \in Row, NEW run \in Runs
  PROVE  SeenAgain(r, run) \in Row /\ SeenAgain(r, run).fingerprint = r.fingerprint
         /\ SeenAgain(r, run).triage = r.triage
<1>1. r.version + 1 \in Nat
  BY DEF Row
<1> QED BY <1>1 DEF SeenAgain, Row

\* An update keeps the row's fingerprint, an insert adds one with the entry's.
LEMMA UpsertKeeps ==
  ASSUME LedgerIInv, NEW s \in Submitters, UpsertFinding(s) PROVE LedgerIInv'
<1>1. call[s] \in Submission /\ Progress(s) /\ call[s].pc = "write" /\ call[s].run \in Runs
  BY CallType DEF UpsertFinding, Progress
<1>2. PICK fp \in Fingerprints : fp = call[s].pack[call[s].at]
  <2>1. call[s].at \in DOMAIN call[s].pack /\ call[s].pack[call[s].at] # Untitled
    BY <1>1 DEF Progress
  <2>2. call[s].pack \in Seq(Fingerprints \cup {Untitled})
    BY <1>1, PackType DEF Submission
  <2> QED BY <2>1, <2>2
<1>3. findings \in Seq(Row)
  BY DEF LedgerIInv, LedgerRows
<1> PICK row \in Nat : row = IF call[s].row # 0 THEN call[s].row ELSE Len(findings) + 1
  BY <1>1, <1>3 DEF Submission
<1> DEFINE a == [call[s] EXCEPT !.row = row, !.pc = "event"]
<1>4. Grows /\ row \in RowsWith(fp)' /\ row \in Nat /\ call' = [call EXCEPT ![s] = a]
  <2>1. CASE call[s].row # 0
    <3>1. row \in Ids /\ findings[row].fingerprint = fp /\ findings[row] \in Row
      BY <1>1, <1>2, <1>3, <2>1 DEF Progress, RowsWith, Ids
    <3>2. findings' = [findings EXCEPT ![row] = SeenAgain(@, call[s].run)]
      BY <2>1 DEF UpsertFinding
    <3>3. SeenAgain(findings[row], call[s].run) \in Row
          /\ SeenAgain(findings[row], call[s].run).fingerprint = fp
      BY <1>1, <3>1, SightedRow
    <3>4. findings' \in Seq(Row) /\ DOMAIN findings' = DOMAIN findings
      BY <1>3, <3>1, <3>2, <3>3 DEF Ids
    <3>5. \A f \in Ids : findings'[f].fingerprint = findings[f].fingerprint
      BY <1>3, <3>1, <3>2, <3>3 DEF Ids
    <3>6. call' = [call EXCEPT ![s] = a]
      BY <1>1, <2>1 DEF UpsertFinding, LedgerIInv, LedgerRows, Submission
    <3>7. row \in RowsWith(fp)'
      BY <3>1, <3>4, <3>5 DEF RowsWith, Ids
    <3> QED BY <1>1, <2>1, <3>4, <3>5, <3>6, <3>7 DEF Grows, Ids, Submission
  <2>2. CASE call[s].row = 0
    <3> DEFINE added == [fingerprint |-> fp, triage |-> "new",
                         lastSeen |-> call[s].run, version |-> 0]
    <3>1. findings' = Append(findings, added)
      BY <1>2, <2>2 DEF UpsertFinding
    <3>2. added \in Row /\ added.fingerprint = fp
      BY <1>1, <1>2 DEF Row
    <3> HIDE DEF added
    <3>3. /\ findings' \in Seq(Row) /\ DOMAIN findings' = 1..(Len(findings) + 1)
          /\ findings'[Len(findings) + 1] = added
          /\ \A f \in DOMAIN findings : findings'[f] = findings[f]
      BY <1>3, <3>1, <3>2
    <3>4. call' = [call EXCEPT ![s] = a]
      BY <1>1, <2>2 DEF UpsertFinding, LedgerIInv, LedgerRows, Submission
    <3>5. row \in RowsWith(fp)'
      BY <1>3, <2>2, <3>2, <3>3 DEF RowsWith, Ids
    <3>6. Grows
      BY <1>3, <3>3 DEF Grows, Ids
    <3> QED BY <3>4, <3>5, <3>6
  <2> QED BY <2>1, <2>2
<1>5. a \in Submission
  BY <1>1, <1>4 DEF Submission, CallPcs
<1>6. a.pc = "event" /\ a.run = call[s].run /\ a.pack = call[s].pack /\ a.at = call[s].at
      /\ a.row = row
  BY <1>1 DEF Submission
<1>7. call'[s] = a
  BY <1>4 DEF LedgerIInv, LedgerRows
<1>8. \A pack, n : MaterialisedTo(pack, n) => MaterialisedTo(pack, n)'
  BY <1>4, MaterialisedStay
<1>9. Progress(s)'
  <2> HIDE DEF a
  <2> QED BY <1>1, <1>2, <1>4, <1>6, <1>7, <1>8 DEF Progress, UpsertFinding
<1> HIDE DEF a
<1> QED BY <1>4, <1>5, <1>9, SubmissionMoves DEF UpsertFinding, LedgerIInv, LedgerRows

\* With its event recorded, an entry is materialised, and the next one follows.
LEMMA RecordSightingKeeps ==
  ASSUME LedgerIInv, NEW s \in Submitters, RecordSighting(s) PROVE LedgerIInv'
<1>1. call[s] \in Submission /\ Progress(s) /\ call[s].pc = "event"
  BY CallType DEF RecordSighting
<1>2. \A pack, n : MaterialisedTo(pack, n) => MaterialisedTo(pack, n)'
  BY Unchanged, MaterialisedStay DEF RecordSighting
<1>3. CASE call' = [call EXCEPT ![s].pc = "failed"]
  <2> DEFINE a == [call[s] EXCEPT !.pc = "failed"]
  <2>1. a \in Submission /\ a.pc = "failed"
    BY <1>1 DEF Submission, CallPcs, Ended
  <2>2. call' = [call EXCEPT ![s] = a] /\ call'[s] = a
    BY <1>3 DEF LedgerIInv, LedgerRows
  <2> HIDE DEF a
  <2>3. Progress(s)'
    BY <2>1, <2>2 DEF Progress
  <2> QED BY <2>1, <2>2, <2>3, SubmissionSteps DEF RecordSighting
<1>4. CASE call' = [call EXCEPT ![s].pc = "lookup", ![s].at = @ + 1, ![s].row = 0]
  <2> DEFINE a == [call[s] EXCEPT !.pc = "lookup", !.at = @ + 1, !.row = 0]
  <2>1. a \in Submission
    <3>1. call[s].at + 1 \in Nat
      BY <1>1 DEF Submission
    <3> QED BY <1>1, <3>1 DEF Submission, CallPcs
  <2>2. call' = [call EXCEPT ![s] = a] /\ call'[s] = a
    BY <1>4 DEF LedgerIInv, LedgerRows
  <2>3. a.pc = "lookup" /\ a.run = call[s].run /\ a.pack = call[s].pack /\ a.at = call[s].at + 1
    BY <1>1 DEF Submission
  <2>4. MaterialisedTo(a.pack, a.at)
    <3>1. call[s].at \in Nat /\ DOMAIN a.pack \subseteq Nat
      BY <1>1, <2>3, PackType DEF Submission
    <3> QED BY <1>1, <2>3, <3>1 DEF Progress, MaterialisedTo
  <2> HIDE DEF a
  <2>5. Progress(s)'
    BY <1>1, <1>2, <2>2, <2>3, <2>4 DEF Progress, RecordSighting
  <2> QED BY <2>1, <2>2, <2>5, SubmissionSteps DEF RecordSighting
<1> QED BY <1>3, <1>4 DEF RecordSighting

LEMMA ReportKeeps ==
  ASSUME LedgerIInv, NEW s \in Submitters, ReportAcceptance(s) PROVE LedgerIInv'
<1> DEFINE a == [call[s] EXCEPT !.pc = "done"]
<1>1. call[s] \in Submission /\ Progress(s) /\ call[s].pc = "lookup"
      /\ call[s].at = Len(call[s].pack) + 1
  BY CallType DEF ReportAcceptance
<1>2. a \in Submission
  BY <1>1 DEF Submission, CallPcs, Ended
<1>3. call' = [call EXCEPT ![s] = a] /\ call'[s] = a
  BY DEF ReportAcceptance, LedgerIInv, LedgerRows
<1>4. a.pc = "done" /\ a.pack = call[s].pack
  BY <1>1 DEF Submission
<1> HIDE DEF a
<1>5. PICK pack \in Packs \cup {<<>>} : pack = call[s].pack
  BY <1>1 DEF Submission
<1>6. \A k \in DOMAIN pack : pack[k] # Untitled => RowsWith(pack[k]) # {}
  <2>1. \A k \in DOMAIN pack : k < call[s].at
    BY <1>1, <1>5, PackType
  <2> QED BY <1>1, <1>5, <2>1 DEF Progress, MaterialisedTo
<1>7. \A fp : RowsWith(fp) \subseteq RowsWith(fp)'
  BY Unchanged, RowsStay DEF ReportAcceptance
<1>8. \A k \in DOMAIN pack : pack[k] # Untitled => RowsWith(pack[k])' # {}
  BY <1>6, <1>7
<1>9. Progress(s)'
  <2>1. \E n \in DOMAIN accepted' : accepted'[n].by = s
    BY <1>1 DEF Progress, ReportAcceptance
  <2>2. call'[s].pc = "done" /\ call'[s].pack = pack
    BY <1>3, <1>4, <1>5
  <2> QED BY <1>8, <2>1, <2>2 DEF Progress
<1> QED BY <1>2, <1>3, <1>9, SubmissionSteps DEF ReportAcceptance

LEMMA SubmissionFailureKeeps ==
  ASSUME LedgerIInv, NEW s \in Submitters, SubmissionFails(s) PROVE LedgerIInv'
<1> DEFINE a == [call[s] EXCEPT !.pc = "failed"]
<1>1. a \in Submission /\ a.pc = "failed"
  BY CallType DEF Submission, CallPcs, Ended
<1>2. call' = [call EXCEPT ![s] = a] /\ call'[s] = a
  BY DEF SubmissionFails, LedgerIInv, LedgerRows
<1> HIDE DEF a
<1>3. Progress(s)'
  BY <1>1, <1>2 DEF Progress
<1> QED BY <1>1, <1>2, <1>3, SubmissionSteps DEF SubmissionFails

------------------------------------------------------------------------------
\* A triage takes the first of the findings it has left.
LEMMA NextIsLeft ==
  ASSUME LedgerIInv, NEW o \in Triagers, triage[o].pc \in {"update", "read", "event"}
  PROVE  NextFinding(o) \in triage[o].todo /\ NextFinding(o) \in Ids
<1>1. triage[o].todo # {} /\ triage[o].todo \subseteq Ids
  BY TriageType DEF Admitted
<1>2. triage[o].todo \in SUBSET Nat
  BY TriageType DEF TriageCall, Rows
<1>3. \E f \in triage[o].todo : \A g \in triage[o].todo : f <= g
  BY <1>1, <1>2, LeastNatural
<1> QED BY <1>1, <1>3 DEF NextFinding

LEMMA StartTriageKeeps ==
  ASSUME LedgerIInv, NEW o \in Triagers, StartTriage(o) PROVE LedgerIInv'
<1>1. PICK selected \in (SUBSET Rows) \ {{}}, state \in RequestedStates :
        triage' = [triage EXCEPT ![o] =
          [pc |-> IF MayTriage(selected, state) THEN "update" ELSE "refused",
           selected |-> selected, todo |-> selected, state |-> state, version |-> 0]]
  BY DEF StartTriage
<1> DEFINE a == [pc |-> IF MayTriage(selected, state) THEN "update" ELSE "refused",
                 selected |-> selected, todo |-> selected, state |-> state, version |-> 0]
<1>2. a \in TriageCall
  BY DEF TriageCall, TriagePcs, Ended
<1>3. Admitted(a)
  BY DEF Admitted, MayTriage
<1> HIDE DEF a
<1>4. triage' = [triage EXCEPT ![o] = a]
  BY <1>1 DEF a
<1> QED BY <1>2, <1>3, <1>4, TriageMoves, Unchanged DEF StartTriage

LEMMA TriagedRow ==
  ASSUME NEW r \in Row, NEW state \in TRIAGE_OPERATOR_STATES
  PROVE  LET new == [r EXCEPT !.triage = state, !.version = @ + 1] IN
         new \in Row /\ new.fingerprint = r.fingerprint
<1>1. r.version + 1 \in Nat
  BY DEF Row
<1> QED BY <1>1 DEF Row

LEMMA SetStateKeeps ==
  ASSUME LedgerIInv, NEW o \in Triagers, SetTriageState(o) PROVE LedgerIInv'
<1> DEFINE a == [triage[o] EXCEPT !.pc = "read"]
<1>1. triage[o] \in TriageCall /\ Admitted(triage[o]) /\ triage[o].pc = "update"
  BY TriageType DEF SetTriageState
<1>2. PICK f \in Ids : f = NextFinding(o)
  BY <1>1, NextIsLeft
<1>3. findings' = [findings EXCEPT ![f].triage = triage[o].state, ![f].version = @ + 1]
  BY <1>2 DEF SetTriageState
<1>4. triage[o].state \in TRIAGE_OPERATOR_STATES
  BY <1>1 DEF Admitted
<1>5. findings \in Seq(Row)
  BY DEF LedgerIInv, LedgerRows
<1>6. Grows
  <2> DEFINE new == [findings[f] EXCEPT !.triage = triage[o].state, !.version = @ + 1]
  <2>1. findings[f] \in Row
    BY <1>2, <1>5 DEF Ids
  <2>2. new \in Row /\ new.fingerprint = findings[f].fingerprint
    BY <1>4, <2>1, TriagedRow
  <2>3. findings' = [findings EXCEPT ![f] = new]
    BY <1>3, <1>5
  <2> HIDE DEF new
  <2>4. findings' \in Seq(Row) /\ DOMAIN findings' = DOMAIN findings
    BY <1>2, <1>5, <2>2, <2>3 DEF Ids
  <2>5. \A g \in Ids : findings'[g].fingerprint = findings[g].fingerprint
    BY <1>2, <1>5, <2>2, <2>3 DEF Ids
  <2> QED BY <2>4, <2>5 DEF Grows, Ids
<1>7. a \in TriageCall /\ Admitted(a)
  BY <1>1 DEF TriageCall, TriagePcs, Admitted
<1>8. triage' = [triage EXCEPT ![o] = a]
  BY DEF SetTriageState, LedgerIInv, LedgerRows
<1> HIDE DEF a
<1> QED BY <1>6, <1>7, <1>8, TriageMoves DEF SetTriageState

LEMMA ReadBackKeeps ==
  ASSUME LedgerIInv, NEW o \in Triagers, ReadBack(o) PROVE LedgerIInv'
<1> DEFINE a == [triage[o] EXCEPT !.version = findings[NextFinding(o)].version, !.pc = "event"]
<1>1. triage[o] \in TriageCall /\ Admitted(triage[o]) /\ triage[o].pc = "read"
  BY TriageType DEF ReadBack
<1>2. findings[NextFinding(o)] \in Row
  BY <1>1, NextIsLeft DEF LedgerIInv, LedgerRows, Ids
<1>3. a \in TriageCall /\ Admitted(a)
  BY <1>1, <1>2 DEF TriageCall, TriagePcs, Admitted, Row
<1>4. triage' = [triage EXCEPT ![o] = a]
  BY DEF ReadBack, LedgerIInv, LedgerRows
<1> HIDE DEF a
<1> QED BY <1>3, <1>4, TriageMoves, Unchanged DEF ReadBack

LEMMA RecordDecisionKeeps ==
  ASSUME LedgerIInv, NEW o \in Triagers, RecordDecision(o) PROVE LedgerIInv'
<1> DEFINE rest == triage[o].todo \ {NextFinding(o)}
           failed == [triage[o] EXCEPT !.pc = "failed"]
           a == [triage[o] EXCEPT !.todo = rest, !.pc = IF rest = {} THEN "done" ELSE "update"]
<1>1. triage[o] \in TriageCall /\ Admitted(triage[o]) /\ triage[o].pc = "event"
  BY TriageType DEF RecordDecision
<1>2. failed \in TriageCall /\ Admitted(failed)
  BY <1>1 DEF TriageCall, TriagePcs, Ended, Admitted
<1>3. a \in TriageCall /\ Admitted(a)
  BY <1>1 DEF TriageCall, TriagePcs, Ended, Admitted
<1>4. triage' \in {[triage EXCEPT ![o] = failed], [triage EXCEPT ![o] = a]}
  BY DEF RecordDecision, LedgerIInv, LedgerRows
<1> HIDE DEF failed, a
<1> QED BY <1>2, <1>3, <1>4, TriageMoves, Unchanged DEF RecordDecision

LEMMA TriageFailureKeeps ==
  ASSUME LedgerIInv, NEW o \in Triagers, TriageFails(o) PROVE LedgerIInv'
<1> DEFINE a == [triage[o] EXCEPT !.pc = "failed"]
<1>1. a \in TriageCall /\ Admitted(a)
  BY TriageType DEF TriageCall, TriagePcs, Ended, Admitted
<1>2. triage' = [triage EXCEPT ![o] = a]
  BY DEF TriageFails, LedgerIInv, LedgerRows
<1> HIDE DEF a
<1> QED BY <1>1, <1>2, TriageMoves, Unchanged DEF TriageFails

LEMMA RestKeeps ==
  ASSUME LedgerIInv, UNCHANGED <<findings, accepted, call, triage>> PROVE LedgerIInv'
BY DEF LedgerIInv, LedgerRows, TriageAdmitted, Admitted, Progress, MaterialisedTo, RowsWith, Ids

LEMMA LedgerInductive == LedgerIInv /\ [LedgerNext]_ledgerVars => LedgerIInv'
<1> SUFFICES ASSUME LedgerIInv, [LedgerNext]_ledgerVars PROVE LedgerIInv'
  OBVIOUS
<1>1. ASSUME NEW s \in Submitters,
             \/ SubmitStageResult(s) \/ SkipUntitled(s) \/ LookUpFingerprint(s)
             \/ UpsertFinding(s) \/ RecordSighting(s) \/ ReportAcceptance(s)
             \/ SubmissionFails(s)
      PROVE  LedgerIInv'
  BY <1>1, SubmitKeeps, SkipKeeps, LookUpKeeps, UpsertKeeps, RecordSightingKeeps, ReportKeeps,
     SubmissionFailureKeeps
<1>2. ASSUME NEW o \in Triagers,
             \/ StartTriage(o) \/ SetTriageState(o) \/ ReadBack(o) \/ RecordDecision(o)
             \/ TriageFails(o)
      PROVE  LedgerIInv'
  BY <1>2, StartTriageKeeps, SetStateKeeps, ReadBackKeeps, RecordDecisionKeeps, TriageFailureKeeps
<1>3. CASE Second
  BY <1>3, RestKeeps DEF Second
<1>4. CASE UNCHANGED ledgerVars
  BY <1>4, RestKeeps DEF ledgerVars
<1> QED BY <1>1, <1>2, <1>3, <1>4 DEF LedgerNext

LEMMA LedgerAlways == LedgerSpec => []LedgerIInv
BY LedgerInitial, LedgerInductive, PTL DEF LedgerSpec

------------------------------------------------------------------------------
\* When a worker is told its result was accepted, the audit row and a row for
\* every titled entry are stored, whatever ran at the same time
\* (persist_accepted_stage_result).
THEOREM AcceptedMaterialised == LedgerSpec => []AcceptedIsMaterialised
<1>1. LedgerIInv => AcceptedIsMaterialised
  BY CallType DEF AcceptedIsMaterialised, Progress
<1> QED BY <1>1, LedgerAlways, PTL

\* However often, from however many runs and at whatever moment workers report a
\* finding again, only an operator's triage changes what was decided about it
\* (upsert_materialized_finding).
THEOREM DecisionsSurvive == LedgerSpec => DecisionsSurviveSightings
<1> DEFINE Decided == \A f \in Ids : findings'[f].triage # findings[f].triage =>
                        \E o \in Triagers : triage[o].pc = "update" /\ f = NextFinding(o)
<1>1. ASSUME LedgerIInv, [LedgerNext]_ledgerVars PROVE [Decided]_ledgerVars
  <2> SUFFICES ASSUME NEW f \in Ids, findings'[f].triage # findings[f].triage
               PROVE  \E o \in Triagers : triage[o].pc = "update" /\ f = NextFinding(o)
    OBVIOUS
  <2>1. findings \in Seq(Row) /\ findings[f] \in Row
    BY <1>1 DEF LedgerIInv, LedgerRows, Ids
  <2>2. ASSUME NEW s \in Submitters, UpsertFinding(s) PROVE FALSE
    <3>1. call[s] \in Submission /\ Progress(s) /\ call[s].pc = "write" /\ call[s].run \in Runs
      BY <1>1, <2>2, CallType DEF UpsertFinding, Progress
    <3>2. CASE call[s].row # 0
      <4>1. findings' = [findings EXCEPT ![call[s].row] = SeenAgain(@, call[s].run)]
        BY <2>2, <3>2 DEF UpsertFinding
      <4>2. SeenAgain(findings[f], call[s].run).triage = findings[f].triage
        BY <2>1, <3>1, SightedRow
      <4>3. findings'[f].triage = findings[f].triage
        BY <2>1, <4>1, <4>2 DEF Ids
      <4> QED BY <4>3
    <3>3. CASE call[s].row = 0
      <4>1. \E new : findings' = Append(findings, new)
        BY <2>2, <3>3 DEF UpsertFinding
      <4>2. findings'[f] = findings[f]
        BY <2>1, <4>1 DEF Ids
      <4> QED BY <4>2
    <3> QED BY <3>2, <3>3
  <2>3. ASSUME NEW o \in Triagers, SetTriageState(o)
        PROVE  triage[o].pc = "update" /\ f = NextFinding(o)
    <3>1. ASSUME f # NextFinding(o) PROVE findings'[f] = findings[f]
      BY <2>1, <2>3, <3>1 DEF SetTriageState, Ids
    <3> QED BY <2>3, <3>1 DEF SetTriageState
  <2>4. findings' # findings
    OBVIOUS
  <2>5. (\E s \in Submitters : UpsertFinding(s)) \/ (\E o \in Triagers : SetTriageState(o))
    BY <1>1, <2>4 DEF LedgerNext, ledgerVars, SubmitStageResult, SkipUntitled, LookUpFingerprint,
       RecordSighting, ReportAcceptance, SubmissionFails, StartTriage, ReadBack, RecordDecision,
       TriageFails, Second
  <2> QED BY <2>2, <2>3, <2>5
<1> QED BY <1>1, LedgerAlways, PTL DEF LedgerSpec, DecisionsSurviveSightings


------------------------------------------------------------------------------
\* The decision history.

Event == [id : Seq(Nat), triage : TRIAGE_OPERATOR_STATES \cup {"new"}]

Decision(e) == Len(e.id) = 2

\* A decision of the wanted state is in the history of a finding.
Decided(f, state) ==
  \E n \in DOMAIN history[f] : Decision(history[f][n]) /\ history[f][n].triage = state

HistoryRows ==
  /\ history \in Seq(Seq(Event)) /\ Len(history) = Len(findings)
  /\ Len(findings) <= MaxRows
  /\ clock \in 0..MaxClock /\ scenario \in Scenarios
  /\ \A s \in Submitters : call[s].row \in Ids \cup {0}

\* A triage has logged its decision for the findings it is through with, all of
\* them when it reports success.
Logs(a) ==
  /\ a.todo \subseteq a.selected
  /\ a.pc \in {"update", "read", "event", "done"} =>
       a.selected \subseteq Ids /\ \A f \in a.selected \ a.todo : Decided(f, a.state)
  /\ a.pc = "done" => a.todo = {}

HistoryInv == HistoryRows /\ \A o \in Triagers : Logs(triage[o])

LEMMA HistoryInitial == LedgerInit => HistoryInv
<1> SUFFICES ASSUME LedgerInit PROVE HistoryInv
  OBVIOUS
<1>1. HistoryRows
  BY LedgerConstants DEF LedgerInit, HistoryRows
<1>2. \A o \in Triagers : Logs(triage[o])
  BY DEF LedgerInit, Logs
<1> QED BY <1>1, <1>2 DEF HistoryInv

\* Events are only added.
Lengthens ==
  /\ history' \in Seq(Seq(Event)) /\ Len(history') = Len(findings')
  /\ Ids \subseteq Ids'
  /\ \A f \in Ids : \A n \in DOMAIN history[f] :
       n \in DOMAIN history'[f] /\ history'[f][n] = history[f][n]

LEMMA DecidedStays ==
  ASSUME Lengthens, NEW f \in Ids, NEW state, Decided(f, state)
  PROVE  Decided(f, state)'
BY DEF Lengthens, Decided, Decision

LEMMA LogsStay ==
  ASSUME Lengthens, NEW a, Logs(a)
  PROVE  Logs(a)'
BY DecidedStays DEF Logs, Lengthens

\* One triage command moves.
LEMMA LogsMove ==
  ASSUME LedgerIInv, HistoryInv, Lengthens, NEW o \in Triagers, NEW a,
         triage' = [triage EXCEPT ![o] = a], Logs(a)'
  PROVE  \A q \in Triagers : Logs(triage[q])'
<1>1. ASSUME NEW q \in Triagers PROVE Logs(triage[q])'
  <2>1. CASE q = o
    <3>1. triage'[q] = a
      BY <2>1 DEF LedgerIInv, LedgerRows
    <3> QED BY <3>1
  <2>2. CASE q # o
    <3>1. triage'[q] = triage[q]
      BY <2>2 DEF LedgerIInv, LedgerRows
    <3>2. PICK r : r = triage[q]
      OBVIOUS
    <3>3. Logs(r)'
      BY <3>2, LogsStay DEF HistoryInv
    <3> QED BY <3>1, <3>2, <3>3
  <2> QED BY <2>1, <2>2
<1> QED BY <1>1

LEMMA LogsUnmoved ==
  ASSUME LedgerIInv, HistoryInv, Lengthens, UNCHANGED triage
  PROVE  \A q \in Triagers : Logs(triage[q])'
<1>1. ASSUME NEW q \in Triagers PROVE Logs(triage[q])'
  <2>1. PICK r : r = triage[q]
    OBVIOUS
  <2>2. Logs(r)'
    BY <2>1, LogsStay DEF HistoryInv
  <2> QED BY <2>1, <2>2
<1> QED BY <1>1

\* A history with an event added at one finding.
Extended(h, f, e) ==
  /\ h \in Seq(Seq(Event)) /\ Len(h) = Len(history)
  /\ \A g \in Ids : g # f => h[g] = history[g]
  /\ DOMAIN h[f] = DOMAIN history[f] \cup {Len(history[f]) + 1}
  /\ \A n \in DOMAIN history[f] : h[f][n] = history[f][n]
  /\ h[f][Len(history[f]) + 1] = e
  /\ Len(history[f]) \in Nat /\ DOMAIN history[f] = 1..Len(history[f])

LEMMA EventAdded ==
  ASSUME HistoryRows, NEW f \in Ids, NEW id \in Seq(Nat),
         NEW state \in TRIAGE_OPERATOR_STATES \cup {"new"},
         NEW h, h = AppendEvent(f, id, state)
  PROVE  Extended(h, f, [id |-> id, triage |-> state])
<1>1. PICK e : e = [id |-> id, triage |-> state]
  OBVIOUS
<1>2. e \in Event
  BY <1>1 DEF Event
<1>3. PICK old : old = history[f]
  OBVIOUS
<1>4. old \in Seq(Event) /\ f \in DOMAIN history
  BY <1>3 DEF HistoryRows, Ids
<1>5. PICK new : new = Append(old, e)
  OBVIOUS
<1>6. /\ new \in Seq(Event) /\ Len(old) \in Nat
      /\ DOMAIN new = DOMAIN old \cup {Len(old) + 1} /\ DOMAIN old = 1..Len(old)
      /\ \A n \in DOMAIN old : new[n] = old[n]
      /\ new[Len(old) + 1] = e
  BY <1>2, <1>4, <1>5
<1>7. h = [history EXCEPT ![f] = new]
  BY <1>1, <1>3, <1>5 DEF AppendEvent
<1>8. /\ [history EXCEPT ![f] = new] \in Seq(Seq(Event))
      /\ Len([history EXCEPT ![f] = new]) = Len(history)
      /\ [history EXCEPT ![f] = new][f] = new
      /\ \A g \in Ids : g # f => [history EXCEPT ![f] = new][g] = history[g]
  BY <1>4, <1>6 DEF HistoryRows, Ids
<1> QED BY <1>1, <1>3, <1>6, <1>7, <1>8 DEF Extended

LEMMA AddingLengthens ==
  ASSUME HistoryRows, NEW f \in Ids, NEW id \in Seq(Nat),
         NEW state \in TRIAGE_OPERATOR_STATES \cup {"new"},
         NEW h, h = AppendEvent(f, id, state), history' = h, UNCHANGED findings
  PROVE  Lengthens
<1>1. Extended(h, f, [id |-> id, triage |-> state])
  BY EventAdded
<1> QED BY <1>1 DEF Extended, Lengthens, HistoryRows, Ids

LEMMA SameLengthens ==
  ASSUME HistoryRows, UNCHANGED history, Len(findings') = Len(findings), DOMAIN findings' = DOMAIN findings
  PROVE  Lengthens
BY DEF HistoryRows, Lengthens, Ids

LEMMA ClockNatural == ASSUME HistoryRows PROVE clock \in Nat
BY LedgerConstants DEF HistoryRows

\* What a step of a submission does to rows and history.
LEMMA SubmissionLogs ==
  ASSUME LedgerIInv, HistoryInv, NEW s \in Submitters,
         \/ SubmitStageResult(s) \/ SkipUntitled(s) \/ LookUpFingerprint(s)
         \/ UpsertFinding(s) \/ RecordSighting(s) \/ ReportAcceptance(s)
         \/ SubmissionFails(s)
  PROVE  HistoryInv'
<1>1. HistoryRows /\ findings \in Seq(Row) /\ clock \in Nat
  BY ClockNatural DEF HistoryInv, LedgerIInv, LedgerRows
<1>2. UNCHANGED <<clock, scenario, triage>>
  BY DEF SubmitStageResult, SkipUntitled, LookUpFingerprint, UpsertFinding, RecordSighting,
         ReportAcceptance, SubmissionFails
<1>3. call[s] \in Submission /\ call[s].row \in Ids \cup {0}
  BY CallType DEF HistoryInv, HistoryRows
<1>4. /\ Lengthens
      /\ Len(findings') <= MaxRows
      /\ \E a : call' = [call EXCEPT ![s] = a] /\ a.row \in Ids' \cup {0}
  <2>1. CASE SubmitStageResult(s)
    <3>1. Lengthens /\ UNCHANGED findings
      BY <1>1, <2>1, SameLengthens DEF SubmitStageResult
    <3>2. PICK run, pack :
            call' = [call EXCEPT ![s] =
                       [pc |-> "lookup", run |-> run, pack |-> pack, at |-> 1, row |-> 0]]
      BY <2>1 DEF SubmitStageResult
    <3>3. PICK a : a = [pc |-> "lookup", run |-> run, pack |-> pack, at |-> 1, row |-> 0]
      OBVIOUS
    <3>4. call' = [call EXCEPT ![s] = a] /\ a.row = 0
      BY <3>2, <3>3
    <3> QED BY <1>1, <3>1, <3>4 DEF HistoryRows
  <2>2. CASE SkipUntitled(s) \/ ReportAcceptance(s) \/ SubmissionFails(s)
    <3>1. Lengthens /\ UNCHANGED findings
      BY <1>1, <2>2, SameLengthens DEF SkipUntitled, ReportAcceptance, SubmissionFails
    <3>2. PICK a : /\ a = [call[s] EXCEPT !.at = @ + 1] \/ a = [call[s] EXCEPT !.pc = "done"]
                      \/ a = [call[s] EXCEPT !.pc = "failed"]
                   /\ call' = [call EXCEPT ![s] = a]
      BY <2>2 DEF SkipUntitled, ReportAcceptance, SubmissionFails, LedgerIInv, LedgerRows
    <3>3. a.row = call[s].row
      BY <1>3, <3>2 DEF Submission
    <3>4. Ids' = Ids
      BY <3>1 DEF Ids
    <3> QED BY <1>1, <1>3, <3>1, <3>2, <3>3, <3>4 DEF HistoryRows
  <2>3. CASE LookUpFingerprint(s)
    <3>1. Lengthens /\ UNCHANGED findings
      BY <1>1, <2>3, SameLengthens DEF LookUpFingerprint
    <3>2. PICK row : /\ row \in Ids \cup {0}
                     /\ call' = [call EXCEPT ![s].row = row, ![s].pc = "write"]
      BY <2>3 DEF LookUpFingerprint, RowsWith
    <3>3. PICK a : a = [call[s] EXCEPT !.row = row, !.pc = "write"]
      OBVIOUS
    <3>4. call' = [call EXCEPT ![s] = a] /\ a.row = row
      BY <1>3, <3>2, <3>3 DEF Submission, LedgerIInv, LedgerRows
    <3>5. Ids' = Ids
      BY <3>1 DEF Ids
    <3> QED BY <1>1, <3>1, <3>2, <3>4, <3>5 DEF HistoryRows
  <2>4. CASE UpsertFinding(s)
    <3>1. CASE call[s].row # 0
      <4>1. PICK row \in Ids : row = call[s].row
        BY <1>3, <3>1
      <4>2. /\ findings' = [findings EXCEPT ![row] = SeenAgain(@, call[s].run)]
            /\ call' = [call EXCEPT ![s].pc = "event"] /\ UNCHANGED history
        BY <2>4, <3>1, <4>1 DEF UpsertFinding
      <4>3. Len(findings') = Len(findings) /\ DOMAIN findings' = DOMAIN findings
        BY <1>1, <4>1, <4>2 DEF Ids
      <4>4. PICK a : a = [call[s] EXCEPT !.pc = "event"]
        OBVIOUS
      <4>5. call' = [call EXCEPT ![s] = a] /\ a.row = call[s].row
        BY <1>3, <4>2, <4>4 DEF Submission, LedgerIInv, LedgerRows
      <4> QED BY <1>1, <1>3, <4>2, <4>3, <4>5, SameLengthens DEF HistoryRows, Ids
    <3>2. CASE call[s].row = 0
      <4> PICK new \in Nat : new = Len(findings) + 1
        BY <1>1
      <4> PICK added : added = [fingerprint |-> call[s].pack[call[s].at], triage |-> "new",
                                lastSeen |-> call[s].run, version |-> 0]
        OBVIOUS
      <4>1. /\ new = Len(findings) + 1 /\ new \in Rows
            /\ findings' = Append(findings, added)
            /\ history' = Append(history, <<>>)
            /\ call' = [call EXCEPT ![s].row = new, ![s].pc = "event"]
        BY <2>4, <3>2 DEF UpsertFinding
      <4>2. /\ DOMAIN findings' = DOMAIN findings \cup {new} /\ Len(findings') = new
            /\ new <= MaxRows
        BY <1>1, <4>1 DEF Rows
      <4>3. Lengthens
        BY <1>1, <4>1, <4>2 DEF Lengthens, HistoryRows, Ids
      <4>4. PICK a : a = [call[s] EXCEPT !.row = new, !.pc = "event"]
        OBVIOUS
      <4>5. call' = [call EXCEPT ![s] = a] /\ a.row = new
        BY <1>3, <4>1, <4>4 DEF Submission, LedgerIInv, LedgerRows
      <4> QED BY <4>2, <4>3, <4>5 DEF Ids
    <3> QED BY <3>1, <3>2
  <2>5. CASE RecordSighting(s)
    <3>1. call[s].row \in Ids /\ UNCHANGED findings
      BY <1>1, <2>5, CallType DEF RecordSighting, Progress, RowsWith
    <3>2. CASE call' = [call EXCEPT ![s].pc = "failed"] /\ UNCHANGED history
      <4>1. PICK a : a = [call[s] EXCEPT !.pc = "failed"]
        OBVIOUS
      <4>2. call' = [call EXCEPT ![s] = a] /\ a.row = call[s].row
        BY <1>3, <3>2, <4>1 DEF Submission, LedgerIInv, LedgerRows
      <4> QED BY <1>1, <3>1, <3>2, <4>2, SameLengthens DEF HistoryRows, Ids
    <3>3. CASE /\ call' = [call EXCEPT ![s].pc = "lookup", ![s].at = @ + 1, ![s].row = 0]
               /\ history' = AppendEvent(call[s].row, <<clock>>, "new")
      <4>1. PICK a : a = [call[s] EXCEPT !.pc = "lookup", !.at = @ + 1, !.row = 0]
        OBVIOUS
      <4>2. call' = [call EXCEPT ![s] = a] /\ a.row = 0
        BY <1>3, <3>3, <4>1 DEF Submission, LedgerIInv, LedgerRows
      <4>3. <<clock>> \in Seq(Nat)
        BY <1>1
      <4>4. Lengthens
        BY <1>1, <3>1, <3>3, <4>3, AddingLengthens
      <4> QED BY <1>1, <3>1, <4>2, <4>4 DEF HistoryRows
    <3> QED BY <2>5, <3>2, <3>3 DEF RecordSighting
  <2> QED BY <2>1, <2>2, <2>3, <2>4, <2>5
<1>5. HistoryRows'
  <2>1. PICK a : call' = [call EXCEPT ![s] = a] /\ a.row \in Ids' \cup {0}
    BY <1>4
  <2>2. \A t \in Submitters : call'[t] = IF t = s THEN a ELSE call[t]
    BY <2>1 DEF LedgerIInv, LedgerRows
  <2> QED BY <1>1, <1>2, <1>4, <2>1, <2>2 DEF HistoryRows, Lengthens
<1> QED BY <1>2, <1>4, <1>5, LogsUnmoved DEF HistoryInv

\* A triage that goes on, ends or fails, with what it has logged by then.
LEMMA TriageTouches ==
  ASSUME LedgerIInv, HistoryInv, Lengthens, UNCHANGED <<clock, scenario, call>>,
         DOMAIN findings' = DOMAIN findings, Len(findings') = Len(findings),
         NEW o \in Triagers, NEW a, triage' = [triage EXCEPT ![o] = a], Logs(a)'
  PROVE  HistoryInv'
<1>1. HistoryRows'
  BY DEF HistoryInv, HistoryRows, Lengthens, Ids
<1> QED BY <1>1, LogsMove DEF HistoryInv

LEMMA StartTriageLogs ==
  ASSUME LedgerIInv, HistoryInv, NEW o \in Triagers, StartTriage(o) PROVE HistoryInv'
<1>1. PICK selected \in (SUBSET Rows) \ {{}}, state \in RequestedStates :
         triage' = [triage EXCEPT ![o] =
           [pc |-> IF MayTriage(selected, state) THEN "update" ELSE "refused",
            selected |-> selected, todo |-> selected, state |-> state, version |-> 0]]
  BY DEF StartTriage
<1>2. PICK a : a = [pc |-> IF MayTriage(selected, state) THEN "update" ELSE "refused",
                    selected |-> selected, todo |-> selected, state |-> state, version |-> 0]
  OBVIOUS
<1>3. UNCHANGED <<findings, history, accepted, clock, scenario, call>> /\ Lengthens
  BY SameLengthens DEF StartTriage, HistoryInv
<1>4. Ids' = Ids
  BY <1>3 DEF Ids
<1>5. Logs(a)'
  BY <1>2, <1>4 DEF Logs, MayTriage
<1>6. triage' = [triage EXCEPT ![o] = a]
  BY <1>1, <1>2
<1> QED BY <1>3, <1>5, <1>6, TriageTouches

LEMMA SetStateLogs ==
  ASSUME LedgerIInv, HistoryInv, NEW o \in Triagers, SetTriageState(o) PROVE HistoryInv'
<1>1. PICK a : a = [triage[o] EXCEPT !.pc = "read"]
  OBVIOUS
<1>2. triage[o] \in TriageCall /\ triage[o].pc = "update" /\ Logs(triage[o])
  BY TriageType DEF SetTriageState, HistoryInv
<1>3. triage' = [triage EXCEPT ![o] = a]
  BY <1>1 DEF SetTriageState, LedgerIInv, LedgerRows
<1>4. findings \in Seq(Row)
  BY DEF LedgerIInv, LedgerRows
<1>5. PICK f : f = NextFinding(o)
  OBVIOUS
<1>6. findings' = [findings EXCEPT ![f].triage = triage[o].state, ![f].version = @ + 1]
  BY <1>5 DEF SetTriageState
<1>7. DOMAIN findings' = DOMAIN findings /\ Len(findings') = Len(findings)
  BY <1>4, <1>6
<1>8. Lengthens
  BY <1>7, SameLengthens DEF SetTriageState, HistoryInv
<1>9. PICK b : b = triage[o]
  OBVIOUS
<1>10. Logs(b)'
  BY <1>2, <1>8, <1>9, LogsStay
<1>11. a.pc = "read" /\ a.todo = b.todo /\ a.selected = b.selected /\ a.state = b.state
       /\ b.pc = "update"
  BY <1>1, <1>2, <1>9 DEF TriageCall
<1>12. Logs(a)'
  BY <1>10, <1>11 DEF Logs
<1> QED BY <1>3, <1>7, <1>8, <1>12, TriageTouches DEF SetTriageState

LEMMA ReadBackLogs ==
  ASSUME LedgerIInv, HistoryInv, NEW o \in Triagers, ReadBack(o) \/ TriageFails(o)
  PROVE  HistoryInv'
<1>1. triage[o] \in TriageCall /\ Logs(triage[o])
  BY TriageType DEF HistoryInv
<1>2. UNCHANGED <<findings, history, accepted, clock, scenario, call>> /\ Lengthens
  BY SameLengthens DEF ReadBack, TriageFails, HistoryInv
<1>3. PICK b : b = triage[o]
  OBVIOUS
<1>4. Logs(b)'
  BY <1>1, <1>2, <1>3, LogsStay
<1>5. PICK a : /\ triage' = [triage EXCEPT ![o] = a]
               /\ a.todo = b.todo /\ a.selected = b.selected /\ a.state = b.state
               /\ \/ a.pc = "failed"
                  \/ a.pc = "event" /\ b.pc = "read"
  <2>1. CASE ReadBack(o)
    <3>1. PICK a : a = [triage[o] EXCEPT !.version = findings[NextFinding(o)].version, !.pc = "event"]
      OBVIOUS
    <3>2. a.todo = b.todo /\ a.selected = b.selected /\ a.state = b.state /\ a.pc = "event"
      BY <1>1, <1>3, <3>1 DEF TriageCall
    <3>3. triage' = [triage EXCEPT ![o] = a]
      BY <2>1, <3>1 DEF ReadBack, LedgerIInv, LedgerRows
    <3> QED BY <1>3, <2>1, <3>2, <3>3 DEF ReadBack
  <2>2. CASE TriageFails(o)
    <3>1. PICK a : a = [triage[o] EXCEPT !.pc = "failed"]
      OBVIOUS
    <3>2. a.todo = b.todo /\ a.selected = b.selected /\ a.state = b.state /\ a.pc = "failed"
      BY <1>1, <1>3, <3>1 DEF TriageCall
    <3>3. triage' = [triage EXCEPT ![o] = a]
      BY <2>2, <3>1 DEF TriageFails, LedgerIInv, LedgerRows
    <3> QED BY <3>2, <3>3
  <2> QED BY <2>1, <2>2
<1>6. Logs(a)'
  BY <1>4, <1>5 DEF Logs
<1> QED BY <1>2, <1>5, <1>6, TriageTouches

\* The decision is in the history before the command goes on to the next one.
LEMMA RecordDecisionLogs ==
  ASSUME LedgerIInv, HistoryInv, NEW o \in Triagers, RecordDecision(o) PROVE HistoryInv'
<1>1. triage[o] \in TriageCall /\ Logs(triage[o]) /\ triage[o].pc = "event"
      /\ Admitted(triage[o])
  BY TriageType DEF RecordDecision, HistoryInv
<1>2. PICK b : b = triage[o]
  OBVIOUS
<1>3. PICK f \in Ids : f = NextFinding(o) /\ f \in b.todo
  BY <1>1, <1>2, NextIsLeft
<1>4. UNCHANGED <<findings, accepted, clock, scenario, call>> /\ HistoryRows
  BY DEF RecordDecision, HistoryInv
<1>5. PICK id \in Seq(Nat) : id = <<clock, b.version>>
  <2>1. clock \in Nat /\ b.version \in Nat
    BY <1>1, <1>2, <1>4, ClockNatural DEF TriageCall
  <2>2. <<clock, b.version>> \in Seq(Nat)
    BY <2>1
  <2> QED BY <2>2
<1>6. CASE triage' = [triage EXCEPT ![o].pc = "failed"] /\ UNCHANGED history
  <2>1. PICK a : a = [triage[o] EXCEPT !.pc = "failed"]
    OBVIOUS
  <2>2. a.todo = b.todo /\ a.selected = b.selected /\ a.pc = "failed"
    BY <1>1, <1>2, <2>1 DEF TriageCall
  <2>3. triage' = [triage EXCEPT ![o] = a]
    BY <1>6, <2>1 DEF LedgerIInv, LedgerRows
  <2>4. Logs(a)'
    BY <1>1, <1>2, <2>2 DEF Logs
  <2> QED BY <1>4, <1>6, <2>3, <2>4, TriageTouches, SameLengthens
<1>7. CASE /\ history' = AppendEvent(f, id, b.state)
           /\ triage' = [triage EXCEPT ![o].todo = b.todo \ {f},
                                       ![o].pc = IF b.todo \ {f} = {} THEN "done" ELSE "update"]
  <2>1. b.state \in TRIAGE_OPERATOR_STATES
    BY <1>1, <1>2 DEF Admitted
  <2>2. Lengthens
    BY <1>4, <1>7, <2>1, AddingLengthens
  <2>3. PICK h : h = AppendEvent(f, id, b.state)
    OBVIOUS
  <2>4. Decided(f, b.state)'
    <3>1. /\ DOMAIN h[f] = DOMAIN history[f] \cup {Len(history[f]) + 1}
          /\ h[f][Len(history[f]) + 1] = [id |-> id, triage |-> b.state]
      BY <1>4, <2>1, <2>3, EventAdded DEF Extended
    <3>2. Len(id) = 2
      BY <1>5
    <3> QED BY <1>7, <2>3, <3>1, <3>2 DEF Decided, Decision
  <2>5. Logs(b)'
    BY <1>1, <1>2, <2>2, LogsStay
  <2>6. PICK a : a = [triage[o] EXCEPT !.todo = b.todo \ {f},
                                       !.pc = IF b.todo \ {f} = {} THEN "done" ELSE "update"]
    OBVIOUS
  <2>7. /\ a.todo = b.todo \ {f} /\ a.selected = b.selected /\ a.state = b.state
        /\ a.pc = IF b.todo \ {f} = {} THEN "done" ELSE "update"
    BY <1>1, <1>2, <2>6 DEF TriageCall
  <2>8. triage' = [triage EXCEPT ![o] = a]
    BY <1>2, <1>7, <2>6 DEF LedgerIInv, LedgerRows
  <2>9. Logs(a)'
    BY <1>1, <1>2, <2>4, <2>5, <2>7 DEF Logs
  <2> QED BY <1>4, <2>2, <2>8, <2>9, TriageTouches
<1> QED BY <1>2, <1>3, <1>5, <1>6, <1>7 DEF RecordDecision

LEMMA HistoryInductive ==
  LedgerIInv /\ HistoryInv /\ [LedgerNext]_ledgerVars => HistoryInv'
<1> SUFFICES ASSUME LedgerIInv, HistoryInv, [LedgerNext]_ledgerVars PROVE HistoryInv'
  OBVIOUS
<1>1. ASSUME NEW s \in Submitters,
             \/ SubmitStageResult(s) \/ SkipUntitled(s) \/ LookUpFingerprint(s)
             \/ UpsertFinding(s) \/ RecordSighting(s) \/ ReportAcceptance(s)
             \/ SubmissionFails(s)
      PROVE  HistoryInv'
  BY <1>1, SubmissionLogs
<1>2. ASSUME NEW o \in Triagers,
             \/ StartTriage(o) \/ SetTriageState(o) \/ ReadBack(o) \/ RecordDecision(o)
             \/ TriageFails(o)
      PROVE  HistoryInv'
  BY <1>2, StartTriageLogs, SetStateLogs, ReadBackLogs, RecordDecisionLogs
<1>3. CASE Second \/ UNCHANGED ledgerVars
  <2>1. UNCHANGED <<findings, history, scenario, call, triage>> /\ clock' \in 0..MaxClock
    BY <1>3, ClockNatural, LedgerConstants DEF Second, ledgerVars, HistoryInv, HistoryRows
  <2>2. HistoryRows'
    BY <2>1 DEF HistoryInv, HistoryRows, Ids
  <2>3. Lengthens
    BY <2>1, SameLengthens DEF HistoryInv
  <2> QED BY <2>1, <2>2, <2>3, LogsUnmoved DEF HistoryInv
<1> QED BY <1>1, <1>2, <1>3 DEF LedgerNext

LEMMA HistoryAlways == LedgerSpec => []HistoryInv
BY HistoryInitial, HistoryInductive, LedgerAlways, PTL DEF LedgerSpec

------------------------------------------------------------------------------
\* Commands that do not overlap: one row per fingerprint, and a history that
\* explains every row.

LEMMA GreatestNatural ==
  ASSUME NEW L \in Nat, NEW T \in SUBSET (1..L), T # {}
  PROVE  \E x \in T : \A y \in T : y <= x
<1> DEFINE M == {L - x : x \in T}
<1>1. M \in SUBSET Nat /\ M # {}
  <2>1. \A x \in T : L - x \in Nat
    OBVIOUS
  <2>2. PICK x \in T : TRUE
    OBVIOUS
  <2>3. L - x \in M
    OBVIOUS
  <2> QED BY <2>1, <2>3
<1>2. PICK m \in M : \A k \in M : m <= k
  BY <1>1, LeastNatural
<1>3. PICK x \in T : m = L - x
  BY <1>2
<1>4. ASSUME NEW y \in T PROVE y <= x
  <2>1. m <= L - y
    BY <1>2
  <2> QED BY <1>3, <2>1
<1> QED BY <1>4

\* The last decision of one history.
LastIn(h) ==
  LET decided == {n \in DOMAIN h : Len(h[n].id) = 2} IN
  IF decided = {} THEN "new" ELSE h[CHOOSE n \in decided : \A k \in decided : k <= n].triage

LEMMA LastAgrees == \A f : LastDecision(f) = LastIn(history[f])
BY DEF LastDecision, LastIn

LEMMA NothingDecided == LastIn(<<>>) = "new"
BY DEF LastIn

\* A sighting decides nothing, a decision is the last one.
LEMMA SightingAdded ==
  ASSUME NEW h, NEW L \in Nat, DOMAIN h = 1..L, NEW g, DOMAIN g = 1..(L + 1),
         \A n \in DOMAIN h : g[n] = h[n], ~ Decision(g[L + 1])
  PROVE  LastIn(g) = LastIn(h)
<1> DEFINE D == {n \in DOMAIN h : Len(h[n].id) = 2}
<1>1. {n \in DOMAIN g : Len(g[n].id) = 2} = D
  BY DEF Decision
<1>2. CASE D = {}
  BY <1>1, <1>2 DEF LastIn
<1>3. CASE D # {}
  <2>1. PICK m : m = CHOOSE n \in D : \A k \in D : k <= n
    OBVIOUS
  <2>2. \E x \in D : \A y \in D : y <= x
    BY <1>3, GreatestNatural
  <2>3. m \in D
    BY <2>1, <2>2, Zenon
  <2>4. g[m] = h[m]
    BY <2>3
  <2>5. LastIn(h) = h[m].triage
    BY <1>3, <2>1 DEF LastIn
  <2>6. LastIn(g) = g[m].triage
    BY <1>1, <1>3, <2>1 DEF LastIn
  <2> QED BY <2>4, <2>5, <2>6
<1> QED BY <1>2, <1>3

LEMMA DecisionAdded ==
  ASSUME NEW L \in Nat, NEW g, DOMAIN g = 1..(L + 1), Decision(g[L + 1])
  PROVE  LastIn(g) = g[L + 1].triage
<1> DEFINE D == {n \in DOMAIN g : Len(g[n].id) = 2}
<1>1. L + 1 \in D /\ \A k \in D : k <= L + 1 /\ k \in Nat
  BY DEF Decision
<1>2. PICK m : m = CHOOSE n \in D : \A k \in D : k <= n
  OBVIOUS
<1>3. m \in D /\ \A k \in D : k <= m
  BY <1>1, <1>2, Zenon
<1>4. m = L + 1
  BY <1>1, <1>3
<1> QED BY <1>1, <1>2, <1>4 DEF LastIn

\* At most one command is on its way.
Alone ==
  /\ \A s, t \in Submitters : call[s].pc \notin Ended /\ call[t].pc \notin Ended => s = t
  /\ \A o, q \in Triagers : triage[o].pc \notin Ended /\ triage[q].pc \notin Ended => o = q
  /\ \A s \in Submitters, o \in Triagers : call[s].pc \in Ended \/ triage[o].pc \in Ended

OneRow == \A f, g \in Ids : findings[f].fingerprint = findings[g].fingerprint => f = g

\* A submission that is about to insert a row still finds none.
FreshWrites ==
  \A s \in Submitters : call[s].pc = "write" /\ call[s].row = 0 =>
    RowsWith(call[s].pack[call[s].at]) = {}

\* The row a triage has written and not yet logged has the state it asked for.
StateSet ==
  \A o \in Triagers : triage[o].pc \in {"read", "event"} =>
    findings[NextFinding(o)].triage = triage[o].state

\* A triage wrote the finding and has not logged it, or failed before it did.
Unlogged(o, f) ==
  /\ triage[o].pc \in {"read", "event", "failed"} /\ f = NextFinding(o)
  /\ findings[f].triage = triage[o].state

Explained(f) == findings[f].triage = LastIn(history[f]) \/ \E o \in Triagers : Unlogged(o, f)

SerialInv ==
  scenario.serial => /\ Alone /\ OneRow /\ FreshWrites /\ StateSet
                     /\ \A f \in Ids : Explained(f)

LEMMA SerialInitial == LedgerInit => SerialInv
BY DEF LedgerInit, SerialInv, Alone, OneRow, FreshWrites, StateSet, Ids, Ended

\* A command that may start, or is on its way already, is the only one.
LEMMA SubmissionAlone ==
  ASSUME Alone, LedgerIInv, NEW s \in Submitters, NEW a, call' = [call EXCEPT ![s] = a],
         UNCHANGED triage, Quiet \/ call[s].pc \notin Ended
  PROVE  /\ Alone'
         /\ \A o \in Triagers : triage[o].pc \in Ended
         /\ \A t \in Submitters : t # s => call[t].pc \in Ended /\ call'[t] = call[t]
<1>1. \A o \in Triagers : triage[o].pc \in Ended
  BY DEF Alone, Quiet
<1>2. \A t \in Submitters : t # s => call[t].pc \in Ended /\ call'[t] = call[t]
  BY DEF Alone, Quiet, LedgerIInv, LedgerRows
<1> QED BY <1>1, <1>2 DEF Alone

LEMMA TriageAlone ==
  ASSUME Alone, LedgerIInv, NEW o \in Triagers, NEW a, triage' = [triage EXCEPT ![o] = a],
         UNCHANGED call, Quiet \/ triage[o].pc \notin Ended
  PROVE  /\ Alone'
         /\ \A s \in Submitters : call[s].pc \in Ended
         /\ \A q \in Triagers : q # o => triage[q].pc \in Ended /\ triage'[q] = triage[q]
<1>1. \A s \in Submitters : call[s].pc \in Ended
  BY DEF Alone, Quiet
<1>2. \A q \in Triagers : q # o => triage[q].pc \in Ended /\ triage'[q] = triage[q]
  BY DEF Alone, Quiet, LedgerIInv, LedgerRows
<1> QED BY <1>1, <1>2 DEF Alone

\* A row whose state and history keep what they said stays explained.
LEMMA ExplainedStays ==
  ASSUME NEW f \in Ids, Explained(f), findings'[f].triage = findings[f].triage,
         LastIn(history'[f]) = LastIn(history[f]), UNCHANGED triage
  PROVE  Explained(f)'
BY DEF Explained, Unlogged, NextFinding

LEMMA SubmissionSerial ==
  ASSUME LedgerIInv, SerialInv, NEW s \in Submitters, NEW a, call' = [call EXCEPT ![s] = a],
         UNCHANGED <<scenario, triage>>, scenario.serial => Quiet \/ call[s].pc \notin Ended,
         scenario.serial =>
           /\ OneRow' /\ \A f \in Ids' : Explained(f)'
           /\ a.pc = "write" /\ a.row = 0 => RowsWith(a.pack[a.at])' = {}
  PROVE  SerialInv'
<1> SUFFICES ASSUME scenario.serial
             PROVE  /\ Alone' /\ OneRow' /\ FreshWrites' /\ StateSet'
                    /\ \A f \in Ids' : Explained(f)'
  BY DEF SerialInv
<1>1. /\ Alone'
      /\ \A o \in Triagers : triage[o].pc \in Ended
      /\ \A t \in Submitters : t # s => call[t].pc \in Ended /\ call'[t] = call[t]
  BY SubmissionAlone DEF SerialInv
<1>2. call'[s] = a
  BY DEF LedgerIInv, LedgerRows
<1>3. FreshWrites'
  BY <1>1, <1>2 DEF FreshWrites, Ended
<1>4. StateSet'
  BY <1>1 DEF StateSet, Ended
<1> QED BY <1>1, <1>3, <1>4

LEMMA RowsUnchanged ==
  ASSUME SerialInv, scenario.serial, UNCHANGED <<findings, history, triage>>
  PROVE  OneRow' /\ \A f \in Ids' : Explained(f)'
<1>1. Ids' = Ids
  BY DEF Ids
<1>2. \A f \in Ids : Explained(f)'
  BY ExplainedStays DEF SerialInv
<1> QED BY <1>1, <1>2 DEF SerialInv, OneRow

\* Submissions that leave the rows and the history alone.
LEMMA MovingSerial ==
  ASSUME LedgerIInv, SerialInv, NEW s \in Submitters,
         \/ SubmitStageResult(s) \/ SkipUntitled(s) \/ LookUpFingerprint(s)
         \/ ReportAcceptance(s) \/ SubmissionFails(s)
  PROVE  SerialInv'
<1>1. UNCHANGED <<findings, history, clock, scenario, triage>>
  BY DEF SubmitStageResult, SkipUntitled, LookUpFingerprint, ReportAcceptance, SubmissionFails
<1>2. scenario.serial => Quiet \/ call[s].pc \notin Ended
  BY DEF SubmitStageResult, MayStart, SkipUntitled, LookUpFingerprint, ReportAcceptance,
         SubmissionFails, Ended
<1>3. call[s] \in Submission
  BY CallType
<1>4. PICK a : /\ call' = [call EXCEPT ![s] = a]
               /\ a.pc = "write" /\ a.row = 0 => RowsWith(a.pack[a.at])' = {}
  <2>1. CASE SubmitStageResult(s)
    <3>1. PICK run, pack :
            call' = [call EXCEPT ![s] =
                       [pc |-> "lookup", run |-> run, pack |-> pack, at |-> 1, row |-> 0]]
      BY <2>1 DEF SubmitStageResult
    <3>2. PICK a : a = [pc |-> "lookup", run |-> run, pack |-> pack, at |-> 1, row |-> 0]
      OBVIOUS
    <3>3. call' = [call EXCEPT ![s] = a] /\ a.pc # "write"
      BY <3>1, <3>2
    <3> QED BY <3>3
  <2>2. CASE SkipUntitled(s) \/ ReportAcceptance(s) \/ SubmissionFails(s)
    <3>1. PICK a : /\ \/ a = [call[s] EXCEPT !.at = @ + 1] /\ call[s].pc = "lookup"
                      \/ a = [call[s] EXCEPT !.pc = "done"]
                      \/ a = [call[s] EXCEPT !.pc = "failed"]
                   /\ call' = [call EXCEPT ![s] = a]
      BY <2>2 DEF SkipUntitled, ReportAcceptance, SubmissionFails, LedgerIInv, LedgerRows
    <3>2. a.pc # "write"
      BY <1>3, <3>1 DEF Submission
    <3> QED BY <3>1, <3>2
  <2>3. CASE LookUpFingerprint(s)
    <3> PICK fp : fp = call[s].pack[call[s].at]
      OBVIOUS
    <3>1. PICK row : /\ row \in IF RowsWith(fp) = {} THEN {0} ELSE RowsWith(fp)
                     /\ call' = [call EXCEPT ![s].row = row, ![s].pc = "write"]
      BY <2>3 DEF LookUpFingerprint
    <3>2. PICK a : a = [call[s] EXCEPT !.row = row, !.pc = "write"]
      OBVIOUS
    <3>3. call' = [call EXCEPT ![s] = a] /\ a.row = row /\ a.pack[a.at] = fp
      BY <1>3, <3>1, <3>2 DEF Submission, LedgerIInv, LedgerRows
    <3>4. 0 \notin RowsWith(fp)
      BY DEF RowsWith, Ids, LedgerIInv, LedgerRows
    <3>5. RowsWith(fp)' = RowsWith(fp)
      BY <1>1 DEF RowsWith, Ids
    <3> QED BY <3>1, <3>3, <3>4, <3>5
  <2> QED BY <2>1, <2>2, <2>3
<1> QED BY <1>1, <1>2, <1>4, RowsUnchanged, SubmissionSerial

\* An update keeps what was decided; an insert adds the only row of its
\* fingerprint, undecided.
LEMMA UpsertSerial ==
  ASSUME LedgerIInv, HistoryInv, SerialInv, NEW s \in Submitters, UpsertFinding(s)
  PROVE  SerialInv'
<1>1. call[s] \in Submission /\ Progress(s) /\ call[s].pc = "write" /\ call[s].run \in Runs
  BY CallType DEF UpsertFinding, Progress
<1>2. findings \in Seq(Row) /\ history \in Seq(Seq(Event)) /\ Len(history) = Len(findings)
  BY DEF LedgerIInv, LedgerRows, HistoryInv, HistoryRows
<1>3. UNCHANGED <<scenario, triage>> /\ call[s].pc \notin Ended
  BY <1>1 DEF UpsertFinding, Ended
<1>4. CASE call[s].row # 0
  <2>1. PICK row : row = call[s].row
    OBVIOUS
  <2>2. row \in Ids
    BY <1>1, <1>4, <2>1 DEF Progress, RowsWith
  <2>3. /\ findings' = [findings EXCEPT ![row] = SeenAgain(@, call[s].run)]
        /\ call' = [call EXCEPT ![s].pc = "event"] /\ UNCHANGED history
    BY <1>4, <2>1 DEF UpsertFinding
  <2>4. PICK seen : seen = SeenAgain(findings[row], call[s].run)
    OBVIOUS
  <2>5. seen.fingerprint = findings[row].fingerprint /\ seen.triage = findings[row].triage
    BY <1>1, <1>2, <2>2, <2>4, SightedRow DEF Ids
  <2>6. findings' = [findings EXCEPT ![row] = seen]
    BY <2>3, <2>4
  <2>7. /\ Ids' = Ids
        /\ \A f \in Ids : /\ findings'[f].fingerprint = findings[f].fingerprint
                          /\ findings'[f].triage = findings[f].triage
    BY <1>2, <2>2, <2>5, <2>6 DEF Ids
  <2>8. PICK a : a = [call[s] EXCEPT !.pc = "event"]
    OBVIOUS
  <2>9. call' = [call EXCEPT ![s] = a] /\ a.pc = "event"
    BY <1>1, <2>3, <2>8 DEF Submission, LedgerIInv, LedgerRows
  <2>10. ASSUME scenario.serial PROVE OneRow' /\ \A f \in Ids' : Explained(f)'
    <3>1. OneRow'
      BY <2>7, <2>10 DEF SerialInv, OneRow
    <3>2. \A f \in Ids : Explained(f)'
      BY <1>3, <2>3, <2>7, <2>10, ExplainedStays DEF SerialInv
    <3> QED BY <2>7, <3>1, <3>2
  <2> QED BY <1>3, <2>9, <2>10, SubmissionSerial
<1>5. CASE call[s].row = 0
  <2> PICK new \in Nat : new = Len(findings) + 1
    BY <1>2
  <2> PICK fp : fp = call[s].pack[call[s].at]
    OBVIOUS
  <2> PICK added : added = [fingerprint |-> fp, triage |-> "new",
                            lastSeen |-> call[s].run, version |-> 0]
    OBVIOUS
  <2>1. /\ findings' = Append(findings, added)
        /\ history' = Append(history, <<>>)
        /\ call' = [call EXCEPT ![s].row = new, ![s].pc = "event"]
    BY <1>5 DEF UpsertFinding
  <2>2. /\ Ids' = Ids \cup {new} /\ new \notin Ids
        /\ findings'[new] = added /\ history'[new] = <<>>
        /\ \A f \in Ids : findings'[f] = findings[f] /\ history'[f] = history[f]
    BY <1>2, <2>1 DEF Ids
  <2>3. PICK a : a = [call[s] EXCEPT !.row = new, !.pc = "event"]
    OBVIOUS
  <2>4. call' = [call EXCEPT ![s] = a] /\ a.pc = "event"
    BY <1>1, <2>1, <2>3 DEF Submission, LedgerIInv, LedgerRows
  <2>5. ASSUME scenario.serial PROVE OneRow' /\ \A f \in Ids' : Explained(f)'
    <3>1. RowsWith(fp) = {} /\ OneRow
      BY <1>1, <1>5, <2>5 DEF SerialInv, FreshWrites
    <3>2. \A f \in Ids : findings[f].fingerprint # fp
      BY <3>1 DEF RowsWith
    <3>3. OneRow'
      BY <2>2, <3>1, <3>2 DEF OneRow
    <3>4. \A f \in Ids : Explained(f)'
      BY <1>3, <2>2, <2>5, ExplainedStays DEF SerialInv
    <3>5. Explained(new)'
      BY <2>2, NothingDecided DEF Explained
    <3> QED BY <2>2, <3>3, <3>4, <3>5
  <2> QED BY <1>3, <2>4, <2>5, SubmissionSerial
<1> QED BY <1>4, <1>5

\* An event of a sighting decides nothing.
LEMMA RecordSightingSerial ==
  ASSUME LedgerIInv, HistoryInv, SerialInv, NEW s \in Submitters, RecordSighting(s)
  PROVE  SerialInv'
<1>1. call[s] \in Submission /\ Progress(s) /\ call[s].pc = "event"
  BY CallType DEF RecordSighting
<1>2. HistoryRows /\ clock \in Nat
  BY ClockNatural DEF HistoryInv
<1>3. UNCHANGED <<findings, scenario, triage>> /\ call[s].pc \notin Ended
  BY <1>1 DEF RecordSighting, Ended
<1>4. PICK f \in Ids : f = call[s].row
  BY <1>1 DEF Progress, RowsWith
<1>5. CASE call' = [call EXCEPT ![s].pc = "failed"] /\ UNCHANGED history
  <2>1. PICK a : a = [call[s] EXCEPT !.pc = "failed"]
    OBVIOUS
  <2>2. call' = [call EXCEPT ![s] = a] /\ a.pc = "failed"
    BY <1>1, <1>5, <2>1 DEF Submission, LedgerIInv, LedgerRows
  <2> QED BY <1>3, <1>5, <2>2, RowsUnchanged, SubmissionSerial
<1>6. CASE /\ call' = [call EXCEPT ![s].pc = "lookup", ![s].at = @ + 1, ![s].row = 0]
           /\ history' = AppendEvent(f, <<clock>>, "new")
  <2>1. PICK a : a = [call[s] EXCEPT !.pc = "lookup", !.at = @ + 1, !.row = 0]
    OBVIOUS
  <2>2. call' = [call EXCEPT ![s] = a] /\ a.pc = "lookup"
    BY <1>1, <1>6, <2>1 DEF Submission, LedgerIInv, LedgerRows
  <2>3. PICK id \in Seq(Nat) : id = <<clock>>
    <3>1. <<clock>> \in Seq(Nat)
      BY <1>2
    <3> QED BY <3>1
  <2>4. PICK h : h = AppendEvent(f, id, "new")
    OBVIOUS
  <2>5. PICK e : e = [id |-> id, triage |-> "new"]
    OBVIOUS
  <2>6. Extended(h, f, e) /\ history' = h
    BY <1>2, <1>6, <2>3, <2>4, <2>5, EventAdded
  <2>7. ~ Decision(e)
    BY <2>3, <2>5 DEF Decision
  <2>8. LastIn(h[f]) = LastIn(history[f])
    <3>1. /\ Len(history[f]) \in Nat /\ DOMAIN history[f] = 1..Len(history[f])
          /\ DOMAIN h[f] = 1..(Len(history[f]) + 1)
          /\ \A n \in DOMAIN history[f] : h[f][n] = history[f][n]
          /\ ~ Decision(h[f][Len(history[f]) + 1])
      BY <2>6, <2>7 DEF Extended
    <3> QED BY <3>1, SightingAdded
  <2>9. \A g \in Ids : LastIn(h[g]) = LastIn(history[g])
    BY <2>6, <2>8 DEF Extended
  <2>10. ASSUME scenario.serial PROVE OneRow' /\ \A g \in Ids' : Explained(g)'
    <3>1. Ids' = Ids
      BY <1>3 DEF Ids
    <3>2. OneRow'
      BY <1>3, <2>10, <3>1 DEF SerialInv, OneRow
    <3>3. \A g \in Ids : Explained(g)'
      BY <1>3, <2>6, <2>9, <2>10, ExplainedStays DEF SerialInv
    <3> QED BY <3>1, <3>2, <3>3
  <2> QED BY <1>3, <2>2, <2>10, SubmissionSerial
<1> QED BY <1>4, <1>5, <1>6 DEF RecordSighting

\* One triage command moves; the histories and states of the other findings stay.
LEMMA TriageSerial ==
  ASSUME LedgerIInv, SerialInv, NEW o \in Triagers, NEW a, triage' = [triage EXCEPT ![o] = a],
         UNCHANGED <<scenario, call>>, scenario.serial => Quiet \/ triage[o].pc \notin Ended,
         DOMAIN findings' = DOMAIN findings,
         \A f \in Ids : findings'[f].fingerprint = findings[f].fingerprint,
         scenario.serial =>
           /\ \A f \in Ids : Explained(f)'
           /\ a.pc \in {"read", "event"} => findings'[NextFinding(o)'].triage = a.state
  PROVE  SerialInv'
<1> SUFFICES ASSUME scenario.serial
             PROVE  /\ Alone' /\ OneRow' /\ FreshWrites' /\ StateSet'
                    /\ \A f \in Ids' : Explained(f)'
  BY DEF SerialInv
<1>1. /\ Alone'
      /\ \A s \in Submitters : call[s].pc \in Ended
      /\ \A q \in Triagers : q # o => triage[q].pc \in Ended /\ triage'[q] = triage[q]
  BY TriageAlone DEF SerialInv
<1>2. triage'[o] = a
  BY DEF LedgerIInv, LedgerRows
<1>3. FreshWrites'
  BY <1>1 DEF FreshWrites, Ended
<1>4. StateSet'
  BY <1>1, <1>2 DEF StateSet, Ended
<1>5. OneRow' /\ Ids' = Ids
  BY DEF OneRow, Ids, SerialInv
<1> QED BY <1>1, <1>3, <1>4, <1>5

\* The finding a triage is at stays while it has the same ones left.
LEMMA SameNext ==
  ASSUME NEW o, triage'[o].todo = triage[o].todo
  PROVE  NextFinding(o)' = NextFinding(o)
BY DEF NextFinding

\* What another command left unlogged stays so.
LEMMA UnloggedStays ==
  ASSUME NEW f, NEW q, Unlogged(q, f), triage'[q] = triage[q],
         findings'[f].triage = findings[f].triage
  PROVE  Unlogged(q, f)'
<1>1. NextFinding(q)' = NextFinding(q)
  BY SameNext
<1> QED BY <1>1 DEF Unlogged

LEMMA StartSerial ==
  ASSUME LedgerIInv, SerialInv, NEW o \in Triagers, StartTriage(o) PROVE SerialInv'
<1>1. PICK selected \in (SUBSET Rows) \ {{}}, state \in RequestedStates :
         triage' = [triage EXCEPT ![o] =
           [pc |-> IF MayTriage(selected, state) THEN "update" ELSE "refused",
            selected |-> selected, todo |-> selected, state |-> state, version |-> 0]]
  BY DEF StartTriage
<1>2. PICK a : a = [pc |-> IF MayTriage(selected, state) THEN "update" ELSE "refused",
                    selected |-> selected, todo |-> selected, state |-> state, version |-> 0]
  OBVIOUS
<1>3. /\ UNCHANGED <<findings, history, accepted, clock, scenario, call>>
      /\ triage[o].pc = "idle" /\ (scenario.serial => Quiet)
  BY DEF StartTriage, MayStart
<1>4. triage' = [triage EXCEPT ![o] = a] /\ a.pc \notin {"read", "event"}
  BY <1>1, <1>2
<1>5. ASSUME scenario.serial, NEW f \in Ids PROVE Explained(f)'
  <2>1. Explained(f)
    BY <1>5 DEF SerialInv
  <2>2. ASSUME NEW q \in Triagers, Unlogged(q, f) PROVE Unlogged(q, f)'
    <3>1. q # o
      BY <1>3, <2>2 DEF Unlogged
    <3>2. triage'[q] = triage[q]
      BY <1>4, <3>1 DEF LedgerIInv, LedgerRows
    <3> QED BY <1>3, <2>2, <3>2, UnloggedStays
  <2> QED BY <1>3, <2>1, <2>2 DEF Explained
<1> QED BY <1>3, <1>4, <1>5, TriageSerial DEF Ids

\* The row a triage writes is the one it has not logged yet.
LEMMA SetStateSerial ==
  ASSUME LedgerIInv, SerialInv, NEW o \in Triagers, SetTriageState(o) PROVE SerialInv'
<1>1. triage[o] \in TriageCall /\ triage[o].pc = "update" /\ triage[o].pc \notin Ended
  BY TriageType DEF SetTriageState, Ended
<1>2. PICK f \in Ids : f = NextFinding(o)
  BY <1>1, NextIsLeft
<1>3. PICK a : a = [triage[o] EXCEPT !.pc = "read"]
  OBVIOUS
<1>4. /\ triage' = [triage EXCEPT ![o] = a] /\ a.pc = "read"
      /\ a.todo = triage[o].todo /\ a.state = triage[o].state
  BY <1>1, <1>3 DEF SetTriageState, LedgerIInv, LedgerRows, TriageCall
<1>5. triage'[o] = a
  BY <1>4 DEF LedgerIInv, LedgerRows
<1>6. NextFinding(o)' = f
  BY <1>2, <1>4, <1>5, SameNext
<1>7. UNCHANGED <<history, scenario, call>>
      /\ findings' = [findings EXCEPT ![f].triage = triage[o].state, ![f].version = @ + 1]
  BY <1>2 DEF SetTriageState
<1>8. findings \in Seq(Row) /\ findings[f] \in Row
  BY DEF LedgerIInv, LedgerRows, Ids
<1>9. /\ DOMAIN findings' = DOMAIN findings
      /\ findings'[f].triage = triage[o].state
      /\ findings'[f].fingerprint = findings[f].fingerprint
      /\ \A g \in Ids : g # f => findings'[g] = findings[g]
  BY <1>7, <1>8 DEF Ids, Row
<1>10. ASSUME scenario.serial, NEW g \in Ids PROVE Explained(g)'
  <2>1. CASE g = f
    <3>1. Unlogged(o, f)'
      BY <1>4, <1>5, <1>6, <1>9 DEF Unlogged
    <3> QED BY <2>1, <3>1 DEF Explained
  <2>2. CASE g # f
    <3>1. Explained(g)
      BY <1>10 DEF SerialInv
    <3>2. ASSUME NEW q \in Triagers, Unlogged(q, g) PROVE Unlogged(q, g)'
      <4>1. q # o
        BY <1>1, <3>2 DEF Unlogged
      <4>2. triage'[q] = triage[q]
        BY <1>4, <4>1 DEF LedgerIInv, LedgerRows
      <4> QED BY <1>9, <2>2, <3>2, <4>2, UnloggedStays
    <3> QED BY <1>7, <1>9, <2>2, <3>1, <3>2 DEF Explained
  <2> QED BY <2>1, <2>2
<1>11. \A g \in Ids : findings'[g].fingerprint = findings[g].fingerprint
  BY <1>9
<1>12. findings'[NextFinding(o)'].triage = a.state
  BY <1>4, <1>6, <1>9
<1> QED BY <1>1, <1>4, <1>7, <1>9, <1>10, <1>11, <1>12, TriageSerial

\* A triage that fails, or reads the row back, leaves as unlogged what it was at.
LEMMA ReadBackSerial ==
  ASSUME LedgerIInv, SerialInv, NEW o \in Triagers, NEW a,
         triage' = [triage EXCEPT ![o] = a], UNCHANGED <<findings, history, scenario, call>>,
         triage[o].pc \notin Ended,
         a.todo = triage[o].todo, a.state = triage[o].state,
         a.pc = "failed" \/ (a.pc = "event" /\ triage[o].pc = "read")
  PROVE  SerialInv'
<1>1. triage'[o] = a
  BY DEF LedgerIInv, LedgerRows
<1>2. NextFinding(o)' = NextFinding(o)
  BY <1>1, SameNext
<1>3. ASSUME scenario.serial, NEW f \in Ids PROVE Explained(f)'
  <2>1. Explained(f)
    BY <1>3 DEF SerialInv
  <2>2. ASSUME NEW q \in Triagers, Unlogged(q, f) PROVE Unlogged(q, f)'
    <3>1. CASE q = o
      BY <1>1, <1>2, <2>2, <3>1 DEF Unlogged
    <3>2. CASE q # o
      <4>1. triage'[q] = triage[q]
        BY <3>2 DEF LedgerIInv, LedgerRows
      <4> QED BY <2>2, <4>1, UnloggedStays
    <3> QED BY <3>1, <3>2
  <2> QED BY <2>1, <2>2 DEF Explained
<1>4. scenario.serial => (a.pc \in {"read", "event"} => findings'[NextFinding(o)'].triage = a.state)
  BY <1>2 DEF SerialInv, StateSet
<1> QED BY <1>3, <1>4, TriageSerial DEF Ids

\* With its event recorded, the decision is the last one of its finding.
LEMMA RecordDecisionSerial ==
  ASSUME LedgerIInv, HistoryInv, SerialInv, NEW o \in Triagers, RecordDecision(o)
  PROVE  SerialInv'
<1>1. /\ triage[o] \in TriageCall /\ triage[o].pc = "event" /\ triage[o].pc \notin Ended
      /\ triage[o].state \in TRIAGE_OPERATOR_STATES
  BY TriageType DEF RecordDecision, Ended, Admitted
<1>2. PICK f \in Ids : f = NextFinding(o)
  BY <1>1, NextIsLeft
<1>3. UNCHANGED <<findings, accepted, clock, scenario, call>> /\ HistoryRows
  BY DEF RecordDecision, HistoryInv
<1>4. PICK id \in Seq(Nat) : id = <<clock, triage[o].version>>
  <2>1. clock \in Nat /\ triage[o].version \in Nat
    BY <1>1, <1>3, ClockNatural DEF TriageCall
  <2>2. <<clock, triage[o].version>> \in Seq(Nat)
    BY <2>1
  <2> QED BY <2>2
<1>5. CASE triage' = [triage EXCEPT ![o].pc = "failed"] /\ UNCHANGED history
  <2>1. PICK a : a = [triage[o] EXCEPT !.pc = "failed"]
    OBVIOUS
  <2>2. /\ triage' = [triage EXCEPT ![o] = a] /\ a.pc = "failed"
        /\ a.todo = triage[o].todo /\ a.state = triage[o].state
    BY <1>1, <1>5, <2>1 DEF TriageCall, LedgerIInv, LedgerRows
  <2>3. UNCHANGED <<findings, history, scenario, call>>
    BY <1>3, <1>5
  <2> QED BY <1>1, <2>2, <2>3, ReadBackSerial
<1>6. CASE /\ history' = AppendEvent(f, id, triage[o].state)
           /\ triage' = [triage EXCEPT
                ![o].todo = triage[o].todo \ {f},
                ![o].pc = IF triage[o].todo \ {f} = {} THEN "done" ELSE "update"]
  <2>1. PICK a : a = [triage[o] EXCEPT
                !.todo = triage[o].todo \ {f},
                !.pc = IF triage[o].todo \ {f} = {} THEN "done" ELSE "update"]
    OBVIOUS
  <2>2. triage' = [triage EXCEPT ![o] = a] /\ a.pc \in {"done", "update"}
    BY <1>1, <1>6, <2>1 DEF TriageCall, LedgerIInv, LedgerRows
  <2>3. PICK h : h = AppendEvent(f, id, triage[o].state)
    OBVIOUS
  <2>4. PICK e : e = [id |-> id, triage |-> triage[o].state]
    OBVIOUS
  <2>5. Extended(h, f, e) /\ history' = h
    BY <1>1, <1>3, <1>6, <2>3, <2>4, EventAdded
  <2>6. Decision(e)
    <3>1. Len(id) = 2
      BY <1>4
    <3> QED BY <2>4, <3>1 DEF Decision
  <2>7. LastIn(h[f]) = triage[o].state
    <3>1. /\ Len(history[f]) \in Nat /\ DOMAIN h[f] = 1..(Len(history[f]) + 1)
          /\ h[f][Len(history[f]) + 1] = e
      BY <2>5 DEF Extended
    <3>2. LastIn(h[f]) = e.triage
      BY <2>6, <3>1, DecisionAdded
    <3> QED BY <2>4, <3>2
  <2>8. ASSUME scenario.serial, NEW g \in Ids PROVE Explained(g)'
    <3>1. CASE g = f
      <4>1. findings[f].triage = triage[o].state
        BY <1>1, <1>2, <2>8 DEF SerialInv, StateSet
      <4> QED BY <1>3, <2>5, <2>7, <3>1, <4>1 DEF Explained
    <3>2. CASE g # f
      <4>1. Explained(g)
        BY <2>8 DEF SerialInv
      <4>2. ASSUME NEW q \in Triagers, Unlogged(q, g) PROVE Unlogged(q, g)'
        <5>1. q # o
          BY <1>2, <3>2, <4>2 DEF Unlogged
        <5>2. triage'[q] = triage[q]
          BY <2>2, <5>1 DEF LedgerIInv, LedgerRows
        <5> QED BY <1>3, <4>2, <5>2, UnloggedStays
      <4>3. history'[g] = history[g]
        BY <2>5, <3>2 DEF Extended
      <4> QED BY <1>3, <4>1, <4>2, <4>3 DEF Explained
    <3> QED BY <3>1, <3>2
  <2> QED BY <1>1, <1>3, <2>2, <2>8, TriageSerial DEF Ids
<1>7. \/ triage' = [triage EXCEPT ![o].pc = "failed"] /\ UNCHANGED history
      \/ /\ history' = AppendEvent(f, id, triage[o].state)
         /\ triage' = [triage EXCEPT
              ![o].todo = triage[o].todo \ {f},
              ![o].pc = IF triage[o].todo \ {f} = {} THEN "done" ELSE "update"]
  BY <1>2, <1>4, Zenon DEF RecordDecision
<1> QED BY <1>5, <1>6, <1>7

LEMMA SerialInductive ==
  LedgerIInv /\ HistoryInv /\ SerialInv /\ [LedgerNext]_ledgerVars => SerialInv'
<1> SUFFICES ASSUME LedgerIInv, HistoryInv, SerialInv, [LedgerNext]_ledgerVars PROVE SerialInv'
  OBVIOUS
<1>1. ASSUME NEW s \in Submitters,
             \/ SubmitStageResult(s) \/ SkipUntitled(s) \/ LookUpFingerprint(s)
             \/ UpsertFinding(s) \/ RecordSighting(s) \/ ReportAcceptance(s)
             \/ SubmissionFails(s)
      PROVE  SerialInv'
  BY <1>1, MovingSerial, UpsertSerial, RecordSightingSerial
<1>2. ASSUME NEW o \in Triagers, ReadBack(o) \/ TriageFails(o) PROVE SerialInv'
  <2>1. triage[o] \in TriageCall
    BY TriageType
  <2>2. PICK a : /\ triage' = [triage EXCEPT ![o] = a]
                 /\ a.todo = triage[o].todo /\ a.state = triage[o].state
                 /\ \/ a.pc = "failed"
                    \/ a.pc = "event" /\ triage[o].pc = "read"
    <3>1. CASE ReadBack(o)
      <4>1. PICK a : a = [triage[o] EXCEPT !.version = findings[NextFinding(o)].version,
                                           !.pc = "event"]
        OBVIOUS
      <4>2. a.todo = triage[o].todo /\ a.state = triage[o].state /\ a.pc = "event"
        BY <2>1, <4>1 DEF TriageCall
      <4>3. triage' = [triage EXCEPT ![o] = a] /\ triage[o].pc = "read"
        BY <3>1, <4>1 DEF ReadBack, LedgerIInv, LedgerRows
      <4> QED BY <4>2, <4>3
    <3>2. CASE TriageFails(o)
      <4>1. PICK a : a = [triage[o] EXCEPT !.pc = "failed"]
        OBVIOUS
      <4>2. a.todo = triage[o].todo /\ a.state = triage[o].state /\ a.pc = "failed"
        BY <2>1, <4>1 DEF TriageCall
      <4>3. triage' = [triage EXCEPT ![o] = a]
        BY <3>2, <4>1 DEF TriageFails, LedgerIInv, LedgerRows
      <4> QED BY <4>2, <4>3
    <3> QED BY <1>2, <3>1, <3>2
  <2>3. UNCHANGED <<findings, history, scenario, call>> /\ triage[o].pc \notin Ended
    BY <1>2 DEF ReadBack, TriageFails, Ended
  <2> QED BY <2>2, <2>3, ReadBackSerial
<1>3. ASSUME NEW o \in Triagers, StartTriage(o) \/ SetTriageState(o) \/ RecordDecision(o)
      PROVE  SerialInv'
  BY <1>3, StartSerial, SetStateSerial, RecordDecisionSerial
<1>4. CASE Second \/ UNCHANGED ledgerVars
  <2>1. UNCHANGED <<findings, history, scenario, call, triage>>
    BY <1>4 DEF Second, ledgerVars
  <2>2. ASSUME scenario.serial PROVE Alone' /\ FreshWrites' /\ StateSet'
    <3>1. Alone'
      BY <2>1, <2>2 DEF SerialInv, Alone
    <3>2. FreshWrites'
      BY <2>1, <2>2 DEF SerialInv, FreshWrites, RowsWith, Ids
    <3>3. StateSet'
      BY <2>1, <2>2 DEF SerialInv, StateSet, NextFinding
    <3> QED BY <3>1, <3>2, <3>3
  <2> QED BY <2>1, <2>2, RowsUnchanged DEF SerialInv
<1> QED BY <1>1, <1>2, <1>3, <1>4 DEF LedgerNext

LEMMA SerialAlways == LedgerSpec => []SerialInv
BY SerialInitial, SerialInductive, LedgerAlways, HistoryAlways, PTL DEF LedgerSpec

\* The ledger at any moment, for any number of submissions, operators, findings
\* and packs, whatever runs, fails and is killed: one row per fingerprint and a
\* decision history that explains every row as long as commands do not overlap,
\* an event behind every decision a triage reports, and a row behind every entry
\* of an accepted result (upsert_materialized_finding,
\* update_finding_triage_state, persist_accepted_stage_result).
THEOREM LedgerSound == LedgerSpec => []LedgerInv
<1>1. LedgerIInv /\ HistoryInv /\ SerialInv => LedgerInv
  <2> SUFFICES ASSUME LedgerIInv, HistoryInv, SerialInv PROVE LedgerInv
    OBVIOUS
  <2>1. LedgerTypeOK
    <3>1. findings \in Seq([fingerprint : Fingerprints, triage : TRIAGE_OPERATOR_STATES \cup {"new"},
                         lastSeen : Runs, version : Nat])
      BY DEF LedgerIInv, LedgerRows, Row
    <3>2. DOMAIN history = Ids
      BY <3>1 DEF HistoryInv, HistoryRows, Ids
    <3>3. \A s \in Submitters : call[s].pc \in CallPcs /\ call[s].row \in Ids \cup {0}
      BY CallType DEF Submission, HistoryInv, HistoryRows
    <3>4. \A o \in Triagers : triage[o].pc \in TriagePcs /\ triage[o].todo \subseteq triage[o].selected
      BY TriageType DEF TriageCall, HistoryInv, Logs
    <3> QED BY <3>1, <3>2, <3>3, <3>4 DEF LedgerTypeOK, HistoryInv, HistoryRows, CallPcs, TriagePcs
  <2>2. OneRowPerFingerprint
    BY DEF SerialInv, OneRow, OneRowPerFingerprint
  <2>3. ReportedTriageIsLogged
    <3> SUFFICES ASSUME NEW o \in Triagers, triage[o].pc = "done", NEW f \in triage[o].selected
                 PROVE  Decided(f, triage[o].state)
      BY DEF ReportedTriageIsLogged, Decided, Decision
    <3> QED BY DEF HistoryInv, Logs
  <2>4. HistoryExplainsState
    <3> SUFFICES ASSUME scenario.serial, Quiet, NEW f \in Ids
                 PROVE  \/ findings[f].triage = LastDecision(f)
                        \/ \E o \in Triagers : /\ triage[o].pc = "failed"
                                               /\ f = NextFinding(o)
                                               /\ findings[f].triage = triage[o].state
      BY DEF HistoryExplainsState
    <3>1. Explained(f)
      BY DEF SerialInv
    <3>2. LastDecision(f) = LastIn(history[f])
      BY LastAgrees
    <3>3. \A o \in Triagers : triage[o].pc \notin {"read", "event"}
      BY DEF Quiet, Ended
    <3> QED BY <3>1, <3>2, <3>3 DEF Explained, Unlogged
  <2>5. AcceptedIsMaterialised
    BY CallType DEF AcceptedIsMaterialised, Progress
  <2> QED BY <2>1, <2>2, <2>3, <2>4, <2>5 DEF LedgerInv
<1> QED BY <1>1, LedgerAlways, HistoryAlways, SerialAlways, PTL
=============================================================================
