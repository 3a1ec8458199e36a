--------------------------- MODULE FindingLedger ---------------------------
(* The findings of one session and their decision history: worker results   *)
(* that materialise findings by fingerprint, and operators who triage them.  *)
(*                                                                           *)
(* Every SQL statement commits on its own (no transaction spans the upsert   *)
(* or the triage of several findings), so every statement is a step; any     *)
(* command may die or get a storage error between two of them. The second    *)
(* hand of the clock matters: it is part of the event identifiers.           *)
EXTENDS Naturals, Sequences, FiniteSets

CONSTANTS Fingerprints,   \* identities of what workers report
          Packs,          \* findings packs: sequences of fingerprints or Untitled
          Runs,           \* the runs whose tasks workers hold
          Submitters,     \* `rr agent worker.submit_stage_result` calls
          Triagers,       \* `rr triage` calls and triage from the TUI
          RequestedStates,\* states asked for, operator-settable or not
          MaxRows,        \* bound: rows of the findings table
          MaxClock,       \* bound: seconds that pass
          Scenarios,      \* [serial, crew]: whether commands overlap, and which run
          Untitled        \* an entry of a pack without a usable title

ASSUME LedgerConstants ==
    /\ Untitled \notin Fingerprints
    /\ Packs \subseteq Seq(Fingerprints \cup {Untitled})
    /\ MaxRows \in Nat /\ MaxClock \in Nat
    /\ Submitters \cap Triagers = {}
    /\ Scenarios \subseteq [serial : BOOLEAN, crew : SUBSET (Submitters \cup Triagers)]

VARIABLES findings,   \* the rows, by id, in insertion order
          history,    \* finding_decision_events of each row
          accepted,   \* worker_stage_results: one entry per stored result
          clock,      \* time::now_ts()
          scenario,   \* the kind of history this is; no step changes it
          call,       \* state of each submission
          triage      \* state of each triage command

ledgerVars == <<findings, history, accepted, clock, scenario, call, triage>>

TRIAGE_OPERATOR_STATES == {"accepted", "ignored", "needs_follow_up", "resolved"}
Rows == 1..MaxRows
Ids == DOMAIN findings
Ended == {"idle", "done", "failed", "refused"}

Quiet == /\ \A s \in Submitters : call[s].pc \in Ended
         /\ \A o \in Triagers : triage[o].pc \in Ended

MayStart(c) == c \in scenario.crew /\ (scenario.serial => Quiet)

RowsWith(fp) == {f \in Ids : findings[f].fingerprint = fp}

LedgerInit ==
    /\ findings = <<>>
    /\ history = <<>>
    /\ accepted = <<>>
    /\ clock = 0
    /\ scenario \in Scenarios
    /\ call = [s \in Submitters |->
                 [pc |-> "idle", run |-> 0, pack |-> <<>>, at |-> 1, row |-> 0]]
    /\ triage = [o \in Triagers |->
                   [pc |-> "idle", selected |-> {}, todo |-> {}, state |-> "new", version |-> 0]]

----------------------------------------------------------------------------
(* A worker's accepted stage result: persist_accepted_stage_result           *)

\* The audit row comes first. No constraint stops a second result of the same
\* task: the unique index covers only invocations that Roger recorded.
SubmitStageResult(s) ==
    /\ call[s].pc = "idle"
    /\ MayStart(s)
    /\ \E run \in Runs, pack \in Packs :
         /\ call' = [call EXCEPT ![s] =
                       [pc |-> "lookup", run |-> run, pack |-> pack, at |-> 1, row |-> 0]]
         /\ accepted' = Append(accepted, [by |-> s, run |-> run])
    /\ UNCHANGED <<findings, history, clock, scenario, triage>>

\* An entry without a title is passed over: it stays in the audit row only.
SkipUntitled(s) ==
    /\ call[s].pc = "lookup"
    /\ call[s].at \in DOMAIN call[s].pack
    /\ call[s].pack[call[s].at] = Untitled
    /\ call' = [call EXCEPT ![s].at = @ + 1]
    /\ UNCHANGED <<findings, history, accepted, clock, scenario, triage>>

\* SELECT id WHERE session and fingerprint: one of the rows, without an order.
LookUpFingerprint(s) ==
    /\ call[s].pc = "lookup"
    /\ call[s].at \in DOMAIN call[s].pack
    /\ call[s].pack[call[s].at] # Untitled
    /\ LET found == RowsWith(call[s].pack[call[s].at]) IN
       \E row \in IF found = {} THEN {0} ELSE found :
         call' = [call EXCEPT ![s].row = row, ![s].pc = "write"]
    /\ UNCHANGED <<findings, history, accepted, clock, scenario, triage>>

\* The row a sighting leaves behind: an update keeps triage and outbound state,
\* an insert starts both.
\* Mutant: a sighting opens the finding again.
SeenAgainReopened(row, run) == [row EXCEPT !.lastSeen = run, !.triage = "new"]
SeenAgain(row, run) == [row EXCEPT !.lastSeen = run, !.version = @ + 1]

UpsertFinding(s) ==
    LET fp == call[s].pack[call[s].at]
        row == call[s].row
        new == Len(findings) + 1
    IN
    /\ call[s].pc = "write"
    /\ \/ /\ row # 0
          /\ findings' = [findings EXCEPT ![row] = SeenAgain(@, call[s].run)]
          /\ call' = [call EXCEPT ![s].pc = "event"]
          /\ UNCHANGED history
       \/ /\ row = 0
          /\ new \in Rows
          /\ findings' = Append(findings, [fingerprint |-> fp, triage |-> "new",
                                           lastSeen |-> call[s].run, version |-> 0])
          /\ history' = Append(history, <<>>)
          /\ call' = [call EXCEPT ![s].row = new, ![s].pc = "event"]
    /\ UNCHANGED <<accepted, clock, scenario, triage>>

\* An event's id is its primary key: fde-<finding>-<second>, with the row's
\* version when an operator triages.
Recorded(f, id) == \E n \in DOMAIN history[f] : history[f][n].id = id

AppendEvent(f, id, state) == [history EXCEPT ![f] = Append(@, [id |-> id, triage |-> state])]

\* The second event of the upsert. When one finding is seen twice in a second
\* the key exists, and the call fails with the row already updated.
RecordSighting(s) ==
    LET f == call[s].row
        id == <<clock>>
    IN
    /\ call[s].pc = "event"
    /\ IF Recorded(f, id)
       THEN /\ call' = [call EXCEPT ![s].pc = "failed"]
            /\ UNCHANGED history
       ELSE /\ call' = [call EXCEPT ![s].pc = "lookup", ![s].at = @ + 1, ![s].row = 0]
            /\ history' = AppendEvent(f, id, "new")
    /\ UNCHANGED <<findings, accepted, clock, scenario, triage>>

\* Memory proposals and the attention state follow (ReviewQueues and
\* SessionLifecycle); then the acceptance is reported.
ReportAcceptance(s) ==
    /\ call[s].pc = "lookup"
    /\ call[s].at = Len(call[s].pack) + 1
    /\ call' = [call EXCEPT ![s].pc = "done"]
    /\ UNCHANGED <<findings, history, accepted, clock, scenario, triage>>

----------------------------------------------------------------------------
(* Triage: set_finding_triage and update_finding_triage_state                *)

MayTriage(selected, state) ==
    /\ state \in TRIAGE_OPERATOR_STATES
    /\ selected \subseteq Ids

StartTriage(o) ==
    /\ triage[o].pc = "idle"
    /\ MayStart(o)
    /\ \E selected \in (SUBSET Rows) \ {{}}, state \in RequestedStates :
         triage' = [triage EXCEPT ![o] =
           [pc |-> IF MayTriage(selected, state) THEN "update" ELSE "refused",
            selected |-> selected, todo |-> selected, state |-> state, version |-> 0]]
    /\ UNCHANGED <<findings, history, accepted, clock, scenario, call>>

\* The ids are sorted: the findings are taken in order.
NextFinding(o) == CHOOSE f \in triage[o].todo : \A g \in triage[o].todo : f <= g

SetTriageState(o) ==
    LET f == NextFinding(o) IN
    /\ triage[o].pc = "update"
    /\ findings' = [findings EXCEPT ![f].triage = triage[o].state, ![f].version = @ + 1]
    /\ triage' = [triage EXCEPT ![o].pc = "read"]
    /\ UNCHANGED <<history, accepted, clock, scenario, call>>

\* The row is read back in a statement of its own for the event's id.
ReadBack(o) ==
    /\ triage[o].pc = "read"
    /\ triage' = [triage EXCEPT ![o].version = findings[NextFinding(o)].version, ![o].pc = "event"]
    /\ UNCHANGED <<findings, history, accepted, clock, scenario, call>>

\* Mutant: an event whose id is taken is dropped.
RecordDecisionOrIgnore(o) ==
    LET f == NextFinding(o)
        id == <<clock, triage[o].version>>
        rest == triage[o].todo \ {f}
    IN
    /\ triage[o].pc = "event"
    /\ history' = IF Recorded(f, id) THEN history ELSE AppendEvent(f, id, triage[o].state)
    /\ triage' = [triage EXCEPT ![o].todo = rest,
                                ![o].pc = IF rest = {} THEN "done" ELSE "update"]
    /\ UNCHANGED <<findings, accepted, clock, scenario, call>>

RecordDecision(o) ==
    LET f == NextFinding(o)
        id == <<clock, triage[o].version>>
        rest == triage[o].todo \ {f}
    IN
    /\ triage[o].pc = "event"
    /\ IF Recorded(f, id)
       THEN /\ triage' = [triage EXCEPT ![o].pc = "failed"]
            /\ UNCHANGED history
       ELSE /\ history' = AppendEvent(f, id, triage[o].state)
            /\ triage' = [triage EXCEPT ![o].todo = rest,
                                        ![o].pc = IF rest = {} THEN "done" ELSE "update"]
    /\ UNCHANGED <<findings, accepted, clock, scenario, call>>

----------------------------------------------------------------------------
(* The environment                                                           *)

\* The process dies, or a statement returns an error: what was written stays.
SubmissionFails(s) ==
    /\ call[s].pc \notin Ended
    /\ call' = [call EXCEPT ![s].pc = "failed"]
    /\ UNCHANGED <<findings, history, accepted, clock, scenario, triage>>

TriageFails(o) ==
    /\ triage[o].pc \notin Ended
    /\ triage' = [triage EXCEPT ![o].pc = "failed"]
    /\ UNCHANGED <<findings, history, accepted, clock, scenario, call>>

Second ==
    /\ clock < MaxClock
    /\ clock' = clock + 1
    /\ UNCHANGED <<findings, history, accepted, scenario, call, triage>>

LedgerNext ==
    \/ \E s \in Submitters :
         \/ SubmitStageResult(s) \/ SkipUntitled(s) \/ LookUpFingerprint(s)
         \/ UpsertFinding(s) \/ RecordSighting(s) \/ ReportAcceptance(s)
         \/ SubmissionFails(s)
    \/ \E o \in Triagers :
         \/ StartTriage(o) \/ SetTriageState(o) \/ ReadBack(o) \/ RecordDecision(o)
         \/ TriageFails(o)
    \/ Second

LedgerSpec == LedgerInit /\ [][LedgerNext]_ledgerVars

----------------------------------------------------------------------------
(* Properties                                                                *)

LedgerTypeOK ==
    /\ findings \in Seq([fingerprint : Fingerprints, triage : TRIAGE_OPERATOR_STATES \cup {"new"},
                         lastSeen : Runs, version : Nat])
    /\ Len(findings) <= MaxRows
    /\ DOMAIN history = Ids
    /\ clock \in 0..MaxClock
    /\ scenario \in Scenarios
    /\ \A s \in Submitters :
         /\ call[s].pc \in Ended \cup {"lookup", "write", "event"}
         /\ call[s].row \in Ids \cup {0}
    /\ \A o \in Triagers :
         /\ triage[o].pc \in Ended \cup {"update", "read", "event"}
         /\ triage[o].todo \subseteq triage[o].selected

\* No unique index stands behind the lookup by fingerprint: as long as
\* submissions do not overlap, a fingerprint has one row, so a decision taken on
\* it has no undecided twin (upsert_materialized_finding).
OneRowPerFingerprint ==
    scenario.serial => \A f, g \in Ids : findings[f].fingerprint = findings[g].fingerprint => f = g

\* A worker that reports a finding again, from whatever run and at whatever
\* moment, never takes back what an operator decided about it.
DecisionsSurviveSightings ==
    [][\A f \in Ids : findings'[f].triage # findings[f].triage =>
         \E o \in Triagers : triage[o].pc = "update" /\ f = NextFinding(o)]_ledgerVars

\* A triage command that reports success left a decision event for every
\* finding it selected, also when another command took the same findings in the
\* same second and the event ids could collide.
ReportedTriageIsLogged ==
    \A o \in Triagers : triage[o].pc = "done" =>
      \A f \in triage[o].selected :
        \E n \in DOMAIN history[f] : /\ Len(history[f][n].id) = 2
                                     /\ history[f][n].triage = triage[o].state

\* Between commands the last decision event of a finding is its triage state,
\* except for the one finding a triage command failed on: those before it keep a
\* new state that is logged, those after it keep the old one
\* (update_finding_triage_state writes the row first and the event last).
LastDecision(f) ==
    LET decided == {n \in DOMAIN history[f] : Len(history[f][n].id) = 2} IN
    IF decided = {} THEN "new" ELSE history[f][CHOOSE n \in decided : \A k \in decided : k <= n].triage

HistoryExplainsState ==
    scenario.serial /\ Quiet => \A f \in Ids :
        \/ findings[f].triage = LastDecision(f)
        \/ \E o \in Triagers : /\ triage[o].pc = "failed"
                               /\ f = NextFinding(o)
                               /\ findings[f].triage = triage[o].state

\* When a worker is told its result was accepted, the audit row and a row for
\* every titled entry are stored, whatever ran at the same time.
AcceptedIsMaterialised ==
    \A s \in Submitters : call[s].pc = "done" =>
      /\ \E n \in DOMAIN accepted : accepted[n].by = s
      /\ \A n \in DOMAIN call[s].pack :
           call[s].pack[n] # Untitled => RowsWith(call[s].pack[n]) # {}

\* The ledger at any moment, whatever submissions and triage commands run, fail
\* and are killed: what the parts above say of its rows and its history.
LedgerInv ==
    /\ LedgerTypeOK
    /\ OneRowPerFingerprint
    /\ ReportedTriageIsLogged
    /\ HistoryExplainsState
    /\ AcceptedIsMaterialised

=============================================================================
