-------------------------- MODULE SessionLifecycle --------------------------
(***************************************************************************)
(* The review sessions of one pull request: `rr review` starts one or      *)
(* reuses one, `rr resume` and `rr return` re-enter one, and the worker    *)
(* that runs inside the provider submits its findings through `rr agent`.  *)
(*                                                                         *)
(* Every command is a process of its own on the same SQLite file, and no   *)
(* transaction spans the launch of the provider: a command records a       *)
(* launch attempt, launches, and commits sessions, runs and attempt in one *)
(* transaction at the end.  One action is one statement, one transaction   *)
(* or one file operation; the two updates that move a new attempt from     *)
(* pending to dispatching are one, both being in flight.                   *)
(*                                                                         *)
(* A "hosted" provider (Copilot) runs its worker during the launch, so     *)
(* its session and run rows are written before it.  The others are         *)
(* "linked": their rows appear with the final transaction.                 *)
(*                                                                         *)
(* An attempt creates at most one run, and the run has the attempt's       *)
(* number here.  Which of several reusable sessions is the newest depends  *)
(* on a clock of one second; any of them may be chosen.                    *)
(***************************************************************************)
EXTENDS Naturals, Sequences, FiniteSets

CONSTANTS
  Sessions,    \* the identifiers new sessions can get
  Commands,    \* processes that run `rr review`, `rr resume`, `rr return`
  Agents,      \* processes that run `rr agent worker.submit_stage_result`
  Providers,   \* a subset of {"hosted", "linked"}
  Kinds,       \* a subset of {"review", "fresh", "resume", "return"}
  CanFail,     \* whether a process may die, or a statement of it fail
  MaxAttempts, \* bound: launch attempts
  MaxResults,  \* bound: stage results
  NoSession

Procs == Commands \cup Agents

ASSUME LifecycleAssumption ==
  /\ Commands \cap Agents = {}
  /\ Providers \subseteq {"hosted", "linked"}
  /\ Kinds \subseteq {"review", "fresh", "resume", "return"}
  /\ CanFail \in BOOLEAN
  /\ MaxAttempts \in Nat
  /\ MaxResults \in Nat

VARIABLES
  session,   \* the review_sessions rows; NoSession: no row
  runs,      \* the review_runs rows of each session, oldest first
  attempts,  \* the launch_attempts rows
  taskFile,  \* the run that each session's worker-task.json names, 0: no file
  results,   \* the worker_stage_results rows
  pc,        \* where each process stands
  local,     \* what each process read and still has to do
  announced, \* history: how often a session was set to findings_ready
  acked      \* history: how many of these the last command to set it had read

store == <<session, runs, attempts, results>>
vars  == <<session, runs, attempts, taskFile, results, pc, local, announced,
           acked>>
-----------------------------------------------------------------------------
Actions    == {"start_review", "resume_review", "return_to_roger"}
InFlight   == {"dispatching", "awaiting_provider_verification"}
Failures   == {"failed_launch", "failed_session_binding", "failed_commit"}
Terminal   == {"verified", "abandoned"} \cup Failures
Attentions == {"review_launched", "review_resumed", "returned_to_roger",
               "findings_ready", "review_failed"}
Phases == {"idle", "reenter", "abandon", "insert", "task", "provision",
           "provision_run", "launch", "finalize", "demote", "demote_put",
           "fail", "rebind", "w_bind", "w_record", "w_ready", "w_reload"}

\* locator: the row carries the locator of a verified provider session (and
\* a resume bundle).
Row     == [provider : {"hosted", "linked"}, attention : Attentions,
            version : Nat, locator : BOOLEAN]
ASSUME NoSessionAssumption == NoSession \notin Row \cup Sessions
Attempt == [action : Actions, session : Sessions,
            state : InFlight \cup Terminal]
Result  == [session : Sessions, run : Nat]

\* run: the number of the command's attempt, or the run an agent's task
\* names; version and locator: the session row as read; seen: the
\* announcements made until then.
Local == [action : Actions, session : Sessions \cup {NoSession}, run : Nat,
          provider : {"hosted", "linked"}, version : Nat, locator : BOOLEAN,
          seen : Nat, failure : Failures, retried : BOOLEAN]

Blank == [action |-> "start_review", session |-> NoSession, run |-> 0,
          provider |-> "linked", version |-> 0, locator |-> FALSE,
          seen |-> 0, failure |-> "failed_launch", retried |-> FALSE]

TypeOK ==
  /\ session \in [Sessions -> Row \cup {NoSession}]
  /\ runs \in [Sessions -> Seq(Nat)]
  /\ attempts \in Seq(Attempt)
  /\ taskFile \in [Sessions -> Nat]
  /\ results \in Seq(Result)
  /\ pc \in [Procs -> Phases]
  /\ local \in [Procs -> Local]
  /\ announced \in [Sessions -> Nat]
  /\ acked \in [Sessions -> Nat]

Known == {s \in Sessions : session[s] # NoSession}

-----------------------------------------------------------------------------
Init ==
  /\ session = [s \in Sessions |-> NoSession]
  /\ runs = [s \in Sessions |-> <<>>]
  /\ attempts = <<>>
  /\ taskFile = [s \in Sessions |-> 0]
  /\ results = <<>>
  /\ pc = [p \in Procs |-> "idle"]
  /\ local = [p \in Procs |-> Blank]
  /\ announced = [s \in Sessions |-> 0]
  /\ acked = [s \in Sessions |-> 0]

\* Process p goes to phase ph with local state l; "idle" ends it.
Goto(p, ph, l) ==
  /\ pc' = [pc EXCEPT ![p] = ph]
  /\ local' = [local EXCEPT ![p] = IF ph = "idle" THEN Blank ELSE l]

\* The row of session s as process state l reads it now.
Reading(l, s) ==
  [l EXCEPT !.session = s, !.provider = session[s].provider,
            !.version = session[s].version, !.locator = session[s].locator,
            !.seen = announced[s]]

\* Bound: every command that started gets an attempt.
Opening == {p \in Commands : pc[p] \in {"reenter", "abandon", "insert"}}
MayOpen(p) == /\ p \in Commands
              /\ pc[p] = "idle"
              /\ Len(attempts) + Cardinality(Opening) < MaxAttempts
-----------------------------------------------------------------------------
(* Commands: which session, and the attempt.                               *)

\* Mutant: a session with findings is not reused.
ReusableWithoutFindings ==
  {s \in Known : session[s].attention \in {"review_launched",
                                           "review_resumed"}}

\* select_reusable_session: any session that has not failed.
Reusable == {s \in Known : session[s].attention # "review_failed"}

\* `rr review` re-enters a reusable session and starts one if there is none.
Review(p) ==
  /\ "review" \in Kinds
  /\ MayOpen(p)
  /\ \/ \E s \in Reusable :
          Goto(p, "reenter", [Blank EXCEPT !.action = "resume_review",
                                           !.session = s])
     \/ /\ Reusable = {}
        /\ \E provider \in Providers :
             Goto(p, "insert", [Blank EXCEPT !.provider = provider])
  /\ UNCHANGED <<store, taskFile, announced, acked>>

\* `rr review --fresh`.
Fresh(p) ==
  /\ "fresh" \in Kinds
  /\ MayOpen(p)
  /\ \E provider \in Providers :
       Goto(p, "insert", [Blank EXCEPT !.provider = provider])
  /\ UNCHANGED <<store, taskFile, announced, acked>>

\* `rr resume` and `rr return` of a session the operator names.
Resume(p) ==
  /\ MayOpen(p)
  /\ \E s \in Known, kind \in Kinds \cap {"resume", "return"} :
       Goto(p, "reenter",
            [Blank EXCEPT !.session = s,
                          !.action = IF kind = "resume" THEN "resume_review"
                                     ELSE "return_to_roger"])
  /\ UNCHANGED <<store, taskFile, announced, acked>>

\* The row that the command works on, and expects at the end, is read.
Reenter(p) ==
  LET l == local[p] IN
  /\ pc[p] = "reenter"
  /\ Goto(p, "abandon", Reading(l, l.session))
  /\ UNCHANGED <<store, taskFile, announced, acked>>

Abandons(a, l) ==
  a.session = l.session /\ a.action = l.action /\ a.state \in InFlight

\* create_launch_attempt gives up the session's attempts in flight ...
Abandon(p) ==
  LET l == local[p] IN
  /\ pc[p] = "abandon"
  /\ attempts' = [i \in DOMAIN attempts |->
                    IF Abandons(attempts[i], l)
                    THEN [attempts[i] EXCEPT !.state = "abandoned"]
                    ELSE attempts[i]]
  /\ Goto(p, "insert", l)
  /\ UNCHANGED <<session, runs, taskFile, results, announced, acked>>

\* ... and inserts the new one.  A start mints its session identifier.
Insert(p) ==
  LET l == local[p]
      start == l.action = "start_review"
      minted == {attempts[i].session : i \in DOMAIN attempts}
  IN /\ pc[p] = "insert"
     /\ \E s \in IF start THEN Sessions \ minted ELSE {l.session} :
          /\ attempts' = Append(attempts, [action |-> l.action, session |-> s,
                                           state |-> "dispatching"])
          /\ Goto(p, IF start THEN "task" ELSE "launch",
                  [l EXCEPT !.session = s, !.run = Len(attempts) + 1])
     /\ UNCHANGED <<session, runs, taskFile, results, announced, acked>>
-----------------------------------------------------------------------------
(* A start: task file, provisional rows, launch, final transaction.        *)

\* Only a hosted worker needs its session and run before the launch.
Provisions(l) == l.provider = "hosted"

\* write_worker_task_file names the run; a failure is only a warning.
NamesRun(l) ==
  \/ taskFile' = [taskFile EXCEPT ![l.session] = l.run]
  \/ CanFail /\ UNCHANGED taskFile

StageTask(p) ==
  LET l == local[p] IN
  /\ pc[p] = "task"
  /\ NamesRun(l)
  /\ Goto(p, IF Provisions(l) THEN "provision" ELSE "launch", l)
  /\ UNCHANGED <<store, announced, acked>>

Provision(p) ==
  LET l == local[p] IN
  /\ pc[p] = "provision"
  /\ session' = [session EXCEPT ![l.session] =
                   [provider |-> l.provider, attention |-> "review_launched",
                    version |-> 0, locator |-> FALSE]]
  /\ Goto(p, "provision_run", l)
  /\ UNCHANGED <<runs, attempts, taskFile, results, announced, acked>>

ProvisionRun(p) ==
  LET l == local[p] IN
  /\ pc[p] = "provision_run"
  /\ runs' = [runs EXCEPT ![l.session] = Append(@, l.run)]
  /\ Goto(p, "launch", l)
  /\ UNCHANGED <<session, attempts, taskFile, results, announced, acked>>

\* A row gets its next version with every write.
Written(row, attention) == [row EXCEPT !.attention = attention, !.version = @ + 1]

SetState(a, state) == attempts' = [attempts EXCEPT ![a].state = state]

\* The provider returned a session that Roger verified.  A hosted session
\* is resumed by its locator or from its bundle, and has neither before its
\* start is final.
Launched(p) ==
  LET l == local[p] IN
  /\ pc[p] = "launch"
  /\ l.action = "start_review" \/ l.provider = "linked" \/ l.locator
  /\ SetState(l.run, "awaiting_provider_verification")
  /\ Goto(p, "finalize", l)
  /\ UNCHANGED <<session, runs, taskFile, results, announced, acked>>

\* Mutant: a failed start leaves its provisional session as it is.
FailurePhaseUndemoted(l) == "fail"

\* A failed start demotes the session it provisioned.
FailurePhase(l) ==
  IF l.action = "start_review" /\ Provisions(l) THEN "demote" ELSE "fail"

\* The provider could not be launched, or its session not be verified.
LaunchFailed(p) ==
  LET l == local[p] IN
  /\ pc[p] = "launch"
  /\ Goto(p, FailurePhase(l), l)
  /\ UNCHANGED <<store, taskFile, announced, acked>>

\* finalize_review_launch_attempt: rows are inserted, or overwritten where
\* they were provisioned, whatever happened to them since.
FinalizeStart(p) ==
  LET l == local[p]
      s == l.session
      version == IF s \in Known THEN session[s].version + 1 ELSE 0
  IN /\ pc[p] = "finalize"
     /\ l.action = "start_review"
     /\ session' = [session EXCEPT ![s] =
                      [provider |-> l.provider,
                       attention |-> "review_launched",
                       version |-> version, locator |-> TRUE]]
     /\ runs' = [runs EXCEPT ![s] = IF Provisions(l) THEN @
                                    ELSE Append(@, l.run)]
     /\ SetState(l.run, "verified")
     /\ acked' = [acked EXCEPT ![s] = l.seen]
     /\ Goto(p, "idle", l)
     /\ UNCHANGED <<taskFile, results, announced>>

\* demote_provisional_session: read the row ...
Demote(p) ==
  LET l == local[p] IN
  /\ pc[p] = "demote"
  /\ Goto(p, "demote_put", Reading(l, l.session))
  /\ UNCHANGED <<store, taskFile, announced, acked>>

\* ... and mark it failed if it is still that row.
DemotePut(p) ==
  LET l == local[p]
      s == l.session
      same == session[s].version = l.version
  IN /\ pc[p] = "demote_put"
     /\ session' = [session EXCEPT
          ![s] = IF same THEN Written(session[s], "review_failed") ELSE @]
     /\ acked' = [acked EXCEPT ![s] = IF same THEN l.seen ELSE @]
     /\ Goto(p, "fail", l)
     /\ UNCHANGED <<runs, attempts, taskFile, results, announced>>

Fail(p) ==
  LET l == local[p] IN
  /\ pc[p] = "fail"
  /\ SetState(l.run, l.failure)
  /\ Goto(p, "idle", l)
  /\ UNCHANGED <<session, runs, taskFile, results, announced, acked>>
-----------------------------------------------------------------------------
(* Re-entry: the final transaction and the new task file.                  *)

Reentered(l) == IF l.action = "resume_review" THEN "review_resumed"
                ELSE "returned_to_roger"

\* Mutant: the row is overwritten whatever its version.
AnyRow(l) == TRUE

\* The row is still the one that was read.
SameRow(l) == session[l.session].version = l.version

\* `rr return` leaves the task file to the previous run.
AfterReentry(l) == IF l.action = "resume_review" THEN "rebind" ELSE "idle"

\* finalize_existing_session_launch_attempt, if nobody wrote the row.
FinalizeReentry(p) ==
  LET l == local[p]
      s == l.session
  IN /\ pc[p] = "finalize"
     /\ l.action # "start_review"
     /\ SameRow(l)
     /\ session' = [session EXCEPT ![s] =
                      [Written(session[s], Reentered(l)) EXCEPT !.locator = TRUE]]
     /\ runs' = [runs EXCEPT ![s] = Append(@, l.run)]
     /\ SetState(l.run, "verified")
     /\ acked' = [acked EXCEPT ![s] = l.seen]
     /\ Goto(p, AfterReentry(l), l)
     /\ UNCHANGED <<taskFile, results, announced>>

\* Mutants: the run is inserted before the session's row is compared, in a
\* transaction of its own; a conflict is reported but not recorded.
ConflictKeepsRun(p) ==
  LET l == local[p] IN
  /\ pc[p] = "finalize"
  /\ l.action # "start_review"
  /\ ~SameRow(l)
  /\ runs' = [runs EXCEPT ![l.session] = Append(@, l.run)]
  /\ Goto(p, "fail", [l EXCEPT !.failure = "failed_session_binding"])
  /\ UNCHANGED <<session, attempts, taskFile, results, announced, acked>>
ConflictUnrecorded(p) ==
  LET l == local[p] IN
  /\ pc[p] = "finalize"
  /\ l.action # "start_review"
  /\ ~SameRow(l)
  /\ Goto(p, "idle", l)
  /\ UNCHANGED <<store, taskFile, announced, acked>>

\* Somebody wrote the row: the transaction is rolled back.
ReentryConflict(p) ==
  LET l == local[p] IN
  /\ pc[p] = "finalize"
  /\ l.action # "start_review"
  /\ ~SameRow(l)
  /\ Goto(p, "fail", [l EXCEPT !.failure = "failed_session_binding"])
  /\ UNCHANGED <<store, taskFile, announced, acked>>

\* The final transaction, or the bundle before it, cannot be written.
FinalizeFails(p) ==
  LET l == local[p] IN
  /\ CanFail
  /\ pc[p] = "finalize"
  /\ Goto(p, FailurePhase(l), [l EXCEPT !.failure = "failed_commit"])
  /\ UNCHANGED <<store, taskFile, announced, acked>>

Rebind(p) ==
  LET l == local[p] IN
  /\ pc[p] = "rebind"
  /\ NamesRun(l)
  /\ Goto(p, "idle", l)
  /\ UNCHANGED <<store, announced, acked>>
-----------------------------------------------------------------------------
(* `rr agent worker.submit_stage_result`.                                  *)

\* The task file is read; the worker's request agrees with it, or the call
\* is denied without effect.
AgentRead(p) ==
  /\ p \in Agents
  /\ pc[p] = "idle"
  /\ Len(results) + Cardinality({q \in Agents : pc[q] # "idle"}) < MaxResults
  /\ \E s \in Sessions :
       /\ taskFile[s] # 0
       /\ Goto(p, "w_bind", [Blank EXCEPT !.session = s, !.run = taskFile[s]])
  /\ UNCHANGED <<store, taskFile, announced, acked>>

\* The session must be in the store.
AgentBind(p) ==
  LET l == local[p]
      s == l.session
  IN /\ pc[p] = "w_bind"
     /\ \/ s \in Known /\ Goto(p, "w_record", Reading(l, s))
        \/ s \notin Known /\ Goto(p, "idle", l)
     /\ UNCHANGED <<store, taskFile, announced, acked>>

\* The result and its findings are stored; a foreign key wants the run.  A
\* result without findings announces nothing.
AgentRecord(p) ==
  LET l == local[p]
      s == l.session
      stored == \E i \in DOMAIN runs[s] : runs[s][i] = l.run
  IN /\ pc[p] = "w_record"
     /\ results' = IF stored
                   THEN Append(results, [session |-> s, run |-> l.run])
                   ELSE results
     /\ \/ stored /\ Goto(p, "w_ready", l)
        \/ Goto(p, "idle", l)
     /\ UNCHANGED <<session, runs, attempts, taskFile, announced, acked>>

\* The session becomes findings_ready if its row is the one last read; a
\* first conflict reads it again, a second one is reported.
AgentReady(p) ==
  LET l == local[p]
      s == l.session
      same == session[s].version = l.version
  IN /\ pc[p] = "w_ready"
     /\ session' = [session EXCEPT
          ![s] = IF same THEN Written(session[s], "findings_ready") ELSE @]
     /\ announced' = [announced EXCEPT ![s] = IF same THEN @ + 1 ELSE @]
     /\ Goto(p, IF same \/ l.retried THEN "idle" ELSE "w_reload", l)
     /\ UNCHANGED <<runs, attempts, taskFile, results, acked>>

AgentReload(p) ==
  LET l == local[p] IN
  /\ pc[p] = "w_reload"
  /\ Goto(p, "w_ready", [Reading(l, l.session) EXCEPT !.retried = TRUE])
  /\ UNCHANGED <<store, taskFile, announced, acked>>
-----------------------------------------------------------------------------
\* A process is killed, or a statement of it fails and it gives up.
Stop(p) ==
  /\ CanFail
  /\ pc[p] # "idle"
  /\ Goto(p, "idle", Blank)
  /\ UNCHANGED <<store, taskFile, announced, acked>>

Start(p) == Review(p) \/ Fresh(p) \/ Resume(p) \/ AgentRead(p)

Step(p) ==
  \/ Reenter(p) \/ Abandon(p) \/ Insert(p) \/ StageTask(p) \/ Provision(p)
  \/ ProvisionRun(p) \/ Launched(p) \/ LaunchFailed(p) \/ FinalizeStart(p)
  \/ Demote(p) \/ DemotePut(p) \/ Fail(p) \/ FinalizeReentry(p)
  \/ ReentryConflict(p) \/ FinalizeFails(p) \/ Rebind(p)
  \/ AgentBind(p) \/ AgentRecord(p) \/ AgentReady(p) \/ AgentReload(p)

Next == \E p \in Procs : Start(p) \/ Step(p) \/ Stop(p)

Spec == Init /\ [][Next]_vars

\* A command that was started runs to its end: no step waits for another
\* process, and the provider's session ends.
FairSpec == Spec /\ \A p \in Procs : WF_vars(Step(p))
-----------------------------------------------------------------------------
(* Properties.                                                             *)

\* A run in the store was committed by an attempt that verified its
\* provider session, or was provisioned by a hosted start: an attempt that
\* fails, is abandoned or dies leaves nothing that looks like a review.
RunsVerified ==
  \A s \in Sessions : \A i \in DOMAIN runs[s] :
    \/ attempts[runs[s][i]].state = "verified"
    \/ /\ attempts[runs[s][i]].action = "start_review"
       /\ session[s].provider = "hosted"

\* No session of a linked provider is in the store before a provider session
\* was verified for it.
SessionsVerified ==
  \A s \in Known : session[s].provider = "linked" =>
    \E i \in DOMAIN attempts :
      attempts[i].session = s /\ attempts[i].state = "verified"

\* The store holds no session and no run of a launch that was not verified.
SessionInv == TypeOK /\ RunsVerified /\ SessionsVerified

\* No re-entry and no demotion hides findings that it did not know of, also
\* where the worker of a hosted start submits during the launch.
ReentriesSeeAnnouncements ==
  \A s \in Known :
    session[s].attention \in {"review_resumed", "returned_to_roger",
                             "review_failed"}
      => acked[s] = announced[s]

AllIdle == \A p \in Procs : pc[p] = "idle"

\* A session has one re-entry attempt of a kind in flight: a retry gives up
\* the ones that dead commands left.
OneInFlight ==
  \A i, j \in DOMAIN attempts :
    /\ attempts[i].session = attempts[j].session
    /\ attempts[i].action = attempts[j].action
    /\ {attempts[i].state, attempts[j].state} \subseteq InFlight
    => i = j

\* Reviews without --fresh share one live session.
OneLiveSession == Cardinality(Reusable) <= 1

\* What dead commands left behind does not pile up, and does not keep a
\* later one from the session that is there.
RetriesLeaveOne == OneInFlight /\ OneLiveSession

\* Once the commands have ended, whatever session `rr review` would reuse
\* can be resumed.
ReusableIsResumable ==
  AllIdle => \A s \in Reusable : session[s].locator

\* Every attempt ends and stays ended, also one that another command gave up
\* and its own command took up again.
EventuallySettled ==
  \A i \in 1..MaxAttempts :
    i \in DOMAIN attempts
      ~> [](i \in DOMAIN attempts /\ attempts[i].state \in Terminal)
=============================================================================
