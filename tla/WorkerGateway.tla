---------------------------- MODULE WorkerGateway ----------------------------
(* `rr agent <operation> --task-file <file>`: one call of a worker. The      *)
(* command loads what the task is bound to, builds a snapshot for the        *)
(* operation, has the transport authorise and answer the request from that   *)
(* snapshot, and stores accepted proposals before it reports success. Other  *)
(* processes write to the store between these steps.                         *)
(*                                                                           *)
(* What a request gets wrong is a set of flaws; everything not named in it   *)
(* agrees with the task.                                                     *)
EXTENDS Naturals, FiniteSets

CONSTANTS Calls,             \* calls of the task's worker
          Findings,          \* findings of the session
          AllowedOperations, \* what the task file allows
          MaxFlaws,          \* bound: flaws of one request
          NoFinding

Reads == {"get_review_context", "search_memory", "list_findings", "get_finding_detail",
          "get_artifact_excerpt", "get_status"}
Proposals == {"submit_stage_result", "request_clarification", "request_memory_review",
              "propose_follow_up"}
Operations == Reads \cup Proposals

Identity == {"schema", "session", "run", "task", "nonce"}
Flaws == Identity \cup {"scope", "capability", "transport", "other context", "no request",
                        "no payload", "malformed payload", "result of another task",
                        "operation of another command", "unknown session"}

ASSUME GatewayConstants ==
    /\ AllowedOperations \subseteq Operations
    /\ MaxFlaws \in Nat
    /\ NoFinding \notin Findings

VARIABLES seenIn,      \* the run each finding was last seen in; 0: not yet stored
          taskRun,     \* the run the task file names
          latestRun,   \* the session's latest run
          results,     \* accepted stage results and memory proposals: who stored them, for which run
          verified,    \* are semantic assets verified on this machine
          agent        \* state of each call

gatewayVars == <<seenIn, taskRun, latestRun, results, verified, agent>>

Waiting == [pc |-> "idle", op |-> "none", flaws |-> {}, subject |-> NoFinding, run |-> 0,
            shown |-> {}, reply |-> "none"]

\* materialized_findings_for_run.
Bound(run) == {f \in Findings : seenIn[f] = run}

GatewayInit ==
    /\ seenIn \in [Findings -> {0, 1}]
    /\ taskRun = 1
    /\ latestRun = 1
    /\ results = {}
    /\ verified \in BOOLEAN
    /\ agent = [c \in Calls |-> Waiting]

FlawSets == UNION {{s \in SUBSET Flaws : Cardinality(s) = n} : n \in 0..MaxFlaws}

----------------------------------------------------------------------------
(* The transport: execute_agent_transport_request, without side effects      *)

\* Mutant: the scopes are compared only for requests that are denied anyway.
AuthorizationAnyScope(op, flaws) ==
    IF flaws \cap Identity # {} THEN "error"
    ELSE IF op \notin AllowedOperations \/ "capability" \in flaws THEN "denied"
    ELSE "granted"

\* A request that is not the task's is an error; one that is, but asks for what
\* the task does not allow, is denied.
Authorization(op, flaws) ==
    IF flaws \cap Identity # {} THEN "error"
    ELSE IF op \notin Operations \cap AllowedOperations THEN "denied"
    ELSE IF flaws \cap {"scope", "capability"} # {} THEN "denied"
    ELSE "granted"

\* These operations are answered without a payload.
SelfServiceable == {"get_review_context", "get_status", "list_findings"}

\* The request that a call without one stands for is built from the task.
Effective(op, flaws) == IF "no request" \in flaws /\ op \in SelfServiceable
                        THEN flaws \ (Identity \cup {"scope"}) ELSE flaws

Decoded(flaws) == flaws \cap {"no payload", "malformed payload"} = {}

\* The transport plans a memory search again as if no semantic assets were
\* there: where they are verified, the plan differs and the answer is refused.
Answer(op, flaws) ==
    IF /\ op \notin SelfServiceable
       /\ \/ ~Decoded(flaws)
          \/ op = "search_memory" /\ verified
          \/ op = "submit_stage_result" /\ "result of another task" \in flaws
    THEN "error" ELSE "succeeded"

Transport(op, flaws) ==
    IF flaws \cap {"transport", "other context"} # {} THEN "error"
    ELSE LET authorization == Authorization(op, flaws) IN
         IF authorization = "granted" THEN Answer(op, flaws) ELSE authorization

----------------------------------------------------------------------------
(* The command: handle_agent                                                 *)

\* Task, profile and request are read; an operation other than the command's,
\* or a session that is gone, ends the call.
Call(c) ==
    /\ agent[c] = Waiting
    /\ \E op \in Operations \cup {"other"}, flaws \in FlawSets, subject \in Findings :
         LET readable == /\ "operation of another command" \notin flaws
                         /\ "no request" \in flaws => op \in SelfServiceable
                         /\ "unknown session" \notin flaws
         IN agent' = [agent EXCEPT ![c] =
              [pc |-> IF readable THEN "findings" ELSE "done", op |-> op,
               flaws |-> Effective(op, flaws), subject |-> subject, run |-> taskRun,
               shown |-> {},
               reply |-> IF readable THEN "none" ELSE "error"]]
    /\ UNCHANGED <<seenIn, taskRun, latestRun, results, verified>>

\* The findings bound to the task's run, which a list is answered with. The
\* context is answered with the findings of the packet: those same ones, unless
\* the call names a packet (--context-file). Its header must be the task's; what
\* findings it lists is compared with nothing.
LoadFindings(c) ==
    /\ agent[c].pc = "findings"
    /\ \E given \in BOOLEAN, packet \in SUBSET Findings :
         /\ "other context" \in agent[c].flaws => given
         /\ ~given => packet = Bound(agent[c].run)
         /\ agent' = [agent EXCEPT ![c].pc = "snapshot",
                      ![c].shown = IF agent[c].op = "get_review_context" THEN packet
                                   ELSE IF agent[c].op \in {"list_findings", "get_status"}
                                   THEN Bound(agent[c].run) ELSE {}]
    /\ UNCHANGED <<seenIn, taskRun, latestRun, results, verified>>

\* finding_binds_to_task.
BindsToTask(f, run) == seenIn[f] = run

\* The snapshot is built before the transport authorises: the detail of a
\* finding outside the task's run is an error, whatever the request may do.
Respond(c) ==
    LET op == agent[c].op
        flaws == agent[c].flaws
        detail == op = "get_finding_detail" /\ Decoded(flaws)
        reply == IF detail /\ ~BindsToTask(agent[c].subject, agent[c].run) THEN "error"
                 ELSE Transport(op, flaws)
        stores == reply = "succeeded" /\ op \in {"submit_stage_result", "request_memory_review"}
    IN
    /\ agent[c].pc = "snapshot"
    /\ agent' = [agent EXCEPT ![c].pc = IF stores THEN "store" ELSE "done",
                 ![c].reply = IF stores THEN "none" ELSE reply,
                 ![c].shown = IF reply # "succeeded" THEN {}
                              ELSE IF detail THEN {agent[c].subject} ELSE @]
    /\ UNCHANGED <<seenIn, taskRun, latestRun, results, verified>>

\* The audit row of a stage result; a memory proposal names the latest run, and
\* when it cannot be stored the call succeeds all the same.
RecordAccepted(c) ==
    /\ agent[c].pc = "store"
    /\ \/ /\ agent[c].op = "submit_stage_result"
          /\ results' = results \cup {[by |-> c, kind |-> "result", run |-> agent[c].run]}
          /\ agent' = [agent EXCEPT ![c].pc = "materialise"]
       \/ /\ agent[c].op = "request_memory_review"
          /\ results' \in {results, results \cup {[by |-> c, kind |-> "proposal", run |-> latestRun]}}
          /\ agent' = [agent EXCEPT ![c].pc = "done", ![c].reply = "succeeded"]
    /\ UNCHANGED <<seenIn, taskRun, latestRun, verified>>

\* FindingLedger has the steps in between; here the findings reported are bound
\* to the task's run at the end.
Materialise(c) ==
    /\ agent[c].pc = "materialise"
    /\ \E reported \in SUBSET Findings :
         seenIn' = [f \in Findings |-> IF f \in reported THEN agent[c].run ELSE seenIn[f]]
    /\ agent' = [agent EXCEPT ![c].pc = "done", ![c].reply = "succeeded"]
    /\ UNCHANGED <<taskRun, latestRun, results, verified>>

\* A statement fails: what was stored stays, and the worker is told of an error.
CallFails(c) ==
    /\ agent[c].pc \notin {"idle", "done"}
    /\ agent' = [agent EXCEPT ![c].pc = "done", ![c].reply = "error", ![c].shown = {}]
    /\ UNCHANGED <<seenIn, taskRun, latestRun, results, verified>>

----------------------------------------------------------------------------
(* Other processes                                                           *)

\* `rr return` adds a run and leaves the task file; a resume rewrites it.
NextRun ==
    /\ latestRun = 1
    /\ latestRun' = 2
    /\ taskRun' \in {1, 2}
    /\ UNCHANGED <<seenIn, results, verified, agent>>

\* A worker of the latest run reports a finding again.
SeenElsewhere(f) ==
    /\ seenIn[f] # latestRun
    /\ seenIn' = [seenIn EXCEPT ![f] = latestRun]
    /\ UNCHANGED <<taskRun, latestRun, results, verified, agent>>

GatewayNext ==
    \/ \E c \in Calls : \/ Call(c) \/ LoadFindings(c) \/ Respond(c) \/ RecordAccepted(c)
                        \/ Materialise(c) \/ CallFails(c)
    \/ NextRun
    \/ \E f \in Findings : SeenElsewhere(f)

GatewaySpec == GatewayInit /\ [][GatewayNext]_gatewayVars
----------------------------------------------------------------------------
(* Properties                                                                *)

GatewayTypeOK ==
    /\ seenIn \in [Findings -> 0..2]
    /\ taskRun \in 1..latestRun /\ latestRun \in 1..2
    /\ results \subseteq [by : Calls, kind : {"result", "proposal"}, run : 1..2]
    /\ \A c \in Calls :
         /\ agent[c].pc \in {"idle", "findings", "snapshot", "store", "materialise", "done"}
         /\ agent[c].reply \in {"none", "succeeded", "denied", "error"}
         /\ agent[c].reply # "none" <=> agent[c].pc = "done"

\* Whatever combination of things is wrong with a request, the store only keeps
\* what came from a request with the task's identity, for an operation and a
\* scope the task allows, within the worker's capabilities, and decodable
\* (validate_operation_request, validate_stage_result before persistence).
OnlyAuthorisedWrites ==
    \A r \in results :
      /\ agent[r.by].op \in AllowedOperations
      /\ agent[r.by].flaws \cap (Identity \cup {"scope", "capability", "transport", "other context",
                                  "no payload", "malformed payload"}) = {}
      /\ r.kind = "result" => "result of another task" \notin agent[r.by].flaws

\* "An accepted stage result must be durable before Roger reports acceptance",
\* and a call that is denied has stored nothing.
RepliesMatchTheStore ==
    \A c \in Calls :
      /\ agent[c].reply = "succeeded" /\ agent[c].op = "submit_stage_result" =>
           \E r \in results : r.by = c
      /\ agent[c].reply = "denied" => \A r \in results : r.by # c

\* No finding is shown to a call whose request or context is not the task's, or
\* asks for what the task, its scopes or the worker's capabilities do not allow:
\* the snapshot holds findings before the transport authorises.
OnlyAuthorisedAnswers ==
    \A c \in Calls : agent[c].pc = "done" /\ agent[c].shown # {} =>
      /\ agent[c].op \in AllowedOperations
      /\ agent[c].flaws \cap (Identity \cup {"scope", "capability", "transport", "other context"}) = {}

\* What the worker's transport stores and answers, whatever is wrong with the
\* request.
GatewayInv ==
    /\ GatewayTypeOK
    /\ OnlyAuthorisedWrites
    /\ OnlyAuthorisedAnswers
    /\ RepliesMatchTheStore

=============================================================================
