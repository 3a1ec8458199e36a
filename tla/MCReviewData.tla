---------------------------- MODULE MCReviewData ----------------------------
(* Instances of five components of a review that share nothing but the store *)
(* file: the ledger of findings, the two review queues, the worker's         *)
(* transport, prior-review search and the launching of a provider.           *)
(* `component` says which one a behaviour is about, so the state space is    *)
(* the disjoint sum of theirs.                                               *)
EXTENDS FindingLedger, ReviewQueues, WorkerGateway, PriorReviewSearch, ProviderLaunch, TLC

CONSTANTS fpA, fpB, s1, s2, o1, o2, k1, k2, r1, r2, w1, f1, f2, a1

MCPacks == {<<fpA, fpA>>, <<Untitled, fpB, fpA>>}
MCScenarios == {[serial |-> TRUE, crew |-> {s1, s2, o1}],
                [serial |-> FALSE, crew |-> {s1, s2}],
                [serial |-> FALSE, crew |-> {s1, o1, o2}]}

MCQueueScenarios ==
  {[serial |-> TRUE, crew |-> {r1, r2}, kinds |-> MemoryKinds, asks |-> FALSE],
   [serial |-> FALSE, crew |-> {r1, r2}, kinds |-> {"promote"}, asks |-> FALSE],
   [serial |-> TRUE, crew |-> {}, kinds |-> {}, asks |-> TRUE]}

MCAllowed == Operations \ {"propose_follow_up"}

MCText == 1 :> [name |-> {"log", "token"}, body |-> {"log"}] @@
          2 :> [name |-> {"log", "token", "never"}, body |-> {"log", "token"}] @@
          3 :> [name |-> {"fp"}, body |-> {"log"}] @@
          4 :> [name |-> {"pr"}, body |-> {"fp", "log"}]
MCAffinity == 1 :> 300 @@ 2 :> 900 @@ 3 :> 700 @@ 4 :> 700
MCSearchers == [operator |-> 1, worker |-> 2, cockpit |-> 1]
Ask(tokens, mode, anchors, classes, locator) ==
  [tokens |-> tokens, mode |-> mode, anchors |-> anchors, classes |-> classes, locator |-> locator]
MCQueries ==
  {Ask({"log", "token"}, m, FALSE, {}, FALSE) :
     m \in {"auto", "exact_lookup", "candidate_audit", "promotion_review"}}
  \cup {Ask({"log"}, m, TRUE, {"promoted_memory", "tentative_candidates"}, FALSE) :
          m \in {"auto", "candidate_audit"}}
  \cup {Ask({"fp"}, "auto", FALSE, {}, l) : l \in BOOLEAN}
  \cup {Ask({}, m, x, {}, FALSE) : m \in {"auto", "related_context"}, x \in BOOLEAN}

VARIABLE component   \* which one moves; no step changes it

dataVars == <<component, ledgerVars, queueVars, gatewayVars, searchVars, launchVars>>

\* A component that does not move stays in one of its initial states.
Resting ==
    /\ IF component = "ledger" THEN TRUE ELSE scenario = CHOOSE s \in Scenarios : TRUE
    /\ IF component = "queues" THEN TRUE ELSE queueMode = CHOOSE s \in QueueScenarios : TRUE
    /\ IF component = "gateway" THEN TRUE ELSE seenIn = [f \in Findings |-> 0] /\ verified = FALSE
    /\ IF component = "search" THEN TRUE ELSE standing = [m \in Memories |-> "absent"]
    /\ IF component = "launch" THEN TRUE
       ELSE /\ order = [x \in Attempts |-> CHOOSE o \in Orders : Sensible(o)]
            /\ alive = {} /\ newestState = NoSessionId

DataInit ==
    /\ component \in {"ledger", "queues", "gateway", "search", "launch"}
    /\ Resting
    /\ LedgerInit /\ QueueInit /\ GatewayInit /\ SearchInit /\ LaunchInit

LedgerStep == /\ component = "ledger" /\ LedgerNext
              /\ UNCHANGED <<component, queueVars, gatewayVars, searchVars, launchVars>>
QueueStep == /\ component = "queues" /\ QueueNext
             /\ UNCHANGED <<component, ledgerVars, gatewayVars, searchVars, launchVars>>
GatewayStep == /\ component = "gateway" /\ GatewayNext
               /\ UNCHANGED <<component, ledgerVars, queueVars, searchVars, launchVars>>
SearchStep == /\ component = "search" /\ SearchNext
              /\ UNCHANGED <<component, ledgerVars, queueVars, gatewayVars, launchVars>>
LaunchStep == /\ component = "launch" /\ LaunchNext
              /\ UNCHANGED <<component, ledgerVars, queueVars, gatewayVars, searchVars>>

DataNext == LedgerStep \/ QueueStep \/ GatewayStep \/ SearchStep \/ LaunchStep

DataSpec == DataInit /\ [][DataNext]_dataVars
=============================================================================
