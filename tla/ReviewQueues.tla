---------------------------- MODULE ReviewQueues ----------------------------
(* The two queues that wait for the operator of one repository: proposals to *)
(* change a memory item, and clarifications asked about findings. Workers    *)
(* and operators fill them; `rr memory accept|reject` and the cockpit        *)
(* resolve proposals, each reading a request and then resolving it in a      *)
(* transaction of its own.                                                   *)
EXTENDS Naturals, Sequences, FiniteSets

CONSTANTS MemoryKeys,     \* normalized statements of proposals
          MemoryKinds,    \* request kinds that are proposed
          Bodies,         \* texts of clarifications, Blank among them
          Subjects,       \* findings that clarifications name
          OwnFindings,    \* those of the session the command resolved
          Commands,       \* `rr memory accept|reject`
          Cockpits,       \* cockpits that accept and reject
          QueueScenarios, \* [serial, crew, kinds, asks]: may resolutions overlap, who
                          \* resolves, what is proposed, are there clarifications
          MaxProposals,   \* bound: rows of memory_review_requests
          MaxSeconds,     \* bound: seconds that pass
          NoItem, Blank

Resolvers == Commands \cup Cockpits
KindNames == {"promote", "restore", "demote", "deprecate", "mark_anti_pattern"}

ASSUME QueueConstants ==
    /\ MemoryKinds \subseteq KindNames
    /\ MaxProposals \in Nat /\ MaxSeconds \in Nat
    /\ NoItem \notin MemoryKeys
    /\ OwnFindings \subseteq Subjects
    /\ \A s \in QueueScenarios : /\ s.serial \in BOOLEAN
                                 /\ s.crew \subseteq Resolvers
                                 /\ s.kinds \subseteq MemoryKinds
                                 /\ s.asks \in BOOLEAN

VARIABLES proposals,  \* memory_review_requests, in insertion order
          memory,     \* memory_items: rows in insertion order
          questions,  \* clarification_requests: content -> status and second
          second,     \* time::now_ts()
          queueMode,  \* the scenario; no step changes it
          resolver,   \* state of each resolution
          accepts     \* history: proposals whose acceptance was committed, in order

queueVars == <<proposals, memory, questions, second, queueMode, resolver, accepts>>

Target(kind) == CASE kind \in {"promote", "restore"} -> "established"
                  [] kind = "demote"                 -> "candidate"
                  [] kind = "deprecate"              -> "deprecated"
                  [] OTHER                           -> "anti_pattern"

Idle == [pc |-> "idle", request |-> 0, decision |-> "none"]
Pending == {n \in DOMAIN proposals : proposals[n].status = "pending_review"}

QueueInit ==
    /\ proposals = <<>> /\ memory = <<>> /\ accepts = <<>>
    /\ questions = {}
    /\ second = 0
    /\ queueMode \in QueueScenarios
    /\ resolver = [r \in Resolvers |-> Idle]

----------------------------------------------------------------------------
(* Filling the queues                                                        *)

\* create_memory_review_request. The id names the second, so the same proposal
\* in the same second is refused by the primary key, and a later one is a new
\* row. The worker's transport, which only promotes, skips a refused proposal
\* and still succeeds.
ProposalId(kind, key) == <<IF kind = "promote" THEN "worker" ELSE "operator", kind, key, second>>

Propose(kind, key) ==
    /\ Len(proposals) < MaxProposals
    /\ kind \in queueMode.kinds
    /\ \A n \in DOMAIN proposals : proposals[n].id # ProposalId(kind, key)
    /\ proposals' = Append(proposals, [id |-> ProposalId(kind, key), kind |-> kind, key |-> key,
                                       status |-> "pending_review", item |-> NoItem])
    /\ UNCHANGED <<memory, questions, second, queueMode, resolver, accepts>>

\* `rr clarify` wants a text and a finding of the session it resolved.
Askable(subject, body) == body # Blank /\ subject \in OwnFindings

\* create_clarification_request: the id is the content, a second request of the
\* same content changes nothing and is answered with the row that is there.
Clarify(run, subject, body) ==
    /\ queueMode.asks
    /\ Askable(subject, body)
    /\ questions' = IF \E q \in questions : <<q.run, q.subject, q.body>> = <<run, subject, body>>
                    THEN questions
                    ELSE questions \cup {[run |-> run, subject |-> subject, body |-> body,
                                          status |-> "open", asked |-> second]}
    /\ UNCHANGED <<proposals, memory, second, queueMode, resolver, accepts>>

\* resolve_clarification_request, which no command calls yet.
ResolveClarification(q) ==
    /\ q.status = "open"
    /\ questions' = (questions \ {q}) \cup {[q EXCEPT !.status = "resolved"]}
    /\ UNCHANGED <<proposals, memory, second, queueMode, resolver, accepts>>

----------------------------------------------------------------------------
(* Resolving a proposal                                                      *)

\* The operator names a request, from a list that may be old: the cockpit keeps
\* the list it loaded, and the command takes any id. `rr memory` reads the
\* request once more than the cockpit; a resolved request is refused.
MayResolve(r) == /\ r \in queueMode.crew
                 /\ queueMode.serial => \A s \in Resolvers \ {r} : resolver[s] = Idle

LookUpRequest(r) ==
    /\ r \in Commands
    /\ resolver[r] = Idle
    /\ MayResolve(r)
    /\ \E n \in Pending, decision \in {"accept", "reject"} :
         resolver' = [resolver EXCEPT ![r] = [pc |-> "found", request |-> n, decision |-> decision]]
    /\ UNCHANGED <<proposals, memory, questions, second, queueMode, accepts>>

\* resolve_memory_review_request reads the status before its transaction.
ReadStatus(r) ==
    /\ r \in Commands
    /\ resolver[r].pc = "found"
    /\ resolver' = [resolver EXCEPT ![r] = IF @.request \in Pending THEN [@ EXCEPT !.pc = "commit"]
                                           ELSE Idle]
    /\ UNCHANGED <<proposals, memory, questions, second, queueMode, accepts>>

ResolveFocused(r) ==
    /\ r \in Cockpits
    /\ resolver[r] = Idle
    /\ MayResolve(r)
    /\ \E n \in Pending, decision \in {"accept", "reject"} :
         resolver' = [resolver EXCEPT ![r] = [pc |-> "commit", request |-> n, decision |-> decision]]
    /\ UNCHANGED <<proposals, memory, questions, second, queueMode, accepts>>

\* Mutant: an item in another state does not count as the same item.
ItemsInState(key, kind) == {i \in DOMAIN memory : memory[i].key = key /\ memory[i].state = Target(kind)}

\* The rows an acceptance of the key would update.
ItemsFor(key, kind) == {i \in DOMAIN memory : memory[i].key = key}

Materialised(p) ==
    LET found == ItemsFor(p.key, p.kind) IN
    IF found = {} THEN Append(memory, [key |-> p.key, state |-> Target(p.kind)])
    ELSE [memory EXCEPT ![CHOOSE i \in found : TRUE].state = Target(p.kind)]

\* Mutant: the update is not guarded by the status.
CloseUnguarded(n, status, item) == [proposals EXCEPT ![n].status = status, ![n].item = item]

\* UPDATE ... WHERE id AND status = 'pending_review'; whether a row was updated
\* is not looked at.
Close(n, status, item) ==
    IF n \in Pending
    THEN [proposals EXCEPT ![n].status = status, ![n].item = item]
    ELSE proposals

\* One transaction: the item is looked up and written, then the request is
\* closed. The status is not read again in it.
CommitResolution(r) ==
    LET n == resolver[r].request
        p == proposals[n]
    IN
    /\ resolver[r].pc = "commit"
    /\ \/ /\ resolver[r].decision = "accept"
          /\ memory' = Materialised(p)
          /\ proposals' = Close(n, "accepted", p.key)
          /\ accepts' = Append(accepts, n)
       \/ /\ resolver[r].decision = "reject"
          /\ proposals' = Close(n, "rejected", NoItem)
          /\ UNCHANGED <<memory, accepts>>
    /\ resolver' = [resolver EXCEPT ![r] = Idle]
    /\ UNCHANGED <<questions, second, queueMode>>

\* The process dies before the commit, or the transaction finds the database
\* busy: nothing is written.
ResolutionFails(r) ==
    /\ resolver[r] # Idle
    /\ resolver' = [resolver EXCEPT ![r] = Idle]
    /\ UNCHANGED <<proposals, memory, questions, second, queueMode, accepts>>

QueueTick ==
    /\ second < MaxSeconds
    /\ second' = second + 1
    /\ UNCHANGED <<proposals, memory, questions, queueMode, resolver, accepts>>

QueueNext ==
    \/ \E kind \in MemoryKinds, key \in MemoryKeys : Propose(kind, key)
    \/ \E run \in {1, 2}, subject \in Subjects, body \in Bodies : Clarify(run, subject, body)
    \/ \E q \in questions : ResolveClarification(q)
    \/ \E r \in Resolvers : \/ LookUpRequest(r) \/ ReadStatus(r) \/ ResolveFocused(r)
                           \/ CommitResolution(r) \/ ResolutionFails(r)
    \/ QueueTick

QueueSpec == QueueInit /\ [][QueueNext]_queueVars
----------------------------------------------------------------------------
(* Properties                                                                *)

QueuesTypeOK ==
    /\ Len(proposals) <= MaxProposals
    /\ \A n \in DOMAIN proposals :
         /\ proposals[n].status \in {"pending_review", "accepted", "rejected"}
         /\ proposals[n].item = IF proposals[n].status = "accepted" THEN proposals[n].key ELSE NoItem
    /\ memory \in Seq([key : MemoryKeys, state : {Target(kind) : kind \in KindNames}])
    /\ queueMode \in QueueScenarios
    /\ second \in 0..MaxSeconds
    /\ \A r \in Resolvers : resolver[r] = Idle \/ resolver[r].request \in DOMAIN proposals

\* Whatever resolutions overlap, a request that was accepted or rejected keeps
\* that status and the item it led to.
ProposalsStay ==
    \A n \in DOMAIN proposals :
      proposals[n].status # "pending_review" => proposals'[n] = proposals[n]

\* A clarification that was asked keeps its row: asking again, from whatever
\* surface, neither reopens what was resolved nor makes it younger.
QuestionsStay ==
    \A q \in questions : \E p \in questions' :
      /\ <<p.run, p.subject, p.body, p.asked>> = <<q.run, q.subject, q.body, q.asked>>
      /\ q.status = "resolved" => p.status = "resolved"

\* A decision of the operator about either queue is final.
DecisionIsFinal == [][ProposalsStay /\ QuestionsStay]_queueVars

\* Acceptance deduplicates by normalized statement: whatever kinds of changes
\* are accepted in whatever order, a statement has one memory item.
OneItemPerKey ==
    \A i, k \in DOMAIN memory : memory[i].key = memory[k].key => i = k

\* When resolutions do not overlap, memory is what the operator decided: an
\* item is in the state that the acceptance committed last for its statement
\* asked for, and every accepted request has its item.
AcceptedFor(key) == {n \in DOMAIN accepts : proposals[accepts[n]].key = key}

MemoryExplained ==
    queueMode.serial =>
      /\ \A i \in DOMAIN memory :
           LET mine == AcceptedFor(memory[i].key) IN
           /\ \E last \in mine : /\ \A n \in mine : n <= last
                                 /\ memory[i].state = Target(proposals[accepts[last]].kind)
           /\ \A n \in mine : proposals[accepts[n]].status = "accepted"
      /\ \A n \in DOMAIN proposals : proposals[n].status = "accepted" =>
           \E i \in DOMAIN memory : memory[i].key = proposals[n].key

\* What the resolutions of proposals leave in memory.
QueuesInv ==
    /\ QueuesTypeOK
    /\ OneItemPerKey
    /\ MemoryExplained

=============================================================================
