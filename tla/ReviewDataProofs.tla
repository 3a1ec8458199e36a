--------------------------- MODULE ReviewDataProofs ---------------------------
(*****************************************************************************)
(* Proofs about what a review collects, each component for every value of    *)
(* its constants: the memory and question queues, what workers read and      *)
(* store through the gateway, the launches of providers, and the search of   *)
(* what earlier reviews left.                                                *)
(*****************************************************************************)
EXTENDS ReviewQueues, WorkerGateway, ProviderLaunch, PriorReviewSearch,
        FunctionTheorems, FiniteSetTheorems, WellFoundedInduction, TLAPS

-------------------------------------------------------------------------------
(***************************************************************************)
(* Proofs about ReviewQueues for all statements, texts, findings, commands *)
(* and cockpits, and for resolutions that overlap in any way.              *)
(***************************************************************************)

ProposalIds == {"worker", "operator"} \X MemoryKinds \X MemoryKeys \X Nat
Proposal == [id : ProposalIds, kind : MemoryKinds, key : MemoryKeys,
             status : {"pending_review", "accepted", "rejected"},
             item : MemoryKeys \cup {NoItem}]
Question == [run : {1, 2}, subject : Subjects, body : Bodies,
             status : {"open", "resolved"}, asked : Nat]
States   == {Target(kind) : kind \in KindNames}
Memory   == [key : MemoryKeys, state : States]

Resolution == [pc : {"idle", "found", "commit"}, request : Nat,
               decision : {"none", "accept", "reject"}]

\* The rows, and the requests that resolutions hold: whatever they read may be
\* old, but a request does not vanish.
QueueRows ==
  /\ proposals \in Seq(Proposal)
  /\ memory \in Seq(Memory)
  /\ questions \in SUBSET Question
  /\ second \in Nat
  /\ resolver \in [Resolvers -> Resolution]
  /\ \A r \in Resolvers :
       resolver[r].pc # "idle" => resolver[r].request \in DOMAIN proposals

QueueInv == QueueRows /\ OneItemPerKey

-----------------------------------------------------------------------------
LEMMA TargetIsState == \A kind \in MemoryKinds : Target(kind) \in States
BY QueueConstants DEF States

LEMMA QueueInitial == QueueInit => QueueInv
BY DEF QueueInit, QueueInv, QueueRows, OneItemPerKey, Idle, Resolution

\* An acceptance changes the state of an item of its statement or, if there is
\* none, adds one.
LEMMA AcceptanceKeepsOne ==
  ASSUME QueueInv, NEW p \in Proposal
  PROVE  /\ Materialised(p) \in Seq(Memory)
         /\ \A i, k \in DOMAIN Materialised(p) :
              Materialised(p)[i].key = Materialised(p)[k].key => i = k
<1> DEFINE found == ItemsFor(p.key, p.kind)
<1>1. Target(p.kind) \in States /\ p.key \in MemoryKeys
  BY TargetIsState DEF Proposal
<1>2. memory \in Seq(Memory) /\ OneItemPerKey
  BY DEF QueueInv, QueueRows
<1>3. CASE found = {}
  <2> DEFINE new == [key |-> p.key, state |-> Target(p.kind)]
  <2>1. Materialised(p) = Append(memory, new) /\ new \in Memory
    BY <1>1, <1>3 DEF Materialised, Memory
  <2>2. \A i \in DOMAIN memory : memory[i].key # p.key
    BY <1>3 DEF ItemsFor
  <2>3. new.key = p.key
    OBVIOUS
  <2> HIDE DEF new
  <2> QED BY <1>2, <2>1, <2>2, <2>3 DEF OneItemPerKey
<1>4. CASE found # {}
  <2> DEFINE j == CHOOSE i \in found : TRUE
             m == [memory EXCEPT ![j].state = Target(p.kind)]
  <2>1. j \in DOMAIN memory /\ Materialised(p) = m
    BY <1>4 DEF ItemsFor, Materialised
  <2> HIDE DEF j
  <2>2. /\ m \in Seq(Memory) /\ DOMAIN m = DOMAIN memory
        /\ \A i \in DOMAIN memory : m[i].key = memory[i].key
    <3> DEFINE item == [memory[j] EXCEPT !.state = Target(p.kind)]
    <3>1. m = [memory EXCEPT ![j] = item]
      BY <1>2, <2>1
    <3>2. memory[j] \in Memory
      BY <1>2, <2>1
    <3>3. item \in Memory /\ item.key = memory[j].key
      BY <1>1, <3>2 DEF Memory
    <3> HIDE DEF item
    <3> QED BY <1>2, <2>1, <3>1, <3>3, SMTT(30)
  <2> QED BY <1>2, <2>1, <2>2 DEF OneItemPerKey
<1> QED BY <1>3, <1>4

\* A request is closed once: a later loser finds it closed and changes nothing.
LEMMA CloseKeeps ==
  ASSUME QueueInv, NEW n \in DOMAIN proposals,
         NEW status \in {"accepted", "rejected"},
         NEW item \in MemoryKeys \cup {NoItem}
  PROVE  /\ Close(n, status, item) \in Seq(Proposal)
         /\ DOMAIN Close(n, status, item) = DOMAIN proposals
         /\ \A k \in DOMAIN proposals :
              proposals[k].status # "pending_review"
                => Close(n, status, item)[k] = proposals[k]
<1>1. proposals \in Seq(Proposal)
  BY DEF QueueInv, QueueRows
<1>2. CASE n \in Pending
  <2> DEFINE closed == [proposals[n] EXCEPT !.status = status, !.item = item]
  <2>1. Close(n, status, item) = [proposals EXCEPT ![n] = closed]
    BY <1>1, <1>2 DEF Close, Proposal
  <2>2. proposals[n] \in Proposal /\ proposals[n].status = "pending_review"
    BY <1>1, <1>2 DEF Pending
  <2>3. closed \in Proposal
    BY <2>2 DEF Proposal
  <2> HIDE DEF closed
  <2> QED BY <1>1, <2>1, <2>2, <2>3
<1>3. CASE n \notin Pending
  BY <1>1, <1>3 DEF Close
<1> QED BY <1>2, <1>3

LEMMA QueueStep ==
  QueueInv /\ [QueueNext]_queueVars
    => QueueInv' /\ ProposalsStay /\ QuestionsStay
<1> SUFFICES ASSUME QueueInv, [QueueNext]_queueVars
             PROVE  QueueInv' /\ ProposalsStay /\ QuestionsStay
  OBVIOUS
<1>t. /\ proposals \in Seq(Proposal) /\ memory \in Seq(Memory)
      /\ questions \in SUBSET Question /\ second \in Nat
  BY DEF QueueInv, QueueRows
<1>q. UNCHANGED questions => QuestionsStay
  BY <1>t DEF QuestionsStay
<1>p. UNCHANGED proposals => ProposalsStay
  BY DEF ProposalsStay
<1>1. ASSUME NEW kind \in MemoryKinds, NEW key \in MemoryKeys, Propose(kind, key)
      PROVE  QueueInv' /\ ProposalsStay /\ QuestionsStay
  <2> DEFINE new == [id |-> ProposalId(kind, key), kind |-> kind, key |-> key,
                     status |-> "pending_review", item |-> NoItem]
  <2>1. new \in Proposal
    BY <1>t DEF Proposal, ProposalId, ProposalIds
  <2>2. /\ proposals' = Append(proposals, new)
        /\ UNCHANGED <<memory, questions, second, resolver>>
    BY <1>1 DEF Propose
  <2> HIDE DEF new
  <2>3. /\ proposals' \in Seq(Proposal)
        /\ \A n \in DOMAIN proposals :
             n \in DOMAIN proposals' /\ proposals'[n] = proposals[n]
    BY <1>t, <2>1, <2>2
  <2>4. QueueInv'
    BY <2>2, <2>3 DEF QueueInv, QueueRows, OneItemPerKey
  <2> QED BY <1>q, <2>2, <2>3, <2>4 DEF ProposalsStay
<1>2. ASSUME NEW run \in {1, 2}, NEW subject \in Subjects, NEW body \in Bodies,
             Clarify(run, subject, body)
      PROVE  QueueInv' /\ ProposalsStay /\ QuestionsStay
  <2>1. [run |-> run, subject |-> subject, body |-> body, status |-> "open",
         asked |-> second] \in Question
    BY <1>t DEF Question
  <2>2. questions' \in SUBSET Question /\ questions \subseteq questions'
    BY <1>2, <1>t, <2>1 DEF Clarify
  <2>3. UNCHANGED <<proposals, memory, second, resolver>>
    BY <1>2 DEF Clarify
  <2>4. QueueInv'
    BY <2>2, <2>3 DEF QueueInv, QueueRows, OneItemPerKey
  <2> QED BY <1>p, <2>2, <2>3, <2>4 DEF QuestionsStay
<1>3. ASSUME NEW q \in questions, ResolveClarification(q)
      PROVE  QueueInv' /\ ProposalsStay /\ QuestionsStay
  <2> DEFINE answered == [q EXCEPT !.status = "resolved"]
  <2>1. /\ answered \in Question
        /\ <<answered.run, answered.subject, answered.body, answered.asked>>
             = <<q.run, q.subject, q.body, q.asked>>
        /\ answered.status = "resolved"
    BY <1>t DEF Question
  <2>2. /\ questions' = (questions \ {q}) \cup {answered}
        /\ UNCHANGED <<proposals, memory, second, resolver>>
    BY <1>3 DEF ResolveClarification
  <2> HIDE DEF answered
  <2>3. QuestionsStay
    BY <2>1, <2>2 DEF QuestionsStay
  <2>4. QueueInv'
    BY <1>t, <2>1, <2>2 DEF QueueInv, QueueRows, OneItemPerKey
  <2> QED BY <1>p, <2>2, <2>3, <2>4
<1>4. ASSUME NEW r \in Resolvers, LookUpRequest(r) \/ ResolveFocused(r)
      PROVE  QueueInv' /\ ProposalsStay /\ QuestionsStay
  <2>1. PICK n \in Pending, decision \in {"accept", "reject"},
             pc \in {"found", "commit"} :
          resolver' = [resolver EXCEPT ![r] =
                         [pc |-> pc, request |-> n, decision |-> decision]]
    BY <1>4 DEF LookUpRequest, ResolveFocused
  <2>2. n \in DOMAIN proposals /\ n \in Nat
    BY <1>t DEF Pending
  <2>3. UNCHANGED <<proposals, memory, questions, second>>
    BY <1>4 DEF LookUpRequest, ResolveFocused
  <2>4. QueueInv'
    BY <2>1, <2>2, <2>3 DEF QueueInv, QueueRows, OneItemPerKey, Resolution
  <2> QED BY <1>p, <1>q, <2>3, <2>4
<1>5. ASSUME NEW r \in Resolvers, ReadStatus(r) \/ ResolutionFails(r)
      PROVE  QueueInv' /\ ProposalsStay /\ QuestionsStay
  <2>1. UNCHANGED <<proposals, memory, questions, second>>
    BY <1>5 DEF ReadStatus, ResolutionFails
  <2>2. PICK a \in {Idle, [resolver[r] EXCEPT !.pc = "commit"]} :
          /\ resolver' = [resolver EXCEPT ![r] = a]
          /\ a # Idle => resolver[r].pc = "found"
    BY <1>5 DEF ReadStatus, ResolutionFails
  <2>3. /\ a \in Resolution
        /\ a.pc # "idle" => a.request \in DOMAIN proposals
    <3>1. CASE a = Idle
      BY <3>1 DEF Idle, Resolution
    <3>2. CASE a # Idle
      <4>1. resolver[r] \in Resolution /\ resolver[r].request \in DOMAIN proposals
        BY <2>2, <3>2 DEF QueueInv, QueueRows
      <4> QED BY <2>2, <3>2, <4>1 DEF Resolution
    <3> QED BY <3>1, <3>2
  <2>4. QueueInv'
    BY <2>1, <2>2, <2>3 DEF QueueInv, QueueRows, OneItemPerKey
  <2> QED BY <1>p, <1>q, <2>1, <2>4
<1>6. ASSUME NEW r \in Resolvers, CommitResolution(r)
      PROVE  QueueInv' /\ ProposalsStay /\ QuestionsStay
  <2> DEFINE n == resolver[r].request
             p == proposals[n]
  <2>1. n \in DOMAIN proposals /\ p \in Proposal
    BY <1>6, <1>t DEF CommitResolution, QueueInv, QueueRows
  <2>2. p.key \in MemoryKeys \cup {NoItem}
    BY <2>1 DEF Proposal
  <2>3. /\ UNCHANGED <<questions, second>>
        /\ resolver' = [resolver EXCEPT ![r] = Idle]
        /\ \/ memory' = Materialised(p) /\ proposals' = Close(n, "accepted", p.key)
           \/ UNCHANGED memory /\ proposals' = Close(n, "rejected", NoItem)
    BY <1>6 DEF CommitResolution
  <2> HIDE DEF n, p
  <2>4. /\ proposals' \in Seq(Proposal) /\ DOMAIN proposals' = DOMAIN proposals
        /\ ProposalsStay
    BY <2>1, <2>2, <2>3, CloseKeeps DEF ProposalsStay
  <2>5. memory' \in Seq(Memory) /\ OneItemPerKey'
    <3>1. CASE memory' = Materialised(p)
      BY <2>1, <3>1, AcceptanceKeepsOne DEF OneItemPerKey
    <3>2. CASE UNCHANGED memory
      BY <1>t, <3>2 DEF QueueInv, OneItemPerKey
    <3> QED BY <2>3, <3>1, <3>2
  <2>6. QueueInv'
    BY <2>3, <2>4, <2>5 DEF QueueInv, QueueRows, Idle, Resolution
  <2> QED BY <1>q, <2>3, <2>4, <2>6
<1>7. CASE QueueTick
  <2>1. UNCHANGED <<proposals, memory, questions, resolver>> /\ second' \in Nat
    BY <1>7, <1>t DEF QueueTick
  <2>2. QueueInv'
    BY <2>1 DEF QueueInv, QueueRows, OneItemPerKey
  <2> QED BY <1>p, <1>q, <2>1, <2>2
<1>8. CASE UNCHANGED queueVars
  <2>1. UNCHANGED <<proposals, memory, questions, second, resolver>>
    BY <1>8 DEF queueVars
  <2>2. QueueInv'
    BY <2>1 DEF QueueInv, QueueRows, OneItemPerKey
  <2> QED BY <1>p, <1>q, <2>1, <2>2
<1> QED
  BY <1>1, <1>2, <1>3, <1>4, <1>5, <1>6, <1>7, <1>8 DEF QueueNext

LEMMA Queueing == QueueSpec => []QueueInv
<1>1. QueueInv /\ [QueueNext]_queueVars => QueueInv'
  BY QueueStep
<1> QED BY <1>1, QueueInitial, PTL DEF QueueSpec

-----------------------------------------------------------------------------
\* resolve_memory_review_request, create_clarification_request: what the
\* operator decided about a proposal or a question stays decided, although
\* resolutions read the status before their transactions.
THEOREM FinalDecisions == QueueSpec => DecisionIsFinal
<1>1. QueueInv /\ [QueueNext]_queueVars => [ProposalsStay /\ QuestionsStay]_queueVars
  BY QueueStep
<1> QED BY <1>1, Queueing, PTL DEF QueueSpec, DecisionIsFinal

\* A statement has one memory item, whatever acceptances overlap: the item is
\* looked up in the transaction that writes it.
THEOREM OneItem == QueueSpec => []OneItemPerKey
<1>1. QueueInv => OneItemPerKey
  BY DEF QueueInv
<1> QED BY <1>1, Queueing, PTL

-----------------------------------------------------------------------------
\* What the acceptances leave in memory.

AcceptsKnown ==
  accepts \in Seq(Nat) /\ \A n \in DOMAIN accepts : accepts[n] \in DOMAIN proposals

\* When resolutions do not overlap, the request of the one that is on its way
\* stays open, and what was accepted is.
OneAtATime ==
  queueMode.serial =>
    /\ \A r, s \in Resolvers : r # s => resolver[r] = Idle \/ resolver[s] = Idle
    /\ \A r \in Resolvers : resolver[r] # Idle => resolver[r].request \in Pending
    /\ \A n \in DOMAIN accepts : proposals[accepts[n]].status = "accepted"

ExplainInv == QueuesTypeOK /\ AcceptsKnown /\ OneAtATime /\ MemoryExplained

LEMMA ExplainInitial == QueueInit => ExplainInv
<1> SUFFICES ASSUME QueueInit PROVE ExplainInv
  OBVIOUS
<1> USE QueueConstants DEF QueueInit
<1>1. QueuesTypeOK
  BY DEF QueuesTypeOK
<1>2. AcceptsKnown /\ OneAtATime /\ MemoryExplained
  BY DEF AcceptsKnown, OneAtATime, MemoryExplained, AcceptedFor
<1> QED BY <1>1, <1>2 DEF ExplainInv

\* What the steps keep that neither resolve a proposal nor add one.
LEMMA MemoryStays ==
  ASSUME MemoryExplained, UNCHANGED <<proposals, memory, accepts, queueMode>>
  PROVE  MemoryExplained'
BY DEF MemoryExplained, AcceptedFor

LEMMA ProposeExplains ==
  ASSUME QueueInv, ExplainInv, NEW kind \in MemoryKinds, NEW key \in MemoryKeys,
         Propose(kind, key)
  PROVE  ExplainInv'
<1>1. PICK new : new = [id |-> ProposalId(kind, key), kind |-> kind, key |-> key,
                        status |-> "pending_review", item |-> NoItem]
  OBVIOUS
<1>2. /\ proposals' = Append(proposals, new) /\ Len(proposals) < MaxProposals
      /\ UNCHANGED <<memory, second, queueMode, resolver, accepts>>
  BY <1>1 DEF Propose
<1>3. proposals \in Seq(Proposal) /\ new.status = "pending_review" /\ new.item = NoItem
  BY <1>1 DEF QueueInv, QueueRows
<1>4. /\ DOMAIN proposals' = DOMAIN proposals \cup {Len(proposals) + 1}
      /\ proposals'[Len(proposals) + 1] = new
      /\ \A n \in DOMAIN proposals : proposals'[n] = proposals[n]
      /\ Len(proposals') = Len(proposals) + 1
  BY <1>2, <1>3
<1>5. QueuesTypeOK'
  <2>1. Len(proposals') <= MaxProposals
    BY <1>2, <1>3, <1>4, QueueConstants
  <2> QED BY <1>2, <1>3, <1>4, <2>1 DEF ExplainInv, QueuesTypeOK
<1>6. AcceptsKnown'
  BY <1>2, <1>4 DEF ExplainInv, AcceptsKnown
<1>7. OneAtATime'
  BY <1>2, <1>4 DEF ExplainInv, OneAtATime, AcceptsKnown, Pending
<1>8. \A k : AcceptedFor(k)' = AcceptedFor(k)
  BY <1>2, <1>4 DEF ExplainInv, AcceptsKnown, AcceptedFor
<1>9. MemoryExplained'
  <2> SUFFICES ASSUME queueMode.serial PROVE MemoryExplained'
    BY <1>2 DEF MemoryExplained
  <2>1. \A k : \A n \in AcceptedFor(k) : proposals'[accepts[n]] = proposals[accepts[n]]
    BY <1>4 DEF ExplainInv, AcceptsKnown, AcceptedFor
  <2>2. ASSUME NEW i \in DOMAIN memory
        PROVE  \E last \in AcceptedFor(memory[i].key) :
                 /\ \A n \in AcceptedFor(memory[i].key) : n <= last
                 /\ memory[i].state = Target(proposals'[accepts[last]].kind)
    BY <2>1 DEF ExplainInv, MemoryExplained
  <2>3. ASSUME NEW i \in DOMAIN memory, NEW n \in AcceptedFor(memory[i].key)
        PROVE  proposals'[accepts[n]].status = "accepted"
    BY <2>1 DEF ExplainInv, MemoryExplained
  <2>4. ASSUME NEW n \in DOMAIN proposals', proposals'[n].status = "accepted"
        PROVE  \E i \in DOMAIN memory : memory[i].key = proposals'[n].key
    BY <1>3, <1>4, <2>4 DEF ExplainInv, MemoryExplained
  <2> QED BY <1>2, <1>8, <2>2, <2>3, <2>4 DEF MemoryExplained
<1> QED BY <1>5, <1>6, <1>7, <1>9 DEF ExplainInv

\* An acceptance brings the item of its statement to the target of its kind and
\* leaves the other items.
LEMMA AcceptanceShape ==
  ASSUME QueueInv, NEW p \in Proposal
  PROVE  LET m == Materialised(p) IN
         /\ \A i \in DOMAIN m :
              \/ m[i].key = p.key /\ m[i].state = Target(p.kind)
              \/ i \in DOMAIN memory /\ m[i] = memory[i] /\ m[i].key # p.key
         /\ \A i \in DOMAIN memory : i \in DOMAIN m /\ m[i].key = memory[i].key
         /\ \E i \in DOMAIN m : m[i].key = p.key
<1> DEFINE found == ItemsFor(p.key, p.kind)
<1>1. memory \in Seq(Memory) /\ OneItemPerKey
  BY DEF QueueInv, QueueRows
<1>2. CASE found = {}
  <2>1. PICK new : new = [key |-> p.key, state |-> Target(p.kind)]
    OBVIOUS
  <2>2. Materialised(p) = Append(memory, new)
    BY <1>2, <2>1 DEF Materialised
  <2>3. \A i \in DOMAIN memory : memory[i].key # p.key
    BY <1>2 DEF ItemsFor
  <2>4. new.key = p.key /\ new.state = Target(p.kind)
    BY <2>1
  <2> QED BY <1>1, <2>2, <2>3, <2>4
<1>3. CASE found # {}
  <2>1. PICK j : j \in found /\ j = CHOOSE i \in found : TRUE
    BY <1>3
  <2>2. PICK item : item = [memory[j] EXCEPT !.state = Target(p.kind)]
    OBVIOUS
  <2>3. j \in DOMAIN memory /\ memory[j] \in Memory /\ memory[j].key = p.key
    BY <1>1, <2>1 DEF ItemsFor
  <2>4. Materialised(p) = [memory EXCEPT ![j] = item]
    BY <1>1, <1>3, <2>1, <2>2, <2>3 DEF Materialised
  <2>5. item.key = p.key /\ item.state = Target(p.kind)
    BY <2>2, <2>3 DEF Memory
  <2>6. \A i \in DOMAIN memory : memory[i].key = p.key => i = j
    BY <1>1, <2>3 DEF OneItemPerKey
  <2> QED BY <1>1, <2>3, <2>4, <2>5, <2>6
<1> QED BY <1>2, <1>3

\* A closed request keeps what it asked for, and has an item if it was accepted.
LEMMA CloseShape ==
  ASSUME QueueInv, QueuesTypeOK, NEW n \in DOMAIN proposals,
         NEW status \in {"accepted", "rejected"}, NEW item,
         item = IF status = "accepted" THEN proposals[n].key ELSE NoItem
  PROVE  LET c == Close(n, status, item) IN
         /\ DOMAIN c = DOMAIN proposals /\ Len(c) = Len(proposals)
         /\ \A k \in DOMAIN proposals :
              /\ c[k].key = proposals[k].key /\ c[k].kind = proposals[k].kind
              /\ c[k].item = IF c[k].status = "accepted" THEN c[k].key ELSE NoItem
              /\ c[k].status \in {"pending_review", "accepted", "rejected"}
              /\ c[k].status = IF k = n /\ n \in Pending THEN status ELSE proposals[k].status
<1>1. proposals \in Seq(Proposal)
  BY DEF QueueInv, QueueRows
<1>2. CASE n \in Pending
  <2>1. PICK closed : closed = [proposals[n] EXCEPT !.status = status, !.item = item]
    OBVIOUS
  <2>2. Close(n, status, item) = [proposals EXCEPT ![n] = closed]
    BY <1>1, <1>2, <2>1 DEF Close, Proposal
  <2>3. proposals[n] \in Proposal
    BY <1>1
  <2>4. /\ closed.key = proposals[n].key /\ closed.kind = proposals[n].kind
        /\ closed.status = status /\ closed.item = item
    BY <2>1, <2>3 DEF Proposal
  <2> QED BY <1>1, <1>2, <2>2, <2>4 DEF QueuesTypeOK
<1>3. CASE n \notin Pending
  BY <1>1, <1>3 DEF Close, QueuesTypeOK
<1> QED BY <1>2, <1>3

LEMMA CommitExplains ==
  ASSUME QueueInv, ExplainInv, NEW r \in Resolvers, CommitResolution(r)
  PROVE  ExplainInv'
<1>1. PICK n, p, status, item :
        /\ n = resolver[r].request /\ p = proposals[n]
        /\ \/ /\ status = "accepted" /\ item = p.key
              /\ memory' = Materialised(p) /\ accepts' = Append(accepts, n)
           \/ /\ status = "rejected" /\ item = NoItem
              /\ UNCHANGED <<memory, accepts>>
        /\ proposals' = Close(n, status, item)
  BY DEF CommitResolution
<1>2. /\ resolver[r].pc = "commit" /\ resolver[r] # Idle
      /\ resolver' = [resolver EXCEPT ![r] = Idle]
      /\ UNCHANGED <<questions, second, queueMode>>
  BY DEF CommitResolution, Idle
<1>3. n \in DOMAIN proposals /\ p \in Proposal /\ n \in Nat
  BY <1>1, <1>2 DEF QueueInv, QueueRows
<1>4. /\ DOMAIN proposals' = DOMAIN proposals /\ Len(proposals') = Len(proposals)
      /\ \A k \in DOMAIN proposals :
           /\ proposals'[k].key = proposals[k].key /\ proposals'[k].kind = proposals[k].kind
           /\ proposals'[k].item =
                IF proposals'[k].status = "accepted" THEN proposals'[k].key ELSE NoItem
           /\ proposals'[k].status \in {"pending_review", "accepted", "rejected"}
           /\ proposals'[k].status =
                IF k = n /\ n \in Pending THEN status ELSE proposals[k].status
  BY <1>1, <1>3, CloseShape DEF ExplainInv
<1>5. \A s \in Resolvers : resolver'[s] = IF s = r THEN Idle ELSE resolver[s]
  BY <1>2 DEF QueueInv, QueueRows
<1>6. QueuesTypeOK'
  <2>1. memory' \in Seq([key : MemoryKeys, state : {Target(kind) : kind \in KindNames}])
    BY <1>1, <1>3, AcceptanceKeepsOne DEF ExplainInv, QueuesTypeOK, Memory, States
  <2> QED BY <1>2, <1>4, <1>5, <2>1 DEF ExplainInv, QueuesTypeOK
<1>7. \/ status = "rejected" /\ UNCHANGED <<memory, accepts>>
      \/ /\ status = "accepted" /\ memory' = Materialised(p)
         /\ accepts' \in Seq(Nat)
         /\ \E new \in Nat :
              /\ DOMAIN accepts' = DOMAIN accepts \cup {new} /\ accepts'[new] = n
              /\ \A m \in DOMAIN accepts : accepts'[m] = accepts[m] /\ m < new
  <2>1. accepts \in Seq(Nat)
    BY DEF ExplainInv, AcceptsKnown
  <2>2. CASE status = "accepted" /\ accepts' = Append(accepts, n)
    <3>1. /\ Len(accepts) + 1 \in Nat /\ accepts' \in Seq(Nat)
          /\ DOMAIN accepts' = DOMAIN accepts \cup {Len(accepts) + 1}
          /\ accepts'[Len(accepts) + 1] = n
          /\ \A m \in DOMAIN accepts : accepts'[m] = accepts[m] /\ m < Len(accepts) + 1
      BY <1>3, <2>1, <2>2
    <3> QED BY <1>1, <2>2, <3>1
  <2>3. CASE status = "rejected"
    BY <1>1, <2>3
  <2> QED BY <1>1, <2>2, <2>3
<1>8. AcceptsKnown'
  <2>1. CASE status = "rejected"
    BY <1>4, <1>7, <2>1 DEF ExplainInv, AcceptsKnown
  <2>2. CASE status = "accepted"
    BY <1>3, <1>4, <1>7, <2>2 DEF ExplainInv, AcceptsKnown
  <2> QED BY <1>1, <2>1, <2>2
<1>9. OneAtATime'
  <2> SUFFICES ASSUME queueMode.serial PROVE OneAtATime'
    BY <1>2 DEF OneAtATime
  <2>1. n \in Pending
    BY <1>1, <1>2 DEF ExplainInv, OneAtATime
  <2>2. \A m \in DOMAIN accepts : accepts[m] \in DOMAIN proposals /\ accepts[m] # n
    BY <2>1 DEF ExplainInv, OneAtATime, AcceptsKnown, Pending
  <2>3. \A m \in DOMAIN accepts : proposals'[accepts[m]].status = "accepted"
    BY <1>4, <2>2 DEF ExplainInv, OneAtATime
  <2>4. \A m \in DOMAIN accepts' : proposals'[accepts'[m]].status = "accepted"
    <3>1. CASE status = "rejected"
      BY <1>7, <2>3, <3>1
    <3>2. CASE status = "accepted"
      <4>1. PICK new \in Nat :
              /\ DOMAIN accepts' = DOMAIN accepts \cup {new} /\ accepts'[new] = n
              /\ \A m \in DOMAIN accepts : accepts'[m] = accepts[m] /\ m < new
        BY <1>7, <3>2
      <4>2. proposals'[n].status = "accepted"
        BY <1>3, <1>4, <2>1, <3>2
      <4> QED BY <2>3, <4>1, <4>2
    <3> QED BY <1>1, <3>1, <3>2
  <2> QED BY <1>2, <1>5, <2>4 DEF ExplainInv, OneAtATime
<1>10. MemoryExplained'
  <2> SUFFICES ASSUME queueMode.serial PROVE MemoryExplained'
    BY <1>2 DEF MemoryExplained
  <2>1. n \in Pending
    BY <1>1, <1>2 DEF ExplainInv, OneAtATime
  <2>2. \A m \in DOMAIN accepts : accepts[m] \in DOMAIN proposals
    BY DEF ExplainInv, AcceptsKnown
  <2>3. \A k : \A m \in AcceptedFor(k)' : proposals'[accepts'[m]].status = "accepted"
    BY <1>2, <1>9 DEF OneAtATime, AcceptedFor
  <2>4. CASE status = "rejected"
    <3>1. UNCHANGED <<memory, accepts>>
      BY <1>7, <2>4
    <3>2. \A k : AcceptedFor(k)' = AcceptedFor(k)
      BY <1>4, <2>2, <3>1 DEF AcceptedFor
    <3>3. ASSUME NEW i \in DOMAIN memory
          PROVE  \E last \in AcceptedFor(memory[i].key) :
                   /\ \A m \in AcceptedFor(memory[i].key) : m <= last
                   /\ memory[i].state = Target(proposals'[accepts[last]].kind)
      BY <1>4, <2>2 DEF ExplainInv, MemoryExplained, AcceptedFor
    <3>4. ASSUME NEW k \in DOMAIN proposals, proposals'[k].status = "accepted"
          PROVE  \E i \in DOMAIN memory : memory[i].key = proposals'[k].key
      BY <1>4, <2>4, <3>4 DEF ExplainInv, MemoryExplained
    <3> QED BY <1>2, <1>4, <2>3, <3>1, <3>2, <3>3, <3>4, ZenonT(60) DEF MemoryExplained
  <2>5. CASE status = "accepted"
    <3>1. PICK new \in Nat :
            /\ DOMAIN accepts' = DOMAIN accepts \cup {new} /\ accepts'[new] = n
            /\ \A m \in DOMAIN accepts : accepts'[m] = accepts[m] /\ m < new
      BY <1>7, <2>5
    <3>2. memory' = Materialised(p)
      BY <1>7, <2>5
    <3>3. /\ \A i \in DOMAIN memory' :
               \/ memory'[i].key = p.key /\ memory'[i].state = Target(p.kind)
               \/ i \in DOMAIN memory /\ memory'[i] = memory[i] /\ memory'[i].key # p.key
          /\ \A i \in DOMAIN memory : i \in DOMAIN memory' /\ memory'[i].key = memory[i].key
          /\ \E i \in DOMAIN memory' : memory'[i].key = p.key
      BY <1>3, <3>2, AcceptanceShape
    <3>4. \A k : k # p.key => AcceptedFor(k)' = AcceptedFor(k)
      BY <1>1, <1>3, <1>4, <2>2, <3>1 DEF AcceptedFor
    <3>5. AcceptedFor(p.key)' = AcceptedFor(p.key) \cup {new}
      BY <1>1, <1>3, <1>4, <2>2, <3>1 DEF AcceptedFor
    <3>6. ASSUME NEW i \in DOMAIN memory'
          PROVE  \E last \in AcceptedFor(memory[i].key)' :
                   /\ \A m \in AcceptedFor(memory[i].key)' : m <= last
                   /\ memory'[i].state = Target(proposals'[accepts'[last]].kind)
      <4>1. CASE memory'[i].key = p.key
        <5>1. /\ \A m \in AcceptedFor(p.key)' : m <= new
              /\ memory'[i].state = Target(proposals'[accepts'[new]].kind)
          BY <1>1, <1>3, <1>4, <3>1, <3>3, <3>5, <4>1 DEF AcceptedFor
        <5> QED BY <3>5, <4>1, <5>1
      <4>2. CASE memory'[i].key # p.key
        <5>1. i \in DOMAIN memory /\ memory'[i] = memory[i]
          BY <3>3, <4>2
        <5>2. PICK key : key = memory[i].key
          OBVIOUS
        <5>3. PICK last \in AcceptedFor(key) :
                /\ \A m \in AcceptedFor(key) : m <= last
                /\ memory[i].state = Target(proposals[accepts[last]].kind)
          BY <5>1, <5>2 DEF ExplainInv, MemoryExplained
        <5>4. proposals'[accepts'[last]].kind = proposals[accepts[last]].kind
          BY <1>4, <2>2, <3>1, <5>3 DEF AcceptedFor
        <5>5. AcceptedFor(key)' = AcceptedFor(key)
          BY <3>4, <4>2, <5>1, <5>2
        <5> QED BY <5>1, <5>2, <5>3, <5>4, <5>5
      <4> QED BY <4>1, <4>2
    <3>7. ASSUME NEW k \in DOMAIN proposals, proposals'[k].status = "accepted"
          PROVE  \E i \in DOMAIN memory' : memory'[i].key = proposals'[k].key
      <4>1. CASE k = n
        BY <1>1, <1>4, <3>3, <4>1
      <4>2. CASE k # n
        BY <1>4, <3>3, <3>7, <4>2 DEF ExplainInv, MemoryExplained
      <4> QED BY <4>1, <4>2
    <3> QED BY <1>2, <1>4, <2>3, <3>6, <3>7 DEF MemoryExplained
  <2> QED BY <1>1, <2>4, <2>5
<1> QED BY <1>6, <1>8, <1>9, <1>10 DEF ExplainInv

LEMMA ExplainStep ==
  QueueInv /\ ExplainInv /\ [QueueNext]_queueVars => ExplainInv'
<1> SUFFICES ASSUME QueueInv, ExplainInv, [QueueNext]_queueVars PROVE ExplainInv'
  OBVIOUS
<1>1. ASSUME NEW kind \in MemoryKinds, NEW key \in MemoryKeys, Propose(kind, key)
      PROVE  ExplainInv'
  BY <1>1, ProposeExplains
<1>2. ASSUME NEW r \in Resolvers, CommitResolution(r) PROVE ExplainInv'
  BY <1>2, CommitExplains
\* A resolution starts when no other is on its way, if they do not overlap.
<1>3. ASSUME NEW r \in Resolvers, LookUpRequest(r) \/ ResolveFocused(r) PROVE ExplainInv'
  <2>1. UNCHANGED <<proposals, memory, questions, second, queueMode, accepts>>
    BY <1>3 DEF LookUpRequest, ResolveFocused
  <2>2. PICK a : a.request \in Pending /\ resolver' = [resolver EXCEPT ![r] = a]
    <3>1. PICK n \in Pending, decision \in {"accept", "reject"}, pc \in {"found", "commit"} :
            resolver' = [resolver EXCEPT ![r] =
                           [pc |-> pc, request |-> n, decision |-> decision]]
      BY <1>3 DEF LookUpRequest, ResolveFocused
    <3> QED BY <3>1
  <2>3. queueMode.serial => \A s \in Resolvers \ {r} : resolver[s] = Idle
    BY <1>3 DEF LookUpRequest, ResolveFocused, MayResolve
  <2>4. \A s \in Resolvers : resolver'[s] = IF s = r THEN a ELSE resolver[s]
    BY <2>2 DEF QueueInv, QueueRows
  <2>5. QueuesTypeOK'
    BY <2>1, <2>2, <2>4 DEF ExplainInv, QueuesTypeOK, Pending
  <2>6. AcceptsKnown'
    BY <2>1 DEF ExplainInv, AcceptsKnown
  <2>7. OneAtATime'
    BY <2>1, <2>2, <2>3, <2>4 DEF ExplainInv, OneAtATime, Pending
  <2> QED BY <2>1, <2>5, <2>6, <2>7, MemoryStays DEF ExplainInv
<1>4. ASSUME NEW r \in Resolvers, ReadStatus(r) \/ ResolutionFails(r) PROVE ExplainInv'
  <2>1. UNCHANGED <<proposals, memory, questions, second, queueMode, accepts>>
    BY <1>4 DEF ReadStatus, ResolutionFails
  <2>2. PICK a : /\ resolver' = [resolver EXCEPT ![r] = a]
                 /\ a = Idle \/ a = [resolver[r] EXCEPT !.pc = "commit"]
                 /\ resolver[r] # Idle
    BY <1>4 DEF ReadStatus, ResolutionFails, Idle
  <2>3. resolver[r] \in Resolution
    BY DEF QueueInv, QueueRows
  <2>4. a = Idle \/ a.request = resolver[r].request
    BY <2>2, <2>3 DEF Resolution
  <2>5. \A s \in Resolvers : resolver'[s] = IF s = r THEN a ELSE resolver[s]
    BY <2>2 DEF QueueInv, QueueRows
  <2>6. QueuesTypeOK'
    BY <2>1, <2>2, <2>4, <2>5 DEF ExplainInv, QueuesTypeOK
  <2>7. AcceptsKnown'
    BY <2>1 DEF ExplainInv, AcceptsKnown
  <2>8. OneAtATime'
    BY <2>1, <2>2, <2>4, <2>5 DEF ExplainInv, OneAtATime, Pending
  <2> QED BY <2>1, <2>6, <2>7, <2>8, MemoryStays DEF ExplainInv
<1>5. CASE QueueTick
  <2>1. UNCHANGED <<proposals, memory, queueMode, resolver, accepts>>
    BY <1>5 DEF QueueTick
  <2>2. second' \in 0..MaxSeconds
    BY <1>5, QueueConstants DEF QueueTick, ExplainInv, QueuesTypeOK
  <2> QED BY <2>1, <2>2, MemoryStays
          DEF ExplainInv, QueuesTypeOK, AcceptsKnown, OneAtATime, Pending
<1>6. ASSUME UNCHANGED <<proposals, memory, second, queueMode, resolver, accepts>>
      PROVE  ExplainInv'
  BY <1>6, MemoryStays DEF ExplainInv, QueuesTypeOK, AcceptsKnown, OneAtATime, Pending
<1>7. ASSUME NEW run \in {1, 2}, NEW subject \in Subjects, NEW body \in Bodies,
             Clarify(run, subject, body)
      PROVE  ExplainInv'
  BY <1>6, <1>7 DEF Clarify
<1>8. ASSUME NEW q \in questions, ResolveClarification(q) PROVE ExplainInv'
  BY <1>6, <1>8 DEF ResolveClarification
<1>9. CASE UNCHANGED queueVars
  BY <1>6, <1>9 DEF queueVars
<1> QED BY <1>1, <1>2, <1>3, <1>4, <1>5, <1>7, <1>8, <1>9 DEF QueueNext

\* Memory is what the operator decided: when resolutions do not overlap, an item is
\* in the state that the last acceptance committed for its statement asked for, and
\* every accepted request has its item, for any number of proposals of any kinds in
\* any order (resolve_memory_review_request).
THEOREM MemoryIsDecided == QueueSpec => []QueuesInv
<1>1. QueueInv /\ ExplainInv => QueuesInv
  BY DEF QueueInv, ExplainInv, QueuesInv
<1>2. QueueSpec => []ExplainInv
  BY ExplainInitial, ExplainStep, Queueing, PTL DEF QueueSpec
<1> QED BY <1>1, <1>2, Queueing, PTL

-------------------------------------------------------------------------------
(* What a worker's calls store, answer and show, for any number of calls and *)
(* findings, any allowed operations and any combination of flaws.            *)

Pcs == {"idle", "findings", "snapshot", "store", "materialise", "done"}
Replies == {"none", "succeeded", "denied", "error"}
Storing == {"submit_stage_result", "request_memory_review"}

Agent == [pc : Pcs, op : Operations \cup {"other", "none"}, flaws : SUBSET Flaws,
          subject : Findings \cup {NoFinding}, run : 0..2, shown : SUBSET Findings,
          reply : Replies]

\* Nothing that matters is wrong with the request.
Clean(op, flaws) ==
    /\ op \in AllowedOperations
    /\ flaws \cap (Identity \cup {"scope", "capability", "transport", "other context",
                                  "no payload", "malformed payload"}) = {}
    /\ op = "submit_stage_result" => "result of another task" \notin flaws

\* The request and its context are the task's and ask for what it allows.
Granted(op, flaws) ==
    /\ op \in AllowedOperations
    /\ flaws \cap (Identity \cup {"scope", "capability", "transport", "other context"}) = {}

\* What holds of a call that is in state a when res is stored: one that is about
\* to store, or has stored, is clean; one that shows a finding is granted; and a
\* stage result is stored before success is reported.
Sound(c, a, res) ==
    /\ a.reply # "none" <=> a.pc = "done"
    /\ a.pc \notin {"idle", "done"} => a.run \in 1..2 /\ a.subject \in Findings
    /\ a.pc \in {"store", "materialise"} =>
         a.op \in Storing /\ Clean(a.op, a.flaws)
    /\ a.pc = "materialise" => a.op = "submit_stage_result"
    /\ a.pc \in {"store", "materialise", "done"} /\ a.shown # {} => Granted(a.op, a.flaws)
    /\ \A r \in res : r.by = c =>
         /\ a.pc \in {"materialise", "done"} /\ a.reply # "denied"
         /\ a.op \in Storing /\ Clean(a.op, a.flaws)
         /\ r.kind = "result" => a.op = "submit_stage_result"
    /\ a.pc = "materialise" \/ (a.reply = "succeeded" /\ a.op = "submit_stage_result") =>
         \E r \in res : r.by = c

GatewayRows ==
    /\ seenIn \in [Findings -> 0..2]
    /\ taskRun \in 1..latestRun /\ latestRun \in 1..2
    /\ results \subseteq [by : Calls, kind : {"result", "proposal"}, run : 1..2]
    /\ agent \in [Calls -> Agent]

CallsSound == \A c \in Calls : Sound(c, agent[c], results)

GatewayIInv == GatewayRows /\ CallsSound

------------------------------------------------------------------------------
\* The transport lets a stored request through only if nothing is wrong with it
\* (validate_operation_request, validate_stage_result).
LEMMA TransportGrants ==
  ASSUME NEW op, NEW flaws \in SUBSET Flaws, Transport(op, flaws) = "succeeded"
  PROVE  Granted(op, flaws)
<1>1. flaws \cap {"transport", "other context"} = {}
  BY DEF Transport
<1>2. Authorization(op, flaws) = "granted"
  BY <1>1 DEF Transport, Authorization
<1> QED BY <1>1, <1>2 DEF Authorization, Granted

LEMMA TransportIsStrict ==
  ASSUME NEW op \in Storing, NEW flaws \in SUBSET Flaws,
         Transport(op, flaws) = "succeeded"
  PROVE  Clean(op, flaws)
<1>1. Authorization(op, flaws) \in {"error", "denied", "granted"}
  BY DEF Authorization
<1>2. flaws \cap {"transport", "other context"} = {}
  BY DEF Transport
<1>3. Authorization(op, flaws) = "granted" /\ Answer(op, flaws) = "succeeded"
  BY <1>1, <1>2 DEF Transport
<1>4. flaws \cap Identity = {} /\ op \in AllowedOperations
      /\ "scope" \notin flaws /\ "capability" \notin flaws
  BY <1>3 DEF Authorization
<1>5. op \notin SelfServiceable /\ op # "search_memory"
  BY DEF Storing, SelfServiceable
<1>6. Decoded(flaws)
  BY <1>3, <1>5 DEF Answer
<1>7. op = "submit_stage_result" => "result of another task" \notin flaws
  BY <1>3, <1>5, <1>6 DEF Answer
<1> QED BY <1>2, <1>4, <1>6, <1>7 DEF Clean, Decoded

LEMMA GatewayInitial == GatewayInit => GatewayIInv
<1> SUFFICES ASSUME GatewayInit PROVE GatewayIInv
  OBVIOUS
<1>1. Waiting \in Agent
  BY DEF Waiting, Agent, Pcs, Replies
<1>2. GatewayRows
  BY <1>1 DEF GatewayInit, GatewayRows
<1>3. CallsSound
  BY DEF GatewayInit, CallsSound, Sound, Waiting
<1> QED BY <1>2, <1>3 DEF GatewayIInv

\* A call takes another sound state; what is stored only grows, and the calls
\* before it keep what they rely on.
LEMMA CallMoves ==
  ASSUME GatewayIInv, NEW c \in Calls, NEW a \in Agent,
         agent' = [agent EXCEPT ![c] = a],
         results' \in SUBSET [by : Calls, kind : {"result", "proposal"}, run : 1..2],
         results \subseteq results', \A r \in results' \ results : r.by = c,
         Sound(c, a, results'),
         seenIn' \in [Findings -> 0..2], UNCHANGED <<taskRun, latestRun>>
  PROVE  GatewayIInv'
<1>1. GatewayRows'
  BY DEF GatewayIInv, GatewayRows
<1>2. ASSUME NEW d \in Calls PROVE Sound(d, agent[d], results)'
  <2>1. CASE d = c
    <3>1. agent'[d] = a
      BY <2>1 DEF GatewayIInv, GatewayRows
    <3> QED BY <2>1, <3>1 DEF Sound
  <2>2. CASE d # c
    <3>1. agent'[d] = agent[d]
      BY <2>2 DEF GatewayIInv, GatewayRows
    <3>2. Sound(d, agent[d], results)
      BY DEF GatewayIInv, CallsSound
    <3> QED BY <2>2, <3>1, <3>2 DEF Sound
  <2> QED BY <2>1, <2>2
<1> QED BY <1>1, <1>2 DEF GatewayIInv, CallsSound

\* What the session's other processes do leaves every call as it is.
LEMMA OthersMove ==
  ASSUME GatewayIInv, UNCHANGED <<results, agent>>,
         seenIn' \in [Findings -> 0..2], taskRun' \in 1..latestRun', latestRun' \in 1..2
  PROVE  GatewayIInv'
BY DEF GatewayIInv, GatewayRows, CallsSound, Sound

LEMMA CallType ==
  ASSUME GatewayIInv, NEW c \in Calls
  PROVE  agent[c] \in Agent /\ Sound(c, agent[c], results)
BY DEF GatewayIInv, GatewayRows, CallsSound

LEMMA FlawSetsType == \A flaws \in FlawSets : flaws \in SUBSET Flaws
BY DEF FlawSets

\* A call that is read is at its first step, and one that is not has failed.
Opened(op, flaws, subject, run, readable) ==
    [pc |-> IF readable THEN "findings" ELSE "done", op |-> op, flaws |-> flaws,
     subject |-> subject, run |-> run, shown |-> {},
     reply |-> IF readable THEN "none" ELSE "error"]

LEMMA CallOpens ==
  ASSUME NEW c \in Calls, Call(c)
  PROVE  \E op \in Operations \cup {"other"}, flaws \in SUBSET Flaws, subject \in Findings,
            readable \in BOOLEAN :
              agent' = [agent EXCEPT ![c] = Opened(op, flaws, subject, taskRun, readable)]
<1>1. PICK op \in Operations \cup {"other"}, flaws \in FlawSets, subject \in Findings :
        agent' = [agent EXCEPT ![c] =
          Opened(op, Effective(op, flaws), subject, taskRun,
                 /\ "operation of another command" \notin flaws
                 /\ "no request" \in flaws => op \in SelfServiceable
                 /\ "unknown session" \notin flaws)]
  BY DEF Call, Opened
<1>2. Effective(op, flaws) \in SUBSET Flaws
  BY FlawSetsType DEF Effective
<1> QED BY <1>1, <1>2

LEMMA CallKeeps == ASSUME GatewayIInv, NEW c \in Calls, Call(c) PROVE GatewayIInv'
<1>1. taskRun \in 1..2
  BY DEF GatewayIInv, GatewayRows
<1>2. agent[c].pc = "idle"
  <2>1. agent[c] = Waiting
    BY DEF Call
  <2> QED BY <2>1 DEF Waiting
<1>3. \A r \in results : r.by # c
  BY <1>2, CallType DEF Sound
<1>4. PICK op \in Operations \cup {"other"}, flaws \in SUBSET Flaws, subject \in Findings,
           readable \in BOOLEAN :
             agent' = [agent EXCEPT ![c] = Opened(op, flaws, subject, taskRun, readable)]
  BY CallOpens
<1> DEFINE a == Opened(op, flaws, subject, taskRun, readable)
<1>5. a \in Agent
  BY <1>1 DEF Agent, Pcs, Replies, Opened
<1>6. Sound(c, a, results)
  BY <1>1, <1>3 DEF Sound, Opened
<1> HIDE DEF a
<1>7. agent' = [agent EXCEPT ![c] = a]
  BY <1>4 DEF a
<1> QED BY <1>5, <1>6, <1>7, CallMoves DEF Call, GatewayIInv, GatewayRows

LEMMA LoadKeeps == ASSUME GatewayIInv, NEW c \in Calls, LoadFindings(c) PROVE GatewayIInv'
<1>0. PICK packet \in SUBSET Findings :
        agent' = [agent EXCEPT ![c].pc = "snapshot",
                  ![c].shown = IF agent[c].op = "get_review_context" THEN packet
                               ELSE IF agent[c].op \in {"list_findings", "get_status"}
                               THEN Bound(agent[c].run) ELSE {}]
  BY DEF LoadFindings
<1> DEFINE shown == IF agent[c].op = "get_review_context" THEN packet
                    ELSE IF agent[c].op \in {"list_findings", "get_status"}
                    THEN Bound(agent[c].run) ELSE {}
           a == [agent[c] EXCEPT !.pc = "snapshot", !.shown = shown]
<1>1. shown \in SUBSET Findings
  BY DEF Bound
<1>2. a \in Agent
  BY <1>1, CallType DEF Agent, Pcs
<1>5. agent[c] \in Agent /\ agent[c].pc = "findings" /\ Sound(c, agent[c], results)
  BY CallType DEF LoadFindings
<1>3. Sound(c, a, results)
  <2> HIDE DEF shown
  <2>1. a.pc = "snapshot" /\ a.reply = agent[c].reply /\ a.run = agent[c].run
        /\ a.subject = agent[c].subject
    BY <1>5 DEF Agent
  <2> HIDE DEF a
  <2> QED BY <1>5, <2>1 DEF Sound
<1>4. agent' = [agent EXCEPT ![c] = a]
  BY <1>0 DEF GatewayIInv, GatewayRows
<1> HIDE DEF a
<1> QED BY <1>2, <1>3, <1>4, CallMoves DEF LoadFindings, GatewayIInv, GatewayRows

\* The snapshot is answered; only a clean call goes on to store anything.
LEMMA RespondKeeps == ASSUME GatewayIInv, NEW c \in Calls, Respond(c) PROVE GatewayIInv'
<1> DEFINE op == agent[c].op
           flaws == agent[c].flaws
           detail == op = "get_finding_detail" /\ Decoded(flaws)
           reply == IF detail /\ ~BindsToTask(agent[c].subject, agent[c].run) THEN "error"
                    ELSE Transport(op, flaws)
           stores == reply = "succeeded" /\ op \in {"submit_stage_result", "request_memory_review"}
           shown == IF reply # "succeeded" THEN {}
                    ELSE IF detail THEN {agent[c].subject} ELSE agent[c].shown
           a == [agent[c] EXCEPT !.pc = IF stores THEN "store" ELSE "done",
                                 !.reply = IF stores THEN "none" ELSE reply,
                                 !.shown = shown]
<1>1. agent[c] \in Agent /\ agent[c].pc = "snapshot" /\ Sound(c, agent[c], results)
  BY CallType DEF Respond
<1>2. Transport(op, flaws) \in {"succeeded", "denied", "error"}
  BY DEF Transport, Authorization, Answer
<1>3. reply \in {"succeeded", "denied", "error"}
  BY <1>2
<1>4. shown \in SUBSET Findings
  BY <1>1 DEF Agent, Sound
<1>5. stores => op \in Storing /\ Clean(op, flaws)
  BY <1>1, TransportIsStrict DEF Storing, Agent
<1>10. shown # {} => Granted(op, flaws)
  BY <1>1, TransportGrants DEF Agent
<1> HIDE DEF reply, shown
<1>6. a \in Agent
  BY <1>1, <1>3, <1>4 DEF Agent, Pcs, Replies
<1>7. \A r \in results : r.by # c
  BY <1>1 DEF Sound
<1>8. Sound(c, a, results)
  BY <1>1, <1>3, <1>5, <1>7, <1>10 DEF Sound, Agent
<1>9. agent' = [agent EXCEPT ![c] = a]
  BY DEF Respond, reply, shown, GatewayIInv, GatewayRows
<1> HIDE DEF a
<1> QED BY <1>6, <1>8, <1>9, CallMoves DEF Respond, GatewayIInv, GatewayRows

LEMMA RecordKeeps == ASSUME GatewayIInv, NEW c \in Calls, RecordAccepted(c) PROVE GatewayIInv'
<1>1. agent[c] \in Agent /\ agent[c].pc = "store" /\ Sound(c, agent[c], results)
  BY CallType DEF RecordAccepted
<1>2. CASE agent[c].op = "submit_stage_result"
  <2> DEFINE a == [agent[c] EXCEPT !.pc = "materialise"]
             row == [by |-> c, kind |-> "result", run |-> agent[c].run]
  <2>1. results' = results \cup {row} /\ agent' = [agent EXCEPT ![c] = a]
    BY <1>2 DEF RecordAccepted, GatewayIInv, GatewayRows
  <2>2. a.pc = "materialise" /\ a.op = agent[c].op /\ a.flaws = agent[c].flaws
        /\ a.run = agent[c].run /\ a.subject = agent[c].subject /\ a.reply = agent[c].reply
        /\ a.shown = agent[c].shown
    BY <1>1 DEF Agent
  <2>3. a \in Agent
    BY <1>1 DEF Agent, Pcs
  <2>4. row \in [by : Calls, kind : {"result", "proposal"}, run : 1..2]
    BY <1>1 DEF Sound
  <2>5. row.by = c /\ row \in results \cup {row}
    OBVIOUS
  <2>6. Sound(c, a, results \cup {row})
    <3> HIDE DEF a, row
    <3> QED BY <1>1, <1>2, <2>2, <2>5 DEF Sound
  <2>7. \A r \in results' \ results : r.by = c
    BY <2>1
  <2> HIDE DEF a, row
  <2> QED BY <2>1, <2>3, <2>4, <2>6, <2>7, CallMoves DEF RecordAccepted, GatewayIInv, GatewayRows
<1>3. CASE agent[c].op # "submit_stage_result"
  <2> DEFINE a == [agent[c] EXCEPT !.pc = "done", !.reply = "succeeded"]
             row == [by |-> c, kind |-> "proposal", run |-> latestRun]
  <2>1. results' \in {results, results \cup {row}} /\ agent' = [agent EXCEPT ![c] = a]
    BY <1>3 DEF RecordAccepted, GatewayIInv, GatewayRows
  <2>2. a \in Agent
    BY <1>1 DEF Agent, Pcs, Replies
  <2>3. row \in [by : Calls, kind : {"result", "proposal"}, run : 1..2]
    BY DEF GatewayIInv, GatewayRows
  <2>4. Sound(c, a, results')
    BY <1>1, <1>3, <2>1 DEF Sound, Agent
  <2>6. results' \in SUBSET [by : Calls, kind : {"result", "proposal"}, run : 1..2]
        /\ results \subseteq results'
    BY <2>1, <2>3 DEF GatewayIInv, GatewayRows
  <2>7. seenIn' \in [Findings -> 0..2] /\ UNCHANGED <<taskRun, latestRun>>
    BY DEF RecordAccepted, GatewayIInv, GatewayRows
  <2>5. \A r \in results' \ results : r.by = c
    BY <2>1
  <2> HIDE DEF a, row
  <2> QED BY <2>1, <2>2, <2>4, <2>5, <2>6, <2>7, CallMoves
<1> QED BY <1>2, <1>3

LEMMA MaterialiseKeeps == ASSUME GatewayIInv, NEW c \in Calls, Materialise(c) PROVE GatewayIInv'
<1> DEFINE a == [agent[c] EXCEPT !.pc = "done", !.reply = "succeeded"]
<1>1. agent[c] \in Agent /\ agent[c].pc = "materialise" /\ Sound(c, agent[c], results)
  BY CallType DEF Materialise
<1>2. a \in Agent
  BY <1>1 DEF Agent, Pcs, Replies
<1>3. Sound(c, a, results)
  BY <1>1 DEF Sound, Agent
<1>4. agent' = [agent EXCEPT ![c] = a]
  BY DEF Materialise, GatewayIInv, GatewayRows
<1>5. seenIn' \in [Findings -> 0..2]
  BY <1>1 DEF Materialise, GatewayIInv, GatewayRows, Agent
<1> HIDE DEF a
<1> QED BY <1>2, <1>3, <1>4, <1>5, CallMoves DEF Materialise, GatewayIInv, GatewayRows

LEMMA FailureKeeps == ASSUME GatewayIInv, NEW c \in Calls, CallFails(c) PROVE GatewayIInv'
<1> DEFINE a == [agent[c] EXCEPT !.pc = "done", !.reply = "error", !.shown = {}]
<1>1. agent[c] \in Agent /\ agent[c].pc \notin {"idle", "done"} /\ Sound(c, agent[c], results)
  BY CallType DEF CallFails
<1>2. a \in Agent
  BY <1>1 DEF Agent, Pcs, Replies
<1>3. Sound(c, a, results)
  BY <1>1 DEF Sound, Agent
<1>4. agent' = [agent EXCEPT ![c] = a]
  BY DEF CallFails, GatewayIInv, GatewayRows
<1> HIDE DEF a
<1> QED BY <1>2, <1>3, <1>4, CallMoves DEF CallFails, GatewayIInv, GatewayRows

LEMMA GatewayInductive == GatewayIInv /\ [GatewayNext]_gatewayVars => GatewayIInv'
<1> SUFFICES ASSUME GatewayIInv, [GatewayNext]_gatewayVars PROVE GatewayIInv'
  OBVIOUS
<1>1. ASSUME NEW c \in Calls,
             Call(c) \/ LoadFindings(c) \/ Respond(c) \/ RecordAccepted(c)
               \/ Materialise(c) \/ CallFails(c)
      PROVE  GatewayIInv'
  BY <1>1, CallKeeps, LoadKeeps, RespondKeeps, RecordKeeps, MaterialiseKeeps, FailureKeeps
<1>2. CASE NextRun
  <2>1. seenIn' \in [Findings -> 0..2] /\ UNCHANGED <<results, agent>>
    BY <1>2 DEF NextRun, GatewayIInv, GatewayRows
  <2>2. latestRun' = 2 /\ taskRun' \in 1..latestRun'
    BY <1>2 DEF NextRun
  <2> QED BY <2>1, <2>2, OthersMove
<1>3. ASSUME NEW f \in Findings, SeenElsewhere(f) PROVE GatewayIInv'
  <2>1. seenIn' \in [Findings -> 0..2] /\ UNCHANGED <<taskRun, latestRun, results, agent>>
    BY <1>3 DEF SeenElsewhere, GatewayIInv, GatewayRows
  <2> QED BY <2>1, OthersMove DEF GatewayIInv, GatewayRows
<1>4. CASE UNCHANGED gatewayVars
  BY <1>4, OthersMove DEF gatewayVars, GatewayIInv, GatewayRows
<1> QED BY <1>1, <1>2, <1>3, <1>4 DEF GatewayNext

------------------------------------------------------------------------------
\* What is stored came from a request the task allows, and a reply is true of
\* what is stored: GatewayInv follows from what each call relies on.
LEMMA SoundSuffices == GatewayIInv => GatewayInv
<1> SUFFICES ASSUME GatewayIInv PROVE GatewayInv
  OBVIOUS
<1>1. GatewayTypeOK
  BY DEF GatewayIInv, GatewayRows, CallsSound, Sound, GatewayTypeOK, Agent, Pcs, Replies
<1>2. ASSUME NEW r \in results
      PROVE  /\ r.by \in Calls /\ Clean(agent[r.by].op, agent[r.by].flaws)
             /\ r.kind = "result" => agent[r.by].op = "submit_stage_result"
  <2>1. r.by \in Calls
    BY DEF GatewayIInv, GatewayRows
  <2> QED BY <2>1, CallType DEF Sound
<1>3. OnlyAuthorisedWrites
  BY <1>2 DEF OnlyAuthorisedWrites, Clean
<1>4. RepliesMatchTheStore
  BY CallType DEF RepliesMatchTheStore, Sound
<1>5. OnlyAuthorisedAnswers
  BY CallType DEF OnlyAuthorisedAnswers, Sound, Granted
<1> QED BY <1>1, <1>3, <1>4, <1>5 DEF GatewayInv

\* "An accepted stage result must be durable before Roger reports acceptance":
\* whatever is wrong with however many calls at once and whatever fails, only
\* authorised requests are stored, and replies tell what is (handle_agent).
THEOREM GatewaySafe == GatewaySpec => []GatewayInv
<1>1. GatewaySpec => []GatewayIInv
  BY GatewayInitial, GatewayInductive, PTL DEF GatewaySpec
<1> QED BY <1>1, SoundSuffices, PTL

-------------------------------------------------------------------------------
(* ProviderLaunch: what an attempt records is what its child did, for any    *)
(* providers, attempts and orders.                                           *)

-----------------------------------------------------------------------------
(* The inductive invariant                                                 *)

ChildRows == [kind : ChildKinds, session : SessionNumbers, hooked : BOOLEAN,
              end : ChildEndings, wells : 0..2]
EvidenceRows == [artifact : BOOLEAN, names : SessionNumbers, audit : 0..2,
                 seen : 0..2, lists : BOOLEAN]
OutcomeRows == [state : {"pending"} \cup Verified \cup LaunchFailures,
                session : SessionNumbers]
AttemptStages == {"ready", "running", "ended", "done"}

\* A child is of the kind its order calls for, and it ended well at most
\* once, with a session open.
ChildFits(o, ch) ==
    /\ ch.kind = "start" => o.action = "review"
    /\ ch.kind = "reseed" => o.action # "review" /\ o.bundle
    /\ ch.kind = "reopen" => /\ o.action # "review" /\ o.locator # NoSessionId
                             /\ ch.session \in {NoSessionId, o.locator}
    /\ ch.kind = "none" => /\ ch.session = NoSessionId /\ ch.end = "none"
                           /\ ~ch.hooked
    /\ ch.end = "ok" => ch.session # NoSessionId
    /\ ch.wells = IF ch.end = "ok" THEN 1 ELSE 0

\* A process is run between spawn and its end; a second one follows only a
\* captured reopening that said its session is gone.
StageFits(o, st, ch) ==
    /\ st = "ready" => \/ ch.kind = "none"
                       \/ /\ ch.kind = "reopen" /\ ch.end = "says_gone"
                          /\ o.provider = "copilot"
    /\ st = "running" => ch.kind # "none" /\ ch.end = "none"
    /\ st = "ended" => ch.kind # "none" /\ ch.end # "none"
    /\ o.provider # "copilot" => ch.kind \in {"none", "reopen"}

\* Every audit line is of a hook of one of the children, the artifact comes
\* after one.
EvidenceFits(ch, ev) ==
    /\ ev.audit <= (IF ch.kind = "reseed" THEN 1 ELSE 0)
                     + (IF ch.hooked THEN 1 ELSE 0)
    /\ ev.artifact => ev.audit > 0

\* What is reported and recorded.
OutcomeFits(o, st, ch, ev, out) ==
    /\ st # "done" => out = Undecided
    /\ (out.state \in Verified) <=> (out.session # NoSessionId)
    /\ out.state = "verified_reopened" =>
          out.session = o.locator /\ ch.session = o.locator /\ ch.end = "ok"
    /\ (o.action # "review" /\ ~o.bundle) =>
          out.session \in {NoSessionId, o.locator}
    /\ (o.provider = "copilot" /\ out.state \in Verified) =>
          /\ ev.artifact /\ ev.lists
          /\ ev.seen = ev.audit /\ ev.audit > 0

AttemptOK(o, st, ch, ev, out, n) ==
    /\ o \in Orders /\ Sensible(o)
    /\ st \in AttemptStages
    /\ ch \in ChildRows /\ ev \in EvidenceRows /\ out \in OutcomeRows
    /\ ChildFits(o, ch)
    /\ o.provider = "copilot" => ch.session <= n
    /\ StageFits(o, st, ch)
    /\ EvidenceFits(ch, ev)
    /\ OutcomeFits(o, st, ch, ev, out)

LaunchRows ==
    /\ order \in [Attempts -> Orders]
    /\ stage \in [Attempts -> AttemptStages]
    /\ child \in [Attempts -> ChildRows]
    /\ evidence \in [Attempts -> EvidenceRows]
    /\ outcome \in [Attempts -> OutcomeRows]

SessionsOK ==
    /\ alive \subseteq 1..opened
    /\ newestState \in 0..opened
    /\ opened \in 1..MaxProviderSessions

LaunchIInv ==
    /\ LaunchRows
    /\ SessionsOK
    /\ \A a \in Attempts :
          AttemptOK(order[a], stage[a], child[a], evidence[a], outcome[a], opened)

-----------------------------------------------------------------------------
(* A step of one attempt leaves the others as they were                    *)

LEMMA RoomFacts == /\ MaxProviderSessions \in Nat /\ MaxProviderSessions >= 1
                   /\ Synthetic = MaxProviderSessions + 1
                   /\ NoSessionId = 0 /\ Earlier = 1
                   /\ NoSessionId \in SessionNumbers /\ Synthetic \in SessionNumbers
                   /\ \A n \in 1..MaxProviderSessions : n \in SessionNumbers
                   /\ \A n \in SessionNumbers : n \in Nat
  BY LaunchAssumption DEF Synthetic, NoSessionId, Earlier, SessionNumbers

\* The rows of attempt a become these; the others stay.
OnlyAttempt(a, st, ch, ev, out) ==
    /\ order' = order
    /\ stage' = [stage EXCEPT ![a] = st]
    /\ child' = [child EXCEPT ![a] = ch]
    /\ evidence' = [evidence EXCEPT ![a] = ev]
    /\ outcome' = [outcome EXCEPT ![a] = out]

LEMMA GrowingSessions ==
    ASSUME NEW o, NEW st, NEW ch, NEW ev, NEW out, NEW n \in Nat,
           NEW k \in Nat, n <= k, AttemptOK(o, st, ch, ev, out, n)
    PROVE  AttemptOK(o, st, ch, ev, out, k)
  <1>1. ch.session \in Nat
    BY RoomFacts DEF AttemptOK, ChildRows
  <1> QED BY <1>1 DEF AttemptOK

LEMMA AttemptStep ==
    ASSUME LaunchIInv, NEW a \in Attempts, NEW st, NEW ch, NEW ev, NEW out,
           OnlyAttempt(a, st, ch, ev, out),
           SessionsOK', opened <= opened',
           AttemptOK(order[a], st, ch, ev, out, opened')
    PROVE  LaunchIInv'
  <1>1. LaunchRows
    BY DEF LaunchIInv
  <1>2. opened \in Nat /\ opened' \in Nat
    BY RoomFacts DEF LaunchIInv, SessionsOK
  <1>3. st \in AttemptStages /\ ch \in ChildRows /\ ev \in EvidenceRows
        /\ out \in OutcomeRows
    BY DEF AttemptOK
  <1>4. LaunchRows'
    BY <1>1, <1>3 DEF LaunchRows, OnlyAttempt
  <1>5. ASSUME NEW b \in Attempts
        PROVE  AttemptOK(order'[b], stage'[b], child'[b], evidence'[b],
                         outcome'[b], opened')
    <2>1. CASE b = a
      <3>1. /\ order'[b] = order[a] /\ stage'[b] = st /\ child'[b] = ch
            /\ evidence'[b] = ev /\ outcome'[b] = out
        BY <1>1, <2>1 DEF LaunchRows, OnlyAttempt
      <3> QED BY <3>1
    <2>2. CASE b # a
      <3>1. /\ order'[b] = order[b] /\ stage'[b] = stage[b]
            /\ child'[b] = child[b] /\ evidence'[b] = evidence[b]
            /\ outcome'[b] = outcome[b]
        BY <1>1, <2>2 DEF LaunchRows, OnlyAttempt
      <3>2. AttemptOK(order[b], stage[b], child[b], evidence[b], outcome[b],
                      opened')
        BY <1>2, GrowingSessions DEF LaunchIInv
      <3> QED BY <3>1, <3>2
    <2> QED BY <2>1, <2>2
  <1> QED BY <1>4, <1>5 DEF LaunchIInv

\* The rows of an attempt, as the steps read them.
LEMMA RowFacts ==
    ASSUME LaunchIInv, NEW a \in Attempts
    PROVE  /\ AttemptOK(order[a], stage[a], child[a], evidence[a], outcome[a],
                        opened)
           /\ stage = [stage EXCEPT ![a] = stage[a]]
           /\ child = [child EXCEPT ![a] = child[a]]
           /\ evidence = [evidence EXCEPT ![a] = evidence[a]]
           /\ outcome = [outcome EXCEPT ![a] = outcome[a]]
           /\ SessionsOK
           /\ opened \in Nat /\ opened <= opened
           /\ opened \in 1..MaxProviderSessions
  <1>1. LaunchRows /\ SessionsOK
    BY DEF LaunchIInv
  <1>2. opened \in Nat /\ opened \in 1..MaxProviderSessions
    BY <1>1, RoomFacts DEF SessionsOK
  <1> QED BY <1>1, <1>2 DEF LaunchIInv, LaunchRows

LEMMA LaunchInitEstablishes == LaunchInit => LaunchIInv
  <1> SUFFICES ASSUME LaunchInit PROVE LaunchIInv
    OBVIOUS
  <1>1. SessionsOK
    BY RoomFacts DEF LaunchInit, SessionsOK
  <1>2. NoChild \in ChildRows /\ NoEvidence \in EvidenceRows
        /\ Undecided \in OutcomeRows
    BY RoomFacts DEF NoChild, NoEvidence, Undecided, ChildRows, EvidenceRows,
       OutcomeRows, ChildKinds, ChildEndings
  <1>3. LaunchRows
    BY <1>2 DEF LaunchInit, LaunchRows, AttemptStages
  <1>4. ASSUME NEW a \in Attempts
        PROVE  AttemptOK(order[a], stage[a], child[a], evidence[a], outcome[a],
                         opened)
    <2>1. order[a] \in Orders /\ Sensible(order[a])
      BY DEF LaunchInit
    <2>2. /\ stage[a] = "ready" /\ child[a] = NoChild
          /\ evidence[a] = NoEvidence /\ outcome[a] = Undecided /\ opened = 1
      BY DEF LaunchInit
    <2> QED BY <1>2, <2>1, <2>2, RoomFacts
            DEF AttemptOK, AttemptStages, ChildFits, StageFits, EvidenceFits,
                OutcomeFits, NoChild, NoEvidence, Undecided, Verified
  <1> QED BY <1>1, <1>3, <1>4 DEF LaunchIInv
-----------------------------------------------------------------------------
(* Endings                                                                 *)

\* An attempt that fails leaves its child and its files as they are.
LEMMA FailureStep ==
    ASSUME LaunchIInv, NEW a \in Attempts, NEW state \in LaunchFailures,
           stage[a] # "done",
           AttemptFails(a, state),
           UNCHANGED <<order, child, evidence, alive, newestState, opened>>
    PROVE  LaunchIInv'
  <1>1. PICK out : out = [state |-> state, session |-> NoSessionId]
    OBVIOUS
  <1>2. OnlyAttempt(a, "done", child[a], evidence[a], out)
    BY <1>1, RowFacts DEF OnlyAttempt, AttemptFails, AttemptEnds
  <1>3. out \in OutcomeRows /\ out.state \notin Verified
        /\ out.session = NoSessionId
    BY <1>1, RoomFacts DEF OutcomeRows, LaunchFailures, Verified
  <1>4. AttemptOK(order[a], "done", child[a], evidence[a], out, opened)
    BY <1>3, RowFacts DEF AttemptOK, AttemptStages, StageFits, OutcomeFits,
       Undecided, Verified
  <1>5. SessionsOK' /\ opened <= opened'
    BY RowFacts DEF SessionsOK
  <1> QED BY <1>2, <1>4, <1>5, AttemptStep

\* One that ends verified.
LEMMA VerifiedStep ==
    ASSUME LaunchIInv, NEW a \in Attempts, NEW state \in Verified,
           NEW id \in SessionNumbers \ {NoSessionId}, NEW ev \in EvidenceRows,
           AttemptEnds(a, state, id),
           evidence' = [evidence EXCEPT ![a] = ev],
           UNCHANGED <<order, child, alive, newestState, opened>>,
           EvidenceFits(child[a], ev),
           state = "verified_reopened" =>
               /\ id = order[a].locator /\ child[a].session = order[a].locator
               /\ child[a].end = "ok",
           (order[a].action # "review" /\ ~order[a].bundle) =>
               id = order[a].locator,
           order[a].provider = "copilot" =>
               /\ ev.artifact /\ ev.lists
               /\ ev.seen = ev.audit /\ ev.audit > 0
    PROVE  LaunchIInv'
  <1>1. PICK out : out = [state |-> state, session |-> id]
    OBVIOUS
  <1>2. OnlyAttempt(a, "done", child[a], ev, out)
    BY <1>1, RowFacts DEF OnlyAttempt, AttemptEnds
  <1>3. out \in OutcomeRows /\ out.state = state /\ out.session = id
    BY <1>1 DEF OutcomeRows
  <1>4. AttemptOK(order[a], "done", child[a], ev, out, opened)
    BY <1>3, RowFacts DEF AttemptOK, AttemptStages, StageFits, OutcomeFits
  <1>5. SessionsOK' /\ opened <= opened'
    BY RowFacts DEF SessionsOK
  <1> QED BY <1>2, <1>4, <1>5, AttemptStep
-----------------------------------------------------------------------------
(* Copilot                                                                 *)

LEMMA FailingSteps ==
    ASSUME LaunchIInv, NEW a \in Attempts,
           NoBundle(a) \/ CannotSpawn(a) \/ CaptureFails(a)
    PROVE  LaunchIInv'
  <1>1. stage[a] # "done"
    BY DEF NoBundle, CannotSpawn, CaptureFails
  <1>2. /\ "failed_session_binding" \in LaunchFailures
        /\ "failed_spawn" \in LaunchFailures
    BY DEF LaunchFailures
  <1> QED BY <1>1, <1>2, FailureStep DEF NoBundle, CannotSpawn, CaptureFails

LEMMA SpawnStep ==
    ASSUME LaunchIInv, NEW a \in Attempts, Spawn(a)
    PROVE  LaunchIInv'
  <1>1. PICK kind : kind = NextKind(a)
    OBVIOUS
  <1>2. PICK id : id = IF kind # "reopen" THEN opened + 1
                       ELSE IF order[a].locator \in alive THEN order[a].locator
                       ELSE NoSessionId
    OBVIOUS
  <1>3. PICK ch : ch = [NoChild EXCEPT !.kind = kind, !.wells = child[a].wells,
                                       !.session = id]
    OBVIOUS
  <1>4. /\ order[a].provider = "copilot" /\ stage[a] = "ready" /\ kind # "none"
        /\ kind # "reopen" => opened < MaxProviderSessions
        /\ stage' = [stage EXCEPT ![a] = "running"]
        /\ opened' = IF kind = "reopen" THEN opened ELSE opened + 1
        /\ alive' = IF kind = "reopen" THEN alive ELSE alive \cup {opened + 1}
        /\ UNCHANGED <<order, evidence, outcome, newestState>>
    BY <1>1 DEF Spawn
  <1>5. child' = [child EXCEPT ![a] = ch]
    BY <1>1, <1>2, <1>3 DEF Spawn
  <1>6. AttemptOK(order[a], stage[a], child[a], evidence[a], outcome[a], opened)
        /\ SessionsOK /\ opened \in 1..MaxProviderSessions /\ opened \in Nat
    BY RowFacts
  <1>7. SessionsOK' /\ opened <= opened'
    BY <1>4, <1>6, RoomFacts DEF SessionsOK
  <1>8. /\ kind \in {"start", "reopen", "reseed"}
        /\ kind = "start" => order[a].action = "review"
        /\ kind = "reopen" => /\ order[a].action # "review"
                              /\ order[a].locator # NoSessionId
        /\ kind = "reseed" => order[a].action # "review" /\ order[a].bundle
    BY <1>1, <1>4 DEF NextKind
  <1>9. id \in SessionNumbers /\ id \in Nat /\ id <= opened'
    <2>1. CASE kind # "reopen"
      BY <1>2, <1>4, <1>6, <2>1, RoomFacts
    <2>2. CASE kind = "reopen" /\ order[a].locator \in alive
      <3>1. id \in 1..opened
        BY <1>2, <1>6, <2>2 DEF SessionsOK
      <3> QED BY <1>4, <1>6, <2>2, <3>1, RoomFacts
    <2>3. CASE kind = "reopen" /\ order[a].locator \notin alive
      BY <1>2, <1>4, <1>6, <2>3, RoomFacts
    <2> QED BY <2>1, <2>2, <2>3
  <1>10. /\ ch \in ChildRows /\ ch.kind = kind /\ ch.session = id
         /\ ch.hooked = FALSE /\ ch.end = "none" /\ ch.wells = child[a].wells
    <2>1. child[a].wells \in 0..2 /\ kind \in ChildKinds
      BY <1>6, <1>8 DEF ChildRows, AttemptOK, ChildKinds
    <2>2. NoChild \in ChildRows /\ NoChild.hooked = FALSE /\ NoChild.end = "none"
      BY RoomFacts DEF NoChild, ChildRows, ChildKinds, ChildEndings
    <2> QED BY <1>3, <1>9, <2>1, <2>2 DEF ChildRows
  <1>11. child[a].end # "ok" /\ child[a].wells = 0
    BY <1>4, <1>6 DEF AttemptOK, StageFits, ChildFits
  <1>12. ChildFits(order[a], ch)
    BY <1>2, <1>8, <1>10, <1>11 DEF ChildFits
  <1>13. StageFits(order[a], "running", ch)
    BY <1>4, <1>8, <1>10 DEF StageFits
  <1>14. EvidenceFits(ch, evidence[a])
    <2>1. evidence[a].audit \in 0..2
      BY <1>6 DEF AttemptOK, EvidenceRows
    <2>2. child[a].kind = "none" \/ child[a].kind = "reopen"
      BY <1>4, <1>6 DEF AttemptOK, StageFits
    <2>3. CASE child[a].kind = "none"
      <3>1. evidence[a].audit = 0 /\ ~evidence[a].artifact
        BY <1>6, <2>1, <2>3 DEF AttemptOK, EvidenceFits, ChildFits
      <3> QED BY <1>10, <3>1 DEF EvidenceFits
    <2>4. CASE child[a].kind = "reopen"
      <3>1. kind = "reseed"
        BY <1>1, <1>4, <1>6, <2>4 DEF NextKind, AttemptOK, ChildFits
      <3>2. evidence[a].audit <= 1 /\ (evidence[a].artifact => evidence[a].audit > 0)
        BY <1>6, <2>1, <2>4 DEF AttemptOK, EvidenceFits
      <3> QED BY <1>10, <2>1, <3>1, <3>2 DEF EvidenceFits
    <2> QED BY <2>2, <2>3, <2>4
  <1>15. OutcomeFits(order[a], "running", ch, evidence[a], outcome[a])
    <2>1. outcome[a] = Undecided
      BY <1>4, <1>6 DEF AttemptOK, OutcomeFits
    <2> QED BY <2>1 DEF OutcomeFits, Undecided, Verified
  <1>16. AttemptOK(order[a], "running", ch, evidence[a], outcome[a], opened')
    BY <1>6, <1>9, <1>10, <1>12, <1>13, <1>14, <1>15
       DEF AttemptOK, AttemptStages
  <1>17. OnlyAttempt(a, "running", ch, evidence[a], outcome[a])
    BY <1>4, <1>5, RowFacts DEF OnlyAttempt
  <1> QED BY <1>7, <1>16, <1>17, AttemptStep

\* The hook writes its audit line, and perhaps the artifact.
LEMMA HookStep ==
    ASSUME LaunchIInv, NEW a \in Attempts, HookFires(a) \/ HookDies(a)
    PROVE  LaunchIInv'
  <1>1. AttemptOK(order[a], stage[a], child[a], evidence[a], outcome[a], opened)
        /\ SessionsOK /\ opened \in Nat
    BY RowFacts
  <1>2. /\ stage[a] = "running" /\ ~child[a].hooked /\ order[a].provider = "copilot"
        /\ child' = [child EXCEPT ![a].hooked = TRUE]
        /\ UNCHANGED <<order, stage, outcome, alive, newestState, opened>>
    BY DEF HookFires, HookDies, Running
  <1>3. PICK ch : ch = [child[a] EXCEPT !.hooked = TRUE]
    OBVIOUS
  <1>4. /\ ch \in ChildRows /\ ch.hooked /\ ch.kind = child[a].kind
        /\ ch.session = child[a].session /\ ch.end = child[a].end
        /\ ch.wells = child[a].wells
    BY <1>1, <1>3 DEF AttemptOK, ChildRows
  <1>5. \E ev : /\ evidence' = [evidence EXCEPT ![a] = ev]
                /\ ev \in [artifact : BOOLEAN, names : SessionNumbers, audit : Nat,
                          seen : 0..2, lists : BOOLEAN]
                /\ ev.audit = evidence[a].audit + 1
    <2>1. evidence[a] \in EvidenceRows
      BY <1>1 DEF AttemptOK
    <2>2. CASE HookFires(a)
      <3>1. PICK id \in {child[a].session, newestState} :
              evidence' = [evidence EXCEPT ![a].audit = @ + 1,
                             ![a].artifact = TRUE, ![a].names = id]
        BY <2>2 DEF HookFires
      <3>2. id \in SessionNumbers
        <4>1. child[a].session \in SessionNumbers
          BY <1>1 DEF AttemptOK, ChildRows
        <4>2. newestState \in SessionNumbers
          BY <1>1, RoomFacts DEF SessionsOK, SessionNumbers
        <4> QED BY <4>1, <4>2
      <3>3. PICK ev : ev = [evidence[a] EXCEPT !.audit = @ + 1,
                              !.artifact = TRUE, !.names = id]
        OBVIOUS
      <3>4. evidence' = [evidence EXCEPT ![a] = ev]
        BY <3>1, <3>3
      <3>5. ev \in [artifact : BOOLEAN, names : SessionNumbers, audit : Nat,
                    seen : 0..2, lists : BOOLEAN]
        <4>1. PICK n : n = evidence[a].audit + 1
          OBVIOUS
        <4>2. n \in Nat
          BY <2>1, <4>1 DEF EvidenceRows
        <4>3. ev = [evidence[a] EXCEPT !.audit = n, !.artifact = TRUE,
                                       !.names = id]
          BY <3>3, <4>1
        <4>4. evidence[a] \in [artifact : BOOLEAN, names : SessionNumbers,
                 audit : Nat, seen : 0..2, lists : BOOLEAN]
          BY <2>1 DEF EvidenceRows
        <4> QED BY <3>2, <4>2, <4>3, <4>4
      <3>6. ev.audit = evidence[a].audit + 1
        BY <2>1, <3>3 DEF EvidenceRows
      <3> QED BY <3>4, <3>5, <3>6
    <2>3. CASE HookDies(a)
      <3>1. PICK ev : ev = [evidence[a] EXCEPT !.audit = @ + 1]
        OBVIOUS
      <3>2. evidence' = [evidence EXCEPT ![a] = ev]
        BY <2>3, <3>1 DEF HookDies
      <3>3. ev \in [artifact : BOOLEAN, names : SessionNumbers, audit : Nat,
                    seen : 0..2, lists : BOOLEAN]
        BY <2>1, <3>1 DEF EvidenceRows
      <3>4. ev.audit = evidence[a].audit + 1
        BY <2>1, <3>1 DEF EvidenceRows
      <3> QED BY <3>2, <3>3, <3>4
    <2> QED BY <2>2, <2>3
  <1>6. PICK ev : /\ evidence' = [evidence EXCEPT ![a] = ev]
                  /\ ev \in [artifact : BOOLEAN, names : SessionNumbers, audit : Nat,
                            seen : 0..2, lists : BOOLEAN]
                  /\ ev.audit = evidence[a].audit + 1
    BY <1>5
  <1>7. evidence[a].audit \in 0..2
        /\ evidence[a].audit <= (IF child[a].kind = "reseed" THEN 1 ELSE 0)
    BY <1>1, <1>2 DEF AttemptOK, EvidenceFits, EvidenceRows
  <1>8. ev \in EvidenceRows
    BY <1>6, <1>7 DEF EvidenceRows
  <1>9. EvidenceFits(ch, ev)
    BY <1>4, <1>6, <1>7 DEF EvidenceFits
  <1>10. OutcomeFits(order[a], stage[a], ch, ev, outcome[a])
    BY <1>1, <1>2 DEF AttemptOK, OutcomeFits, Undecided, Verified
  <1>11. ChildFits(order[a], ch) /\ StageFits(order[a], stage[a], ch)
    BY <1>1, <1>2, <1>4 DEF AttemptOK, ChildFits, StageFits
  <1>12. AttemptOK(order[a], stage[a], ch, ev, outcome[a], opened)
    BY <1>1, <1>4, <1>8, <1>9, <1>10, <1>11 DEF AttemptOK
  <1>13. OnlyAttempt(a, stage[a], ch, ev, outcome[a])
    BY <1>2, <1>3, <1>6, RowFacts DEF OnlyAttempt
  <1>14. SessionsOK' /\ opened <= opened'
    BY <1>1, <1>2 DEF SessionsOK
  <1> QED BY <1>2, <1>12, <1>13, <1>14, AttemptStep

LEMMA ChildEndsStep ==
    ASSUME LaunchIInv, NEW a \in Attempts, NEW end \in ChildEndings \ {"none"},
           ChildEnds(a, end)
    PROVE  LaunchIInv'
  <1>1. AttemptOK(order[a], stage[a], child[a], evidence[a], outcome[a], opened)
        /\ SessionsOK /\ opened \in Nat
    BY RowFacts
  <1>2. /\ stage[a] = "running"
        /\ end = "ok" => child[a].session # NoSessionId
        /\ stage' = [stage EXCEPT ![a] = "ended"]
        /\ UNCHANGED <<order, evidence, outcome, alive, newestState, opened>>
    BY DEF ChildEnds
  <1>3. PICK ch : ch = [child[a] EXCEPT !.end = end,
                          !.wells = IF end = "ok" THEN @ + 1 ELSE @]
    OBVIOUS
  <1>4. child' = [child EXCEPT ![a] = ch]
    BY <1>3 DEF ChildEnds
  <1>5. child[a].wells = 0 /\ child[a] \in ChildRows /\ child[a].end = "none"
        /\ child[a].kind # "none"
    BY <1>1, <1>2 DEF AttemptOK, ChildFits, StageFits
  <1>6. /\ ch \in ChildRows /\ ch.hooked = child[a].hooked
        /\ ch.kind = child[a].kind /\ ch.session = child[a].session
        /\ ch.end = end /\ ch.wells = IF end = "ok" THEN 1 ELSE 0
    <2>1. PICK w : w = IF end = "ok" THEN 1 ELSE 0
      OBVIOUS
    <2>2. ch = [child[a] EXCEPT !.end = end, !.wells = w] /\ w \in 0..2
      BY <1>3, <1>5, <2>1
    <2> QED BY <1>5, <2>1, <2>2 DEF ChildRows
  <1>7. ChildFits(order[a], ch) /\ StageFits(order[a], "ended", ch)
    BY <1>1, <1>2, <1>5, <1>6 DEF AttemptOK, ChildFits, StageFits
  <1>8. EvidenceFits(ch, evidence[a])
    BY <1>1, <1>6 DEF AttemptOK, EvidenceFits
  <1>9. OutcomeFits(order[a], "ended", ch, evidence[a], outcome[a])
    BY <1>1, <1>2 DEF AttemptOK, OutcomeFits, Undecided, Verified
  <1>10. AttemptOK(order[a], "ended", ch, evidence[a], outcome[a], opened)
    BY <1>1, <1>6, <1>7, <1>8, <1>9 DEF AttemptOK, AttemptStages
  <1>11. OnlyAttempt(a, "ended", ch, evidence[a], outcome[a])
    BY <1>2, <1>4, RowFacts DEF OnlyAttempt
  <1>12. SessionsOK' /\ opened <= opened'
    BY <1>1, <1>2 DEF SessionsOK
  <1> QED BY <1>2, <1>10, <1>11, <1>12, AttemptStep

\* Copilot's own directory of sessions changes.
LEMMA DirectoryStep ==
    ASSUME LaunchIInv,
           \/ \E a \in Attempts : WritesState(a)
           \/ \E s \in alive : Discard(s)
           \/ Elsewhere
    PROVE  LaunchIInv'
  <1>1. LaunchRows /\ SessionsOK /\ opened \in 1..MaxProviderSessions
    BY DEF LaunchIInv, SessionsOK
  <1>2. opened \in Nat /\ MaxProviderSessions \in Nat
    BY <1>1, RoomFacts
  <1>3. UNCHANGED <<order, stage, child, evidence, outcome>>
    BY DEF WritesState, Discard, Elsewhere
  <1>4. SessionsOK' /\ opened <= opened'
    <2>1. ASSUME NEW a \in Attempts, WritesState(a)
          PROVE  SessionsOK' /\ opened <= opened'
      <3>1. child[a].session <= opened /\ child[a].session \in Nat
        BY <2>1, RoomFacts DEF LaunchIInv, AttemptOK, ChildRows, WritesState
      <3> QED BY <1>1, <1>2, <2>1, <3>1 DEF WritesState, SessionsOK
    <2>2. ASSUME NEW s \in alive, Discard(s)
          PROVE  SessionsOK' /\ opened <= opened'
      BY <1>1, <1>2, <2>2 DEF Discard, SessionsOK
    <2>3. CASE Elsewhere
      BY <1>1, <1>2, <2>3 DEF Elsewhere, SessionsOK
    <2> QED BY <2>1, <2>2, <2>3
  <1>5. LaunchRows'
    BY <1>1, <1>3 DEF LaunchRows
  <1>6. opened' \in Nat
    BY <1>2, <1>4 DEF SessionsOK
  <1>7. \A a \in Attempts :
          AttemptOK(order[a], stage[a], child[a], evidence[a], outcome[a], opened')
    BY <1>2, <1>4, <1>6, GrowingSessions DEF LaunchIInv
  <1> QED BY <1>3, <1>4, <1>5, <1>7 DEF LaunchIInv

LEMMA SettleStep ==
    ASSUME LaunchIInv, NEW a \in Attempts, Settle(a)
    PROVE  LaunchIInv'
  <1>1. AttemptOK(order[a], stage[a], child[a], evidence[a], outcome[a], opened)
        /\ SessionsOK /\ opened \in Nat
    BY RowFacts
  <1>2. PICK ev : ev = [evidence[a] EXCEPT !.seen = evidence[a].audit,
                                           !.lists = (Rejection(a) = "none")]
    OBVIOUS
  <1>3. /\ stage[a] = "ended" /\ order[a].provider = "copilot"
        /\ evidence' = [evidence EXCEPT ![a] = ev]
        /\ UNCHANGED <<order, child, alive, newestState, opened>>
    BY <1>2 DEF Settle, Captured, Scanned
  <1>4. evidence[a] \in EvidenceRows
    BY <1>1 DEF AttemptOK
  <1>5. /\ ev \in EvidenceRows /\ ev.audit = evidence[a].audit
        /\ ev.artifact = evidence[a].artifact /\ ev.seen = ev.audit
        /\ ev.lists = (Rejection(a) = "none")
    <2>1. PICK l \in BOOLEAN : l = (Rejection(a) = "none")
      OBVIOUS
    <2>2. ev = [evidence[a] EXCEPT !.seen = evidence[a].audit, !.lists = l]
      BY <1>2, <2>1
    <2>3. evidence[a].audit \in 0..2
      BY <1>4 DEF EvidenceRows
    <2> QED BY <1>4, <2>1, <2>2, <2>3 DEF EvidenceRows
  <1>6. EvidenceFits(child[a], ev)
    BY <1>1, <1>5 DEF AttemptOK, EvidenceFits
  <1>7. child[a].kind \in {"start", "reopen", "reseed"}
    BY <1>1, <1>3 DEF AttemptOK, StageFits, ChildRows, ChildKinds
  <1>8. CASE /\ Rejection(a) = "none"
             /\ AttemptEnds(a, VerifiedState(child[a].kind), evidence[a].names)
    <2>1. /\ child[a].end = "ok" /\ evidence[a].artifact
          /\ evidence[a].names # NoSessionId
          /\ child[a].kind = "reopen" => evidence[a].names = order[a].locator
      BY <1>8 DEF Rejection, Readable, Misnamed
    <2>2. evidence[a].names \in SessionNumbers \ {NoSessionId}
      BY <1>4, <2>1 DEF EvidenceRows
    <2>3. /\ VerifiedState(child[a].kind) \in Verified
          /\ VerifiedState(child[a].kind) = "verified_reopened" =>
               child[a].kind = "reopen"
      BY <1>7 DEF VerifiedState, Verified
    <2>4. child[a].kind = "reopen" => child[a].session = order[a].locator
      BY <1>1, <2>1 DEF AttemptOK, ChildFits
    <2>5. (order[a].action # "review" /\ ~order[a].bundle) =>
            child[a].kind = "reopen"
      BY <1>1, <1>7 DEF AttemptOK, ChildFits
    <2>6. /\ ev.artifact /\ ev.lists
          /\ ev.seen = ev.audit /\ ev.audit > 0
      BY <1>5, <1>6, <1>8, <2>1 DEF EvidenceFits
    <2> QED BY <1>3, <1>5, <1>6, <1>8, <2>1, <2>2, <2>3, <2>4, <2>5, <2>6,
               VerifiedStep
  <1>9. CASE /\ child[a].kind = "reopen" /\ RequiresReseed(a)
             /\ stage' = [stage EXCEPT ![a] = "ready"]
             /\ UNCHANGED outcome
    <2>1. StageFits(order[a], "ready", child[a])
      BY <1>3, <1>9 DEF StageFits, RequiresReseed
    <2>2. OutcomeFits(order[a], "ready", child[a], ev, outcome[a])
      BY <1>1, <1>3 DEF AttemptOK, OutcomeFits, Undecided, Verified
    <2>3. AttemptOK(order[a], "ready", child[a], ev, outcome[a], opened)
      BY <1>1, <1>5, <1>6, <2>1, <2>2 DEF AttemptOK, AttemptStages
    <2>4. OnlyAttempt(a, "ready", child[a], ev, outcome[a])
      BY <1>3, <1>9, RowFacts DEF OnlyAttempt
    <2>5. SessionsOK' /\ opened <= opened'
      BY <1>1, <1>3 DEF SessionsOK
    <2> QED BY <1>3, <2>3, <2>4, <2>5, AttemptStep
  <1>10. CASE Rejection(a) # "none" /\ AttemptFails(a, Rejection(a))
    <2>1. Rejection(a) \in LaunchFailures
      BY <1>10 DEF Rejection, LaunchFailures
    <2>2. PICK out : out = [state |-> Rejection(a), session |-> NoSessionId]
      OBVIOUS
    <2>3. out \in OutcomeRows /\ out.state \notin Verified
          /\ out.session = NoSessionId
      BY <2>1, <2>2, RoomFacts DEF OutcomeRows, LaunchFailures, Verified
    <2>4. OnlyAttempt(a, "done", child[a], ev, out)
      BY <1>3, <1>10, <2>2, RowFacts DEF OnlyAttempt, AttemptFails, AttemptEnds
    <2>5. AttemptOK(order[a], "done", child[a], ev, out, opened)
      BY <1>1, <1>3, <1>5, <1>6, <2>3
         DEF AttemptOK, AttemptStages, StageFits, OutcomeFits, Verified
    <2>6. SessionsOK' /\ opened <= opened'
      BY <1>1, <1>3 DEF SessionsOK
    <2> QED BY <1>3, <2>4, <2>5, <2>6, AttemptStep
  <1> QED BY <1>8, <1>9, <1>10 DEF Settle
-----------------------------------------------------------------------------
(* The other providers                                                     *)

LEMMA StartSyntheticStep ==
    ASSUME LaunchIInv, NEW a \in Attempts, StartSynthetic(a)
    PROVE  LaunchIInv'
  <1>1. AttemptOK(order[a], stage[a], child[a], evidence[a], outcome[a], opened)
        /\ evidence = [evidence EXCEPT ![a] = evidence[a]]
    BY RowFacts
  <1>2. "verified_started" \in Verified
        /\ Synthetic \in SessionNumbers \ {NoSessionId}
    BY RoomFacts DEF Verified
  <1>3. evidence[a] \in EvidenceRows /\ EvidenceFits(child[a], evidence[a])
    BY <1>1 DEF AttemptOK
  <1> QED BY <1>1, <1>2, <1>3, VerifiedStep DEF StartSynthetic

LEMMA ReopenOpenCodeStep ==
    ASSUME LaunchIInv, NEW a \in Attempts, ReopenOpenCode(a)
    PROVE  LaunchIInv'
  <1>1. AttemptOK(order[a], stage[a], child[a], evidence[a], outcome[a], opened)
        /\ SessionsOK /\ opened \in Nat
    BY RowFacts
  <1>2. PICK ch : ch = [NoChild EXCEPT !.kind = "reopen", !.session = Synthetic]
    OBVIOUS
  <1>3. /\ order[a].provider = "opencode" /\ order[a].action # "review"
        /\ stage[a] = "ready" /\ order[a].locator # NoSessionId
        /\ stage' = [stage EXCEPT ![a] = "running"]
        /\ child' = [child EXCEPT ![a] = ch]
        /\ UNCHANGED <<order, evidence, outcome, alive, newestState, opened>>
    BY <1>2 DEF ReopenOpenCode
  <1>4. /\ ch \in ChildRows /\ ch.kind = "reopen" /\ ch.session = Synthetic
        /\ ~ch.hooked /\ ch.end = "none" /\ ch.wells = 0
    <2>1. NoChild \in ChildRows /\ ~NoChild.hooked /\ NoChild.end = "none"
          /\ NoChild.wells = 0
      BY RoomFacts DEF NoChild, ChildRows, ChildKinds, ChildEndings
    <2> QED BY <1>2, <2>1, RoomFacts DEF ChildRows, ChildKinds
  <1>5. order[a].locator = Synthetic
    BY <1>1, <1>3 DEF AttemptOK, Sensible
  <1>6. child[a].kind = "none"
    BY <1>1, <1>3 DEF AttemptOK, StageFits
  <1>7. ChildFits(order[a], ch) /\ StageFits(order[a], "running", ch)
    BY <1>3, <1>4, <1>5 DEF ChildFits, StageFits
  <1>8. EvidenceFits(ch, evidence[a])
    BY <1>1, <1>4, <1>6 DEF AttemptOK, EvidenceFits, ChildFits
  <1>9. OutcomeFits(order[a], "running", ch, evidence[a], outcome[a])
    BY <1>1, <1>3 DEF AttemptOK, OutcomeFits, Undecided, Verified
  <1>10. AttemptOK(order[a], "running", ch, evidence[a], outcome[a], opened)
    BY <1>1, <1>3, <1>4, <1>7, <1>8, <1>9 DEF AttemptOK, AttemptStages
  <1>11. OnlyAttempt(a, "running", ch, evidence[a], outcome[a])
    BY <1>3, RowFacts DEF OnlyAttempt
  <1>12. SessionsOK' /\ opened <= opened'
    BY <1>1, <1>3 DEF SessionsOK
  <1> QED BY <1>3, <1>10, <1>11, <1>12, AttemptStep

\* A resume or return of OpenCode or of a provider that only reseeds.
LEMMA LinkStep ==
    ASSUME LaunchIInv, NEW a \in Attempts, NEW reopens \in BOOLEAN, NEW reopened,
           order[a].provider # "copilot", order[a].action # "review",
           stage[a] \in {"ready", "ended"},
           (reopens /\ reopened = "usable") => child[a].end = "ok",
           Link(a, reopens, reopened)
    PROVE  LaunchIInv'
  <1>1. AttemptOK(order[a], stage[a], child[a], evidence[a], outcome[a], opened)
        /\ evidence = [evidence EXCEPT ![a] = evidence[a]]
    BY RowFacts
  <1>2. evidence[a] \in EvidenceRows /\ EvidenceFits(child[a], evidence[a])
    BY <1>1 DEF AttemptOK
  <1>3. UNCHANGED <<order, child, evidence, alive, newestState, opened>>
    BY DEF Link
  <1>4. CASE reopens /\ reopened = "usable"
    <2>1. AttemptEnds(a, "verified_reopened", order[a].locator)
      BY <1>4 DEF Link, Strategy
    <2>2. child[a].end = "ok" /\ child[a].kind = "reopen"
      BY <1>1, <1>4 DEF AttemptOK, StageFits, ChildFits
    <2>3. order[a].locator # NoSessionId /\ child[a].session = order[a].locator
      BY <1>1, <2>2 DEF AttemptOK, ChildFits
    <2>4. order[a].locator \in SessionNumbers \ {NoSessionId}
      BY <1>1, <2>3 DEF AttemptOK, Orders
    <2>5. "verified_reopened" \in Verified
      BY DEF Verified
    <2> QED BY <1>1, <1>2, <1>3, <2>1, <2>2, <2>3, <2>4, <2>5, VerifiedStep
  <1>5. CASE ~(reopens /\ reopened = "usable") /\ order[a].bundle
    <2>1. AttemptEnds(a, "verified_reseeded", Synthetic)
      BY <1>5 DEF Link, Strategy
    <2>2. "verified_reseeded" \in Verified
          /\ Synthetic \in SessionNumbers \ {NoSessionId}
      BY RoomFacts DEF Verified
    <2> QED BY <1>1, <1>2, <1>3, <1>5, <2>1, <2>2, VerifiedStep
  <1>6. CASE ~(reopens /\ reopened = "usable") /\ ~order[a].bundle
    <2>1. AttemptFails(a, "failed_spawn") /\ "failed_spawn" \in LaunchFailures
      BY <1>6 DEF Link, Strategy, LaunchFailures
    <2> QED BY <1>3, <2>1, FailureStep
  <1> QED BY <1>4, <1>5, <1>6

LEMMA OtherProviderStep ==
    ASSUME LaunchIInv, NEW a \in Attempts,
           LinkOpenCode(a) \/ ReturnOpenCode(a) \/ LinkReseedOnly(a)
    PROVE  LaunchIInv'
  <1>1. /\ order[a].provider # "copilot" /\ order[a].action # "review"
        /\ stage[a] \in {"ready", "ended"}
    BY DEF LinkOpenCode, ReturnOpenCode, LinkReseedOnly, OpenCodeTried
  <1>2. Reopened(a) = "usable" => child[a].end = "ok"
    BY DEF Reopened
  <1>3. CASE Link(a, TRUE, Reopened(a))
    BY <1>1, <1>2, <1>3, LinkStep
  <1>4. CASE LinkReseedOnly(a)
    BY <1>1, <1>4, LinkStep DEF LinkReseedOnly
  <1>5. CASE /\ AttemptFails(a, "failed_spawn")
             /\ UNCHANGED <<order, child, evidence, alive, newestState, opened>>
    BY <1>1, <1>5, FailureStep DEF LaunchFailures
  <1> QED BY <1>3, <1>4, <1>5 DEF LinkOpenCode, ReturnOpenCode

LEMMA LaunchStepPreserves ==
    LaunchIInv /\ [LaunchNext]_launchVars => LaunchIInv'
  <1> SUFFICES ASSUME LaunchIInv, [LaunchNext]_launchVars PROVE LaunchIInv'
    OBVIOUS
  <1>1. ASSUME NEW a \in Attempts, NoBundle(a) \/ CannotSpawn(a) \/ CaptureFails(a)
        PROVE  LaunchIInv'
    BY <1>1, FailingSteps
  <1>2. ASSUME NEW a \in Attempts, Spawn(a) PROVE LaunchIInv'
    BY <1>2, SpawnStep
  <1>3. ASSUME NEW a \in Attempts, HookFires(a) \/ HookDies(a) PROVE LaunchIInv'
    BY <1>3, HookStep
  <1>4. ASSUME NEW a \in Attempts, NEW end \in ChildEndings \ {"none"},
               ChildEnds(a, end)
        PROVE  LaunchIInv'
    BY <1>4, ChildEndsStep
  <1>5. ASSUME NEW a \in Attempts, Settle(a) PROVE LaunchIInv'
    BY <1>5, SettleStep
  <1>6. ASSUME NEW a \in Attempts, StartSynthetic(a) PROVE LaunchIInv'
    BY <1>6, StartSyntheticStep
  <1>7. ASSUME NEW a \in Attempts, ReopenOpenCode(a) PROVE LaunchIInv'
    BY <1>7, ReopenOpenCodeStep
  <1>8. ASSUME NEW a \in Attempts,
               LinkOpenCode(a) \/ ReturnOpenCode(a) \/ LinkReseedOnly(a)
        PROVE  LaunchIInv'
    BY <1>8, OtherProviderStep
  <1>9. CASE \/ \E a \in Attempts : WritesState(a)
             \/ \E s \in alive : Discard(s)
             \/ Elsewhere
    BY <1>9, DirectoryStep
  <1>10. CASE UNCHANGED launchVars
    BY <1>10 DEF launchVars, LaunchIInv, LaunchRows, SessionsOK
  <1> QED BY <1>1, <1>2, <1>3, <1>4, <1>5, <1>6, <1>7, <1>8, <1>9, <1>10
          DEF LaunchNext

\* Every state of the launch attempts satisfies the invariant of the proofs.
THEOREM LaunchIInvHolds == LaunchSpec => []LaunchIInv
  <1> QED BY LaunchInitEstablishes, LaunchStepPreserves, PTL DEF LaunchSpec

\* However many attempts and Copilots run side by side, whatever the hooks
\* name and however the children end: without a bundle only the recorded
\* session is opened, no second session follows one that ended well, and a
\* verified Copilot has its whole evidence on disk.
THEOREM LaunchIsSound == LaunchSpec => []LaunchInv
  <1>1. LaunchIInv => LaunchInv
    <2> SUFFICES ASSUME LaunchIInv PROVE LaunchInv
      OBVIOUS
    <2>1. \A a \in Attempts :
            AttemptOK(order[a], stage[a], child[a], evidence[a], outcome[a], opened)
      BY DEF LaunchIInv
    <2>2. LaunchTypeOK
      BY <2>1 DEF LaunchIInv, LaunchTypeOK, LaunchRows, SessionsOK, AttemptOK,
                  OutcomeFits, AttemptStages, ChildRows, EvidenceRows, OutcomeRows
    <2>3. FreshNeedsBundle
      <3>1. SUFFICES ASSUME NEW a \in Attempts, order[a].action # "review",
                            ~order[a].bundle
                     PROVE  /\ child[a].session \in {NoSessionId, order[a].locator}
                            /\ outcome[a].session \in {NoSessionId, order[a].locator}
        BY DEF FreshNeedsBundle
      <3>2. child[a].kind \in ChildKinds
        BY <2>1 DEF AttemptOK, ChildRows
      <3> QED BY <2>1, <3>1, <3>2
              DEF AttemptOK, ChildFits, OutcomeFits, ChildKinds
    <2>4. OneSessionPerAttempt
      BY <2>1 DEF OneSessionPerAttempt, AttemptOK, ChildFits
    <2>5. EvidenceIsComplete
      BY <2>1 DEF EvidenceIsComplete, AttemptOK, OutcomeFits
    <2> QED BY <2>2, <2>3, <2>4, <2>5 DEF LaunchInv
  <1> QED BY <1>1, LaunchIInvHolds, PTL

\* An attempt that reports a reopened session records the session that was on
\* record and that its own process had open, and that process ended well.
THEOREM ReopenedIsItsOwn == LaunchSpec => []ReopenedIsOwn
  <1>1. LaunchIInv => ReopenedIsOwn
    BY DEF LaunchIInv, ReopenedIsOwn, AttemptOK, OutcomeFits
  <1> QED BY <1>1, LaunchIInvHolds, PTL

-------------------------------------------------------------------------------
(* A search lists what it should, for any documents, queries and limits, and *)
(* whatever memory items do while it reads one lane after another.           *)
(*                                                                           *)
(* A reply is made of three lanes.  Of each the proof keeps which documents  *)
(* it holds, in which states they were read, that a document nothing changed *)
(* has one hit there, and that an exact match nothing changed has one.  What *)
(* is left is that First drops a hit only when it keeps as many as the limit. *)

HitStates == MemoryStates \cup {"absent", "evidence"}
Hits == [doc : Documents, state : HitStates, why : {"exact", "lexical"}, lexical : Nat,
         semantic : Nat]
Lanes == [evidence : SUBSET Hits, promoted : SUBSET Hits, tentative : SUBSET Hits]
Modes == {"none", "exact_lookup", "recall", "related_context", "candidate_audit",
          "promotion_review"}
Plans == [ok : BOOLEAN, mode : Modes, classes : SUBSET Classes, semantic : BOOLEAN,
          tentative : BOOLEAN]
Asked == Queries \cup {NoSearch.query}
Phases == {"idle", "embed", "evidence", "promoted", "tentative", "hydrate", "done"}
SearchReplies == {"none", "blocked", "error", "answered"}
SearchRecords ==
    [pc : Phases, by : Surfaces, query : Asked, plan : Plans, verified : BOOLEAN,
     candidates : SUBSET Documents, fused : BOOLEAN, exact : SUBSET Documents,
     hits : Lanes, moved : SUBSET Memories, reply : SearchReplies]

\* Every hit of a lane is of these documents, was read in one of these states,
\* and is still in it if nothing changed the item.
Belongs(hits, docs, states) ==
    /\ IsFiniteSet(hits)
    /\ \A h \in hits : /\ h.doc \in docs /\ h.state \in states
                       /\ h.doc \in Memories /\ Settled(h.doc) => h.state = standing[h.doc]

\* One hit for a document that nothing changed.
Single(hits) == \A g, h \in hits : g.doc = h.doc /\ Settled(g.doc) => g = h

\* The exact matches among these, where nothing changed them, have a hit.
Holds(hits, docs) ==
    \A d \in docs : IsExact(d, search.query) /\ Settled(d) => \E h \in hits : h.doc = d

Candidates == IF search.plan.tentative THEN {"candidate"} ELSE {}

SearchShape ==
    /\ standing \in [Memories -> MemoryStates \cup {"absent"}]
    /\ search \in SearchRecords
    /\ tree \in {"absent", "sound", "damaged"}
    /\ activeManifest \in {"absent", "torn", "sound", "damaged"}
    /\ installer \in {"idle", "digest", "verify", "done"}
    /\ search.reply # "none" <=> search.pc = "done"

\* What each lane holds, at any time.
LanesAgree ==
    /\ Belongs(search.hits.evidence, Evidence, {"evidence"})
    /\ Belongs(search.hits.promoted, Memories, Promoted)
    /\ Belongs(search.hits.tentative, Memories, Candidates)
    /\ Single(search.hits.evidence)
    /\ Single(search.hits.promoted)
    /\ Single(search.hits.tentative)

\* What was found so far: the exact identifiers, and each lane that was read.
FoundSoFar ==
    /\ search.pc \in {"promoted", "tentative", "hydrate"} =>
         /\ \A m \in Memories : Settled(m) =>
              (m \in search.exact <=> /\ IsExact(m, search.query)
                                      /\ standing[m] \in Promoted \cup {"candidate"})
         /\ Holds(search.hits.evidence, Evidence)
    /\ search.pc \in {"tentative", "hydrate"} =>
         Holds(search.hits.promoted, Standing(Promoted))
    /\ search.pc = "hydrate" /\ search.plan.tentative =>
         Holds(search.hits.tentative, Standing({"candidate"}))

SearchIInv == SearchShape /\ LanesAgree /\ FoundSoFar /\ ExactIsFound
------------------------------------------------------------------------------
(* Finite sets. *)

\* The set of a finite function's values is finite.
LEMMA ImageIsFinite ==
    ASSUME NEW D, IsFiniteSet(D), NEW f, f \in [D -> {f[d] : d \in D}]
    PROVE  IsFiniteSet({f[d] : d \in D})
<1>1. f \in Surjection(D, {f[d] : d \in D})
  BY DEF Surjection
<1> QED
  BY <1>1, FS_Surjection

\* A nonempty set of naturals has a least element.
LEMMA LeastNatural ==
    ASSUME NEW K, K \subseteq Nat, K # {}
    PROVE  \E k \in K : \A j \in K : k <= j
<1>1. PICK k \in K : \A j \in K : ~(<<j, k>> \in OpToRel(<, Nat))
  BY NatLessThanWellFounded, WFMin
<1>2. \A j \in K : ~(j < k)
  BY <1>1 DEF OpToRel
<1> QED
  BY <1>2

\* All documents are finitely many.
LEMMA DocumentsFinite == IsFiniteSet(Documents)
BY SearchConstants, FS_Union DEF Documents

------------------------------------------------------------------------------
(* The order of the hits. *)

LEMMA FusedType ==
    ASSUME NEW h \in Hits
    PROVE  Fused(h) \in Nat /\ h.lexical \in Nat /\ h.doc \in Nat
<1>1. Documents \subseteq Nat
  BY SearchConstants
<1>2. h.lexical \in Nat /\ h.semantic \in Nat /\ h.doc \in Documents
  BY DEF Hits
<1> QED
  <2>1. PICK l \in Nat, s \in Nat : l = h.lexical /\ s = h.semantic
    BY <1>2
  <2>2. l * 10 + s \in Nat
    OBVIOUS
  <2> QED
    BY <2>1, <2>2, <1>1, <1>2 DEF Fused

\* sort_evidence_hits and sort_memory_hits compare by a strict order.
LEMMA BeforeIsStrict ==
    ASSUME NEW f \in Hits, NEW g \in Hits, NEW h \in Hits
    PROVE  /\ ~Before(h, h)
           /\ Before(f, g) /\ Before(g, h) => Before(f, h)
<1>1. PICK ff \in Nat, fg \in Nat, fh \in Nat : ff = Fused(f) /\ fg = Fused(g) /\ fh = Fused(h)
  BY FusedType
<1>2. PICK lf \in Nat, lg \in Nat, lh \in Nat :
        lf = f.lexical /\ lg = g.lexical /\ lh = h.lexical
  BY FusedType
<1>3. PICK df \in Nat, dg \in Nat, dh \in Nat : df = f.doc /\ dg = g.doc /\ dh = h.doc
  BY FusedType
<1>4. PICK ef \in BOOLEAN, eg \in BOOLEAN, eh \in BOOLEAN :
        ef = (f.why = "exact") /\ eg = (g.why = "exact") /\ eh = (h.why = "exact")
  OBVIOUS
<1>5. Before(f, g) <=> \/ ff > fg
                       \/ ff = fg /\ ef /\ ~eg
                       \/ ff = fg /\ (ef <=> eg) /\ lf > lg
                       \/ ff = fg /\ (ef <=> eg) /\ lf = lg /\ df < dg
  BY <1>1, <1>2, <1>3, <1>4 DEF Before
<1>6. Before(g, h) <=> \/ fg > fh
                       \/ fg = fh /\ eg /\ ~eh
                       \/ fg = fh /\ (eg <=> eh) /\ lg > lh
                       \/ fg = fh /\ (eg <=> eh) /\ lg = lh /\ dg < dh
  BY <1>1, <1>2, <1>3, <1>4 DEF Before
<1>7. Before(f, h) <=> \/ ff > fh
                       \/ ff = fh /\ ef /\ ~eh
                       \/ ff = fh /\ (ef <=> eh) /\ lf > lh
                       \/ ff = fh /\ (ef <=> eh) /\ lf = lh /\ df < dh
  BY <1>1, <1>2, <1>3, <1>4 DEF Before
<1>8. ~Before(h, h)
  BY <1>1, <1>2, <1>3, <1>4 DEF Before
<1> QED
  BY <1>5, <1>6, <1>7, <1>8

Ahead(hits, h) == {g \in hits : Before(g, h)}

\* Fewer hits are ahead of one that is ahead.
LEMMA AheadShrinks ==
    ASSUME NEW H, H \subseteq Hits, IsFiniteSet(H), NEW g \in H, NEW h \in H, Before(g, h)
    PROVE  /\ Cardinality(Ahead(H, g)) \in Nat /\ Cardinality(Ahead(H, h)) \in Nat
           /\ Cardinality(Ahead(H, g)) < Cardinality(Ahead(H, h))
<1>1. Ahead(H, g) \subseteq Ahead(H, h) /\ g \in Ahead(H, h) /\ g \notin Ahead(H, g)
  BY BeforeIsStrict DEF Ahead
<1>2. IsFiniteSet(Ahead(H, g)) /\ IsFiniteSet(Ahead(H, h))
  BY FS_Subset DEF Ahead
<1>3. Cardinality(Ahead(H, g)) \in Nat /\ Cardinality(Ahead(H, h)) \in Nat
  BY <1>2, FS_CardinalityType
<1>4. /\ Cardinality(Ahead(H, g)) <= Cardinality(Ahead(H, h))
      /\ Cardinality(Ahead(H, h)) # Cardinality(Ahead(H, g))
  BY <1>1, <1>2, FS_Subset
<1> QED
  BY <1>3, <1>4

\* A hit is left out of a lane only when as many as the limit are kept.
LEMMA FirstKeepsLimit ==
    ASSUME NEW H, H \subseteq Hits, IsFiniteSet(H), NEW n \in Nat,
           NEW h \in H, h \notin First(H, n)
    PROVE  Cardinality(First(H, n)) >= n
<1>1. \A g \in H : Cardinality(Ahead(H, g)) \in Nat
  BY FS_Subset, FS_CardinalityType DEF Ahead
<1>2. \A g \in H : g \in First(H, n) <=> Cardinality(Ahead(H, g)) < n
  BY DEF First, Ahead
<1>3. PICK K : K = {Cardinality(Ahead(H, g)) : g \in H \ First(H, n)}
  OBVIOUS
<1>4. K \subseteq Nat /\ K # {}
  BY <1>1, <1>3
<1>5. PICK k \in K : \A j \in K : k <= j
  BY <1>4, LeastNatural
<1>6. PICK l \in H \ First(H, n) : k = Cardinality(Ahead(H, l))
  BY <1>3, <1>5
<1>7. Ahead(H, l) \subseteq First(H, n)
  <2> SUFFICES ASSUME NEW g \in Ahead(H, l), g \notin First(H, n) PROVE FALSE
    OBVIOUS
  <2>1. g \in H /\ Before(g, l)
    BY DEF Ahead
  <2>2. Cardinality(Ahead(H, g)) < k /\ Cardinality(Ahead(H, g)) \in Nat
    BY <2>1, <1>6, AheadShrinks
  <2>3. Cardinality(Ahead(H, g)) \in K
    BY <2>1, <1>3
  <2> QED
    BY <2>2, <2>3, <1>4, <1>5
<1>8. IsFiniteSet(First(H, n))
  BY FS_Subset DEF First
<1>9. /\ Cardinality(Ahead(H, l)) <= Cardinality(First(H, n))
      /\ Cardinality(First(H, n)) \in Nat
  BY <1>7, <1>8, FS_Subset, FS_CardinalityType
<1>10. n <= Cardinality(Ahead(H, l)) /\ Cardinality(Ahead(H, l)) \in Nat
  BY <1>1, <1>2, <1>6
<1> QED
  BY <1>9, <1>10

------------------------------------------------------------------------------
(* The reads. *)

LEMMA LexicalType ==
    ASSUME NEW d \in Documents, NEW q, NEW state
    PROVE  Lexical(d, q, state) \in Nat
<1>1. IsFiniteSet(Text[d].name) /\ IsFiniteSet(Text[d].body)
  BY SearchConstants
<1>2. IsFiniteSet(q.tokens \cap Text[d].name) /\ IsFiniteSet(q.tokens \cap Text[d].body)
  BY <1>1, FS_Subset
<1>3. PICK n \in Nat, b \in Nat : /\ n = Cardinality(q.tokens \cap Text[d].name)
                                  /\ b = Cardinality(q.tokens \cap Text[d].body)
  BY <1>2, FS_CardinalityType
<1>4. n * Weight(d).name \in Nat /\ b * Weight(d).body \in Nat
  BY DEF Weight
<1>5. Merit(state) \in Nat
  BY DEF Merit
<1> QED
  BY <1>3, <1>4, <1>5 DEF Lexical

LEMMA StateType ==
    ASSUME SearchShape, NEW d \in Documents
    PROVE  /\ StateOf(d) \in HitStates
           /\ d \in Memories => StateOf(d) = standing[d]
           /\ d \in Evidence => StateOf(d) = "evidence"
<1>1. d \in Evidence => d \notin Memories
  BY SearchConstants
<1>2. d \in Memories => standing[d] \in MemoryStates \cup {"absent"}
  BY DEF SearchShape
<1> QED
  BY <1>1, <1>2 DEF StateOf, HitStates

\* The exact lookup gives one hit for each of its documents that is exact.
LEMMA ExactRead ==
    ASSUME SearchShape, NEW docs, docs \subseteq Documents
    PROVE  /\ ExactHits(docs) \subseteq Hits
           /\ IsFiniteSet(ExactHits(docs))
           /\ \A h \in ExactHits(docs) : /\ h.doc \in docs /\ IsExact(h.doc, search.query)
                                         /\ h = Hit(h.doc, StateOf(h.doc), "exact", ExactScore)
           /\ \A d \in docs : IsExact(d, search.query) => \E h \in ExactHits(docs) : h.doc = d
<1>1. PICK D : D = {x \in docs : IsExact(x, search.query)}
  OBVIOUS
<1>2. ExactHits(docs) = {Hit(d, StateOf(d), "exact", ExactScore) : d \in D}
  BY <1>1 DEF ExactHits
<1>3. \A d : Hit(d, StateOf(d), "exact", ExactScore).doc = d
  BY DEF Hit
<1>4. \A d \in D : Hit(d, StateOf(d), "exact", ExactScore) \in Hits
  BY <1>1, StateType DEF Hit, Hits, ExactScore
<1>5. IsFiniteSet(D) /\ D \subseteq docs
  BY <1>1, DocumentsFinite, FS_Subset
<1>6. PICK f : f = [d \in D |-> Hit(d, StateOf(d), "exact", ExactScore)]
  OBVIOUS
<1>7. ExactHits(docs) = {f[d] : d \in D} /\ f \in [D -> {f[d] : d \in D}]
  BY <1>2, <1>6
<1>8. IsFiniteSet(ExactHits(docs))
  BY <1>5, <1>7, ImageIsFinite
<1>9. ExactHits(docs) \subseteq Hits
  BY <1>2, <1>4
<1>10. ASSUME NEW h \in ExactHits(docs)
       PROVE  /\ h.doc \in docs /\ IsExact(h.doc, search.query)
              /\ h = Hit(h.doc, StateOf(h.doc), "exact", ExactScore)
  <2>1. PICK d \in D : h = Hit(d, StateOf(d), "exact", ExactScore)
    BY <1>2
  <2>2. h.doc = d
    BY <2>1, <1>3
  <2> QED
    BY <2>1, <2>2, <1>1
<1>11. ASSUME NEW d \in docs, IsExact(d, search.query)
       PROVE  \E h \in ExactHits(docs) : h.doc = d
  <2>1. Hit(d, StateOf(d), "exact", ExactScore) \in ExactHits(docs)
    BY <1>1, <1>2, <1>11
  <2> QED
    BY <2>1, <1>3
<1> QED
  BY <1>8, <1>9, <1>10, <1>11

\* The lexical statement gives at most one hit for a document, and none for a
\* document whose exact lookup came before.
LEMMA LexicalRead ==
    ASSUME SearchShape, NEW docs, docs \subseteq Documents
    PROVE  /\ LexicalHits(docs) \subseteq Hits
           /\ IsFiniteSet(LexicalHits(docs))
           /\ \A h \in LexicalHits(docs) :
                /\ h.doc \in docs /\ h.doc \notin search.exact
                /\ h = Hit(h.doc, StateOf(h.doc), "lexical",
                           Lexical(h.doc, search.query, StateOf(h.doc)))
<1>1. PICK q : q = search.query
  OBVIOUS
<1>2. PICK D : D = {x \in docs : Matches(x, q)}
  OBVIOUS
<1>3. PICK found : found = {Hit(d, StateOf(d), "lexical", Lexical(d, q, StateOf(d))) : d \in D}
  OBVIOUS
<1>4. LexicalHits(docs) = {h \in Best(found, Limit) : h.doc \notin search.exact}
  BY <1>1, <1>2, <1>3 DEF LexicalHits
<1>5. LexicalHits(docs) \subseteq found /\ \A h \in LexicalHits(docs) : h.doc \notin search.exact
  BY <1>4 DEF Best
<1>6. \A d \in D : Hit(d, StateOf(d), "lexical", Lexical(d, q, StateOf(d))) \in Hits
  BY <1>2, StateType, LexicalType DEF Hit, Hits
<1>7. IsFiniteSet(D) /\ D \subseteq docs
  BY <1>2, DocumentsFinite, FS_Subset
<1>8. PICK f : f = [d \in D |-> Hit(d, StateOf(d), "lexical", Lexical(d, q, StateOf(d)))]
  OBVIOUS
<1>9. found = {f[d] : d \in D} /\ f \in [D -> {f[d] : d \in D}]
  BY <1>3, <1>8
<1>10. IsFiniteSet(found)
  BY <1>7, <1>9, ImageIsFinite
<1>11. IsFiniteSet(LexicalHits(docs))
  BY <1>5, <1>10, FS_Subset
<1>12. found \subseteq Hits
  BY <1>3, <1>6
<1>13. ASSUME NEW h \in LexicalHits(docs)
       PROVE  /\ h.doc \in docs
              /\ h = Hit(h.doc, StateOf(h.doc), "lexical",
                         Lexical(h.doc, search.query, StateOf(h.doc)))
  <2>1. PICK d \in D : h = Hit(d, StateOf(d), "lexical", Lexical(d, q, StateOf(d)))
    BY <1>3, <1>5
  <2>2. h.doc = d
    BY <2>1 DEF Hit
  <2> QED
    BY <2>1, <2>2, <1>1, <1>7
<1> QED
  BY <1>5, <1>11, <1>12, <1>13

\* What prior_review_lookup reads of the memory in one state or another: one
\* hit for a document that nothing changed, and one for each exact match.
LEMMA MemoryRead ==
    ASSUME SearchShape, FoundSoFar, search.pc \in {"promoted", "tentative"},
           NEW states, states \subseteq Promoted \cup {"candidate"},
           NEW hits, hits = ExactHits(Standing(states)) \cup LexicalHits(Standing(states))
    PROVE  /\ hits \subseteq Hits
           /\ Belongs(hits, Memories, states)
           /\ Single(hits)
           /\ Holds(hits, Standing(states))
<1>1. Standing(states) \subseteq Documents /\ Standing(states) \subseteq Memories
  BY DEF Standing, Documents
<1>2. PICK E, L : E = ExactHits(Standing(states)) /\ L = LexicalHits(Standing(states))
  OBVIOUS
<1>3. /\ E \subseteq Hits /\ IsFiniteSet(E)
      /\ \A h \in E : /\ h.doc \in Standing(states) /\ IsExact(h.doc, search.query)
                      /\ h = Hit(h.doc, StateOf(h.doc), "exact", ExactScore)
      /\ \A d \in Standing(states) : IsExact(d, search.query) => \E h \in E : h.doc = d
  BY <1>1, <1>2, ExactRead
<1>4. /\ L \subseteq Hits /\ IsFiniteSet(L)
      /\ \A h \in L : /\ h.doc \in Standing(states) /\ h.doc \notin search.exact
                      /\ h = Hit(h.doc, StateOf(h.doc), "lexical",
                                 Lexical(h.doc, search.query, StateOf(h.doc)))
  BY <1>1, <1>2, LexicalRead
<1>5. hits = E \cup L
  BY <1>2
<1>6. hits \subseteq Hits /\ IsFiniteSet(hits)
  <2>1. IsFiniteSet(E \cup L)
    BY <1>3, <1>4, FS_Union
  <2> QED
    BY <2>1, <1>3, <1>4, <1>5
<1>7. ASSUME NEW h \in hits
      PROVE  /\ h.doc \in Memories /\ standing[h.doc] \in states
             /\ h.state = standing[h.doc]
  <2>1. h.doc \in Standing(states) /\ h.state = StateOf(h.doc)
    BY <1>3, <1>4, <1>5 DEF Hit
  <2> QED
    BY <2>1, <1>1, StateType DEF Standing
<1>8. Belongs(hits, Memories, states)
  BY <1>6, <1>7 DEF Belongs
<1>9. ASSUME NEW g \in hits, NEW h \in hits, g.doc = h.doc, Settled(g.doc)
      PROVE  g = h
  <2>1. g \in E => h \notin L
    <3> SUFFICES ASSUME g \in E, h \in L PROVE FALSE
      OBVIOUS
    <3>1. g.doc \in search.exact
      BY <1>3, <1>7, <1>9 DEF FoundSoFar
    <3> QED
      BY <3>1, <1>4, <1>9
  <2>2. h \in E => g \notin L
    <3> SUFFICES ASSUME h \in E, g \in L PROVE FALSE
      OBVIOUS
    <3>1. h.doc \in search.exact
      BY <1>3, <1>7, <1>9 DEF FoundSoFar
    <3> QED
      BY <3>1, <1>4, <1>9
  <2>3. CASE g \in E /\ h \in E
    BY <2>3, <1>3, <1>9
  <2>4. CASE g \in L /\ h \in L
    BY <2>4, <1>4, <1>9
  <2> QED
    BY <2>1, <2>2, <2>3, <2>4, <1>5
<1>10. Holds(hits, Standing(states))
  BY <1>3, <1>5 DEF Holds
<1> QED
  BY <1>6, <1>8, <1>9, <1>10 DEF Single

------------------------------------------------------------------------------
(* The reply. *)

\* A lane that loses hits is still one of the same documents.
LEMMA FewerHits ==
    ASSUME NEW H, NEW G, G \subseteq H, NEW docs, NEW states
    PROVE  /\ Belongs(H, docs, states) => Belongs(G, docs, states)
           /\ Single(H) => Single(G)
<1>1. IsFiniteSet(H) => IsFiniteSet(G)
  BY FS_Subset
<1> QED
  BY <1>1 DEF Belongs, Single

LEMMA AffinityIsNumber == \A d \in Documents : Affinity[d] \in Nat
<1>1. PICK I : I = 0..1000
  OBVIOUS
<1>2. I \subseteq Nat
  BY <1>1
<1>3. \A d \in Documents : Affinity[d] \in I
  BY <1>1, SearchConstants
<1> QED
  BY <1>2, <1>3

\* Scores do not move a hit from its document.
LEMMA ScoredLane ==
    ASSUME SearchShape, NEW H, H \subseteq Hits, NEW docs, NEW states,
           Belongs(H, docs, states), Single(H)
    PROVE  /\ Scored(H) \subseteq Hits
           /\ Belongs(Scored(H), docs, states)
           /\ Single(Scored(H))
           /\ \A D : Holds(H, D) => Holds(Scored(H), D)
<1>1. PICK f : f = [h \in H |-> [h EXCEPT !.semantic = IF h.doc \in search.candidates
                                                       THEN Affinity[h.doc] ELSE 0]]
  OBVIOUS
<1>2. Scored(H) = {f[h] : h \in H} /\ f \in [H -> {f[h] : h \in H}]
  BY <1>1 DEF Scored
<1>3. IsFiniteSet(Scored(H))
  BY <1>2, ImageIsFinite DEF Belongs
<1>4. ASSUME NEW h \in H
      PROVE  f[h] \in Hits /\ f[h].doc = h.doc /\ f[h].state = h.state
  <2>1. h \in Hits /\ h.doc \in Documents
    BY DEF Hits
  <2>4. Affinity[h.doc] \in Nat
    BY <2>1, AffinityIsNumber, Zenon
  <2>2. PICK n \in Nat : n = IF h.doc \in search.candidates THEN Affinity[h.doc] ELSE 0
    BY <2>4
  <2>3. f[h] = [h EXCEPT !.semantic = n]
    BY <1>1, <2>2
  <2> QED
    BY <2>1, <2>3 DEF Hits
<1>5. Scored(H) \subseteq Hits
  BY <1>2, <1>4
<1>6. Belongs(Scored(H), docs, states)
  BY <1>2, <1>3, <1>4 DEF Belongs
<1>7. Single(Scored(H))
  BY <1>2, <1>4 DEF Single
<1>8. ASSUME NEW D, Holds(H, D)
      PROVE  Holds(Scored(H), D)
  BY <1>2, <1>4, <1>8 DEF Holds
<1> QED
  BY <1>5, <1>6, <1>7, <1>8

\* A candidate that no statement found is read by its id, once.
LEMMA HydratedLane ==
    ASSUME SearchShape, NEW H, H \subseteq Hits, NEW docs, NEW states,
           Belongs(H, docs, states), Single(H),
           NEW known, DocsOf(H) \subseteq known,
           NEW M, \A h \in M : /\ h.doc \in search.candidates \ known
                               /\ h = Hit(h.doc, StateOf(h.doc), "lexical", 0)
                               /\ h.doc \in docs /\ h.state \in states
    PROVE  /\ H \cup M \subseteq Hits
           /\ Belongs(H \cup M, docs, states)
           /\ Single(H \cup M)
           /\ \A D : Holds(H, D) => Holds(H \cup M, D)
<1>1. search.candidates \subseteq Documents
  BY DEF SearchShape, SearchRecords
<1>2. M \subseteq Hits
  <2> SUFFICES ASSUME NEW h \in M PROVE h \in Hits
    OBVIOUS
  <2>1. PICK d \in Documents : h = Hit(d, StateOf(d), "lexical", 0)
    BY <1>1
  <2> QED
    BY <2>1, StateType DEF Hit, Hits
<1>3. IsFiniteSet(M)
  <2>1. PICK D : D = {h.doc : h \in M}
    OBVIOUS
  <2>2. D \subseteq Documents
    BY <2>1, <1>1
  <2>3. IsFiniteSet(D)
    BY <2>2, DocumentsFinite, FS_Subset
  <2>4. PICK f : f = [d \in D |-> Hit(d, StateOf(d), "lexical", 0)]
    OBVIOUS
  <2>5. f \in [D -> {f[d] : d \in D}]
    BY <2>4
  <2>6. IsFiniteSet({f[d] : d \in D})
    BY <2>3, <2>5, ImageIsFinite
  <2>7. M \subseteq {f[d] : d \in D}
    BY <2>1, <2>4
  <2> QED
    BY <2>6, <2>7, FS_Subset
<1>4. IsFiniteSet(H \cup M)
  BY <1>3, FS_Union DEF Belongs
<1>5. \A h \in M : h.doc \in Memories => h.state = standing[h.doc]
  <2> SUFFICES ASSUME NEW h \in M, h.doc \in Memories PROVE h.state = standing[h.doc]
    OBVIOUS
  <2>1. h.state = StateOf(h.doc)
    BY DEF Hit
  <2> QED
    BY <2>1 DEF StateOf
<1>6. Belongs(H \cup M, docs, states)
  BY <1>4, <1>5 DEF Belongs
<1>7. \A g \in H, h \in M : g.doc # h.doc
  BY DEF DocsOf
<1>8. Single(H \cup M)
  BY <1>7 DEF Single
<1> QED
  BY <1>2, <1>6, <1>8 DEF Holds

\* What a lane is before its first hits are given.
Hydrated(H, M) == IF search.fused THEN Scored(H \cup M) ELSE H \cup M

LEMMA HydratedAgrees ==
    ASSUME SearchShape, NEW H, H \subseteq Hits, NEW docs, NEW states,
           Belongs(H, docs, states), Single(H),
           NEW known, DocsOf(H) \subseteq known,
           NEW M, \A h \in M : /\ h.doc \in search.candidates \ known
                               /\ h = Hit(h.doc, StateOf(h.doc), "lexical", 0)
                               /\ h.doc \in docs /\ h.state \in states
    PROVE  /\ Hydrated(H, M) \subseteq Hits
           /\ Belongs(Hydrated(H, M), docs, states)
           /\ Single(Hydrated(H, M))
           /\ \A D : Holds(H, D) => Holds(Hydrated(H, M), D)
<1>1. /\ H \cup M \subseteq Hits
      /\ Belongs(H \cup M, docs, states)
      /\ Single(H \cup M)
      /\ \A D : Holds(H, D) => Holds(H \cup M, D)
  BY HydratedLane
<1>2. /\ Scored(H \cup M) \subseteq Hits
      /\ Belongs(Scored(H \cup M), docs, states)
      /\ Single(Scored(H \cup M))
      /\ \A D : Holds(H \cup M, D) => Holds(Scored(H \cup M), D)
  BY <1>1, ScoredLane
<1> QED
  BY <1>1, <1>2 DEF Hydrated

------------------------------------------------------------------------------
(* The steps. *)

\* Which documents, states and matches count stays as it is while no memory
\* item changes.
LEMMA LanesCarry ==
    ASSUME standing' = standing, search'.moved = search.moved, search'.query = search.query,
           NEW CONSTANT H
    PROVE  /\ \A D, S : Belongs(H, D, S) => Belongs(H, D, S)'
           /\ Single(H) => Single(H)'
           /\ \A D : Holds(H, D) => Holds(H, D)'
           /\ \A S : Standing(S)' = Standing(S)
           /\ \A m : Settled(m)' = Settled(m)
<1>1. \A m : Settled(m)' = Settled(m)
  BY DEF Settled
<1>2. \A D, S : Belongs(H, D, S) => Belongs(H, D, S)'
  BY <1>1 DEF Belongs
<1>3. Single(H) => Single(H)'
  BY <1>1 DEF Single
<1>4. \A D : Holds(H, D) => Holds(H, D)'
  BY <1>1 DEF Holds
<1>5. \A S : Standing(S)' = Standing(S)
  BY DEF Standing
<1> QED
  BY <1>1, <1>2, <1>3, <1>4, <1>5

\* The three lanes, as they are after a step that changes no memory item.
LEMMA LanesAfter ==
    ASSUME standing' = standing, search'.moved = search.moved, search'.query = search.query,
           search'.plan = search.plan,
           NEW CONSTANT e, NEW CONSTANT p, NEW CONSTANT t,
           search'.hits.evidence = e, search'.hits.promoted = p, search'.hits.tentative = t,
           Belongs(e, Evidence, {"evidence"}), Belongs(p, Memories, Promoted),
           Belongs(t, Memories, Candidates), Single(e), Single(p), Single(t)
    PROVE  LanesAgree'
<1>1. Candidates' = Candidates
  BY DEF Candidates
<1>2. /\ Belongs(e, Evidence, {"evidence"})' /\ Belongs(p, Memories, Promoted)'
      /\ Belongs(t, Memories, Candidates)'
      /\ Single(e)' /\ Single(p)' /\ Single(t)'
  <2>1. PICK C : C = Candidates
    OBVIOUS
  <2>2. Belongs(t, Memories, C)'
    BY <2>1, LanesCarry
  <2> QED
    BY <2>1, <2>2, <1>1, LanesCarry
<1> QED
  BY <1>2 DEF LanesAgree

\* A step that leaves the search and the items alone.
LEMMA SearchKept ==
    ASSUME SearchIInv, UNCHANGED <<standing, search>>,
           tree' \in {"absent", "sound", "damaged"},
           activeManifest' \in {"absent", "torn", "sound", "damaged"},
           installer' \in {"idle", "digest", "verify", "done"}
    PROVE  SearchIInv'
<1>1. SearchShape'
  BY DEF SearchIInv, SearchShape
<1>2. \A m : Settled(m)' = Settled(m)
  BY DEF Settled
<1>3. PICK e, p, t : e = search.hits.evidence /\ p = search.hits.promoted /\ t = search.hits.tentative
  OBVIOUS
<1>4. LanesAgree'
  BY <1>3, LanesAfter DEF SearchIInv, LanesAgree
<1>5. FoundSoFar'
  <2>1. PICK P, C : P = Standing(Promoted) /\ C = Standing({"candidate"})
    OBVIOUS
  <2>2. P = Standing(Promoted)' /\ C = Standing({"candidate"})'
    BY <2>1 DEF Standing
  <2>3. /\ Holds(e, Evidence) => Holds(e, Evidence)'
        /\ Holds(p, P) => Holds(p, P)'
        /\ Holds(t, C) => Holds(t, C)'
    BY LanesCarry
  <2> QED
    BY <2>1, <2>2, <2>3, <1>2, <1>3 DEF SearchIInv, FoundSoFar
<1>6. ExactIsFound'
  BY <1>2 DEF SearchIInv, ExactIsFound, Answered, Limit
<1> QED
  BY <1>1, <1>4, <1>5, <1>6 DEF SearchIInv

\* While a search is not answered, there is nothing to find in its reply.
LEMMA Unanswered ==
    ASSUME search.pc # "done" \/ search.reply # "answered"
    PROVE  ExactIsFound
BY DEF ExactIsFound, Answered

\* Nothing was read before the first lane.
LEMMA NothingFound ==
    ASSUME search.hits = NoHits
    PROVE  LanesAgree
BY FS_EmptySet DEF LanesAgree, NoHits, Belongs, Single

LEMMA NoSearchType == NoSearch \in SearchRecords
<1>1. NoHits \in Lanes
  BY DEF NoHits, Lanes
<1>2. [ok |-> FALSE, mode |-> "none", classes |-> {}, semantic |-> FALSE, tentative |-> FALSE]
      \in Plans
  BY DEF Plans, Modes
<1>3. NoSearch.query \in Asked
  BY DEF Asked
<1> QED
  BY <1>1, <1>2, <1>3 DEF NoSearch, SearchRecords, Surfaces, Phases, SearchReplies

LEMMA InitEstablishes ==
    ASSUME SearchInit
    PROVE  SearchIInv
<1>1. SearchShape
  BY NoSearchType DEF SearchInit, SearchShape, MemoryStates, Promoted, NoSearch
<1>2. search.hits = NoHits /\ search.pc = "idle"
  BY DEF SearchInit, NoSearch
<1> QED
  BY <1>1, <1>2, NothingFound, Unanswered DEF SearchIInv, FoundSoFar

LEMMA PlanType ==
    ASSUME NEW by \in Surfaces, NEW q \in Queries, NEW v \in BOOLEAN
    PROVE  Plan(by, q, v) \in Plans /\ CockpitPlan(v) \in Plans
<1>1. /\ q.classes \subseteq Classes
      /\ q.mode \in {"auto", "exact_lookup", "recall", "related_context", "candidate_audit",
                     "promotion_review"}
  BY SearchConstants
<1>2. Resolved(q) \in Modes
  BY <1>1 DEF Resolved, Modes
<1>3. PICK asked : asked = IF by = "worker" THEN q.classes ELSE {}
  OBVIOUS
<1>4. PICK c : c = IF asked # {} THEN asked
                   ELSE IF Resolved(q) \in CandidateAware THEN Classes
                        ELSE Classes \ {"tentative_candidates"}
  OBVIOUS
<1>5. c \in SUBSET Classes
  BY <1>1, <1>3, <1>4
<1>7. PICK o \in BOOLEAN :
        o = (/\ q.tokens # {} \/ (by = "worker" /\ q.anchors)
             /\ Resolved(q) = "related_context" => q.anchors
             /\ Resolved(q) = "promotion_review" => by # "worker"
             /\ Resolved(q) \in CandidateAware <=> "tentative_candidates" \in c)
  OBVIOUS
<1>8. Plan(by, q, v) = [ok |-> o, mode |-> Resolved(q), classes |-> c,
                               semantic |-> Resolved(q) \in Semantic /\ v,
                               tentative |-> Resolved(q) \in CandidateAware]
  BY <1>3, <1>4, <1>7 DEF Plan
<1>9. Plan(by, q, v) \in Plans
  BY <1>2, <1>5, <1>8 DEF Plans
<1>6. CockpitPlan(v) \in Plans
  BY DEF CockpitPlan, Plans, Modes, Classes
<1> QED
  BY <1>6, <1>9

LEMMA BeginSearchStep ==
    ASSUME SearchIInv, BeginSearch
    PROVE  SearchIInv'
<1>1. PICK v \in BOOLEAN : v = (Verification = "verified")
  OBVIOUS
<1>2. PICK by \in Surfaces, q \in Queries :
        LET plan == IF by = "cockpit" THEN CockpitPlan(v) ELSE Plan(by, q, v)
        IN search' = [NoSearch EXCEPT !.pc = IF plan.ok THEN "embed" ELSE "done",
                        !.by = by, !.query = q, !.plan = plan, !.verified = v,
                        !.reply = IF plan.ok THEN "none" ELSE "blocked"]
  BY <1>1, ZenonT(60) DEF BeginSearch
<1>3. PICK plan \in Plans : plan = IF by = "cockpit" THEN CockpitPlan(v) ELSE Plan(by, q, v)
  BY PlanType
<1>4. PICK pc \in {"embed", "done"}, reply \in {"none", "blocked"} :
        /\ pc = (IF plan.ok THEN "embed" ELSE "done")
        /\ reply = (IF plan.ok THEN "none" ELSE "blocked")
  OBVIOUS
<1>5. search' = [NoSearch EXCEPT !.pc = pc, !.by = by, !.query = q, !.plan = plan,
                   !.verified = v, !.reply = reply]
  BY <1>2, <1>3, <1>4
<1>6. /\ search' \in SearchRecords
      /\ search'.pc = pc /\ search'.reply = reply /\ search'.hits = NoSearch.hits
  BY <1>5, NoSearchType DEF SearchRecords, Asked, Phases, SearchReplies
<1>7. search'.hits = NoHits
  BY <1>6 DEF NoSearch
<1>8. LanesAgree'
  BY <1>7, FS_EmptySet DEF LanesAgree, NoHits, Belongs, Single
<1>9. SearchShape'
  BY <1>4, <1>6 DEF SearchIInv, SearchShape, BeginSearch
<1>10. FoundSoFar'
  BY <1>4, <1>6 DEF FoundSoFar
<1>11. ExactIsFound'
  BY <1>4, <1>6 DEF ExactIsFound, Answered
<1> QED
  BY <1>8, <1>9, <1>10, <1>11 DEF SearchIInv

LEMMA EmbedStep ==
    ASSUME SearchIInv, Embed
    PROVE  SearchIInv'
<1>1. PICK c \in SUBSET Documents : search' = [search EXCEPT !.pc = "evidence", !.candidates = c]
  BY DEF Embed, Documents
<1>2. search \in SearchRecords
  BY DEF SearchIInv, SearchShape
<1>3. /\ search' \in SearchRecords /\ search'.pc = "evidence" /\ search'.hits = search.hits
      /\ search'.moved = search.moved /\ search'.query = search.query
      /\ search'.plan = search.plan /\ search'.reply = search.reply
  BY <1>1, <1>2 DEF SearchRecords, Phases
<1>4. search.pc = "embed" /\ standing' = standing
  BY DEF Embed
<1>5. PICK e, p, t : e = search.hits.evidence /\ p = search.hits.promoted /\ t = search.hits.tentative
  OBVIOUS
<1>6. LanesAgree'
  BY <1>3, <1>4, <1>5, LanesAfter DEF SearchIInv, LanesAgree
<1>7. SearchShape'
  BY <1>3, <1>4 DEF SearchIInv, SearchShape, Embed
<1>8. FoundSoFar' /\ ExactIsFound'
  BY <1>3 DEF FoundSoFar, ExactIsFound, Answered
<1> QED
  BY <1>6, <1>7, <1>8 DEF SearchIInv

\* What prior_review_lookup reads of the findings and outcomes.
EvidenceRead == ExactHits(Evidence) \cup {h \in LexicalHits(Evidence) : ~IsExact(h.doc, search.query)}

LEMMA EvidenceReadAgrees ==
    ASSUME SearchShape
    PROVE  /\ EvidenceRead \subseteq Hits
           /\ Belongs(EvidenceRead, Evidence, {"evidence"})
           /\ Single(EvidenceRead)
           /\ Holds(EvidenceRead, Evidence)
<1>1. Evidence \subseteq Documents /\ Evidence \cap Memories = {}
  BY SearchConstants DEF Documents
<1>2. PICK E, L : /\ E = ExactHits(Evidence)
                  /\ L = {h \in LexicalHits(Evidence) : ~IsExact(h.doc, search.query)}
  OBVIOUS
<1>3. /\ E \subseteq Hits /\ IsFiniteSet(E)
      /\ \A h \in E : /\ h.doc \in Evidence /\ IsExact(h.doc, search.query)
                      /\ h = Hit(h.doc, StateOf(h.doc), "exact", ExactScore)
      /\ \A d \in Evidence : IsExact(d, search.query) => \E h \in E : h.doc = d
  BY <1>1, <1>2, ExactRead
<1>4. /\ L \subseteq Hits
      /\ \A h \in L : /\ h.doc \in Evidence /\ ~IsExact(h.doc, search.query)
                      /\ h = Hit(h.doc, StateOf(h.doc), "lexical",
                                 Lexical(h.doc, search.query, StateOf(h.doc)))
  BY <1>1, <1>2, LexicalRead
<1>5. IsFiniteSet(L)
  <2>1. IsFiniteSet(LexicalHits(Evidence))
    BY <1>1, LexicalRead
  <2> QED
    BY <2>1, <1>2, FS_Subset
<1>6. EvidenceRead = E \cup L
  BY <1>2 DEF EvidenceRead
<1>7. IsFiniteSet(EvidenceRead)
  BY <1>3, <1>5, <1>6, FS_Union
<1>8. \A h \in E \cup L : h.doc \in Evidence /\ h.state = "evidence"
  <2> SUFFICES ASSUME NEW h \in E \cup L PROVE h.doc \in Evidence /\ h.state = "evidence"
    OBVIOUS
  <2>1. h.doc \in Evidence /\ h.state = StateOf(h.doc)
    BY <1>3, <1>4 DEF Hit
  <2> QED
    BY <2>1, <1>1, StateType
<1>9. Belongs(EvidenceRead, Evidence, {"evidence"})
  BY <1>1, <1>6, <1>7, <1>8 DEF Belongs
<1>10. Single(EvidenceRead)
  BY <1>3, <1>4, <1>6 DEF Single
<1>11. Holds(EvidenceRead, Evidence)
  BY <1>3, <1>6 DEF Holds
<1> QED
  BY <1>3, <1>4, <1>6, <1>9, <1>10, <1>11

LEMMA ReadEvidenceStep ==
    ASSUME SearchIInv, ReadEvidence
    PROVE  SearchIInv'
<1>1. search \in SearchRecords /\ search.hits \in Lanes /\ search.pc = "evidence"
  BY DEF SearchIInv, SearchShape, SearchRecords, ReadEvidence
<1>2. PICK e, p, t : e = search.hits.evidence /\ p = search.hits.promoted /\ t = search.hits.tentative
  OBVIOUS
<1>3. standing' = standing
  BY DEF ReadEvidence
<1>4. CASE Verification = "error"
  <2>1. search' = [search EXCEPT !.pc = "done", !.reply = "error"]
    BY <1>4 DEF ReadEvidence
  <2>2. /\ search' \in SearchRecords /\ search'.pc = "done" /\ search'.reply = "error"
        /\ search'.hits = search.hits /\ search'.moved = search.moved
        /\ search'.query = search.query /\ search'.plan = search.plan
    BY <2>1, <1>1 DEF SearchRecords, Phases, SearchReplies
  <2>3. LanesAgree'
    BY <2>2, <1>2, <1>3, LanesAfter DEF SearchIInv, LanesAgree
  <2>4. SearchShape'
    BY <2>2, <1>3 DEF SearchIInv, SearchShape, ReadEvidence
  <2>5. FoundSoFar' /\ ExactIsFound'
    BY <2>2 DEF FoundSoFar, ExactIsFound, Answered
  <2> QED
    BY <2>3, <2>4, <2>5 DEF SearchIInv
<1>5. CASE Verification # "error"
  <2>1. PICK E : E = EvidenceRead
    OBVIOUS
  <2>2. PICK x : x = {d \in Standing(Promoted \cup {"candidate"}) \cup Evidence :
                        IsExact(d, search.query)}
    OBVIOUS
  <2>3. PICK f \in BOOLEAN : f = (/\ search.verified /\ Verification = "verified"
                                  /\ indexReady /\ search.candidates # {})
    OBVIOUS
  <2>4. search' = [search EXCEPT !.pc = "promoted", !.fused = f, !.exact = x,
                     !.hits.evidence = E]
    BY <1>5, <2>1, <2>2, <2>3 DEF ReadEvidence, EvidenceRead
  <2>5. E \subseteq Hits /\ Belongs(E, Evidence, {"evidence"}) /\ Single(E) /\ Holds(E, Evidence)
    BY <2>1, EvidenceReadAgrees DEF SearchIInv
  <2>6. x \subseteq Documents
    BY <2>2 DEF Standing, Documents
  <2>7. PICK lanes : lanes = [search.hits EXCEPT !.evidence = E]
    OBVIOUS
  <2>8. /\ lanes \in Lanes /\ lanes.evidence = E /\ lanes.promoted = p /\ lanes.tentative = t
    BY <2>5, <2>7, <1>1, <1>2 DEF Lanes
  <2>9. search' = [search EXCEPT !.pc = "promoted", !.fused = f, !.exact = x, !.hits = lanes]
    BY <2>4, <2>7, <1>1 DEF SearchRecords
  <2>10. /\ search' \in SearchRecords /\ search'.pc = "promoted" /\ search'.reply = search.reply
         /\ search'.hits = lanes /\ search'.moved = search.moved /\ search'.exact = x
         /\ search'.query = search.query /\ search'.plan = search.plan
    BY <2>6, <2>8, <2>9, <1>1 DEF SearchRecords, Phases
  <2>11. LanesAgree'
    BY <2>5, <2>8, <2>10, <1>2, <1>3, LanesAfter DEF SearchIInv, LanesAgree
  <2>12. SearchShape'
    BY <2>10, <1>1, <1>3 DEF SearchIInv, SearchShape, ReadEvidence
  <2>13. Holds(E, Evidence)'
    BY <2>5, <2>10, <1>3, LanesCarry
  <2>14. \A m \in Memories : m \in x <=> /\ IsExact(m, search.query)
                                         /\ standing[m] \in Promoted \cup {"candidate"}
    BY <2>2, SearchConstants DEF Standing
  <2>15. FoundSoFar'
    BY <2>8, <2>10, <2>13, <2>14, <1>3 DEF FoundSoFar
  <2>16. ExactIsFound'
    BY <2>10 DEF ExactIsFound, Answered
  <2> QED
    BY <2>11, <2>12, <2>15, <2>16 DEF SearchIInv
<1> QED
  BY <1>4, <1>5

LEMMA ReadPromotedStep ==
    ASSUME SearchIInv, ReadPromoted
    PROVE  SearchIInv'
<1>1. search \in SearchRecords /\ search.hits \in Lanes /\ search.pc = "promoted"
  BY DEF SearchIInv, SearchShape, SearchRecords, ReadPromoted
<1>2. PICK e, p, t : e = search.hits.evidence /\ p = search.hits.promoted /\ t = search.hits.tentative
  OBVIOUS
<1>3. standing' = standing
  BY DEF ReadPromoted
<1>4. PICK H : H = ExactHits(Standing(Promoted)) \cup LexicalHits(Standing(Promoted))
  OBVIOUS
<1>5. /\ H \subseteq Hits /\ Belongs(H, Memories, Promoted) /\ Single(H)
      /\ Holds(H, Standing(Promoted))
  BY <1>1, <1>4, MemoryRead DEF SearchIInv
<1>6. PICK lanes : lanes = [search.hits EXCEPT !.promoted = H]
  OBVIOUS
<1>7. lanes \in Lanes /\ lanes.evidence = e /\ lanes.promoted = H /\ lanes.tentative = t
  BY <1>1, <1>2, <1>5, <1>6 DEF Lanes
<1>8. search' = [search EXCEPT !.pc = "tentative", !.hits.promoted = H]
  BY <1>4 DEF ReadPromoted
<1>9. search' = [search EXCEPT !.pc = "tentative", !.hits = lanes]
  BY <1>1, <1>6, <1>8 DEF SearchRecords
<1>10. /\ search' \in SearchRecords /\ search'.pc = "tentative" /\ search'.reply = search.reply
       /\ search'.hits = lanes /\ search'.moved = search.moved /\ search'.exact = search.exact
       /\ search'.query = search.query /\ search'.plan = search.plan
  BY <1>1, <1>7, <1>9 DEF SearchRecords, Phases
<1>11. LanesAgree'
  BY <1>2, <1>3, <1>5, <1>7, <1>10, LanesAfter DEF SearchIInv, LanesAgree
<1>12. SearchShape'
  BY <1>1, <1>3, <1>10 DEF SearchIInv, SearchShape, ReadPromoted
<1>13. FoundSoFar'
  <2>1. PICK P : P = Standing(Promoted) /\ P = Standing(Promoted)'
    BY <1>3 DEF Standing
  <2>2. Holds(e, Evidence)' /\ Holds(H, P)'
    BY <1>1, <1>2, <1>3, <1>5, <1>10, <2>1, LanesCarry DEF SearchIInv, FoundSoFar
  <2>3. \A m : Settled(m)' = Settled(m)
    BY <1>10 DEF Settled
  <2> QED
    BY <1>1, <1>3, <1>7, <1>10, <2>1, <2>2, <2>3 DEF SearchIInv, FoundSoFar
<1>14. ExactIsFound'
  BY <1>10 DEF ExactIsFound, Answered
<1> QED
  BY <1>11, <1>12, <1>13, <1>14 DEF SearchIInv

LEMMA ReadTentativeStep ==
    ASSUME SearchIInv, ReadTentative
    PROVE  SearchIInv'
<1>1. search \in SearchRecords /\ search.hits \in Lanes /\ search.pc = "tentative"
  BY DEF SearchIInv, SearchShape, SearchRecords, ReadTentative
<1>2. PICK e, p, t : e = search.hits.evidence /\ p = search.hits.promoted /\ t = search.hits.tentative
  OBVIOUS
<1>3. standing' = standing
  BY DEF ReadTentative
<1>4. PICK H : H = IF search.plan.tentative
                   THEN ExactHits(Standing({"candidate"})) \cup LexicalHits(Standing({"candidate"}))
                   ELSE {}
  OBVIOUS
<1>5. /\ H \subseteq Hits /\ Belongs(H, Memories, Candidates) /\ Single(H)
      /\ search.plan.tentative => Holds(H, Standing({"candidate"}))
  <2>1. CASE search.plan.tentative
    BY <2>1, <1>1, <1>4, MemoryRead DEF SearchIInv, Candidates
  <2>2. CASE ~search.plan.tentative
    BY <2>2, <1>4, FS_EmptySet DEF Belongs, Single
  <2> QED
    BY <2>1, <2>2
<1>6. PICK lanes : lanes = [search.hits EXCEPT !.tentative = H]
  OBVIOUS
<1>7. lanes \in Lanes /\ lanes.evidence = e /\ lanes.promoted = p /\ lanes.tentative = H
  BY <1>1, <1>2, <1>5, <1>6 DEF Lanes
<1>8. search' = [search EXCEPT !.pc = "hydrate", !.hits.tentative = H]
  BY <1>4 DEF ReadTentative
<1>9. search' = [search EXCEPT !.pc = "hydrate", !.hits = lanes]
  BY <1>1, <1>6, <1>8 DEF SearchRecords
<1>10. /\ search' \in SearchRecords /\ search'.pc = "hydrate" /\ search'.reply = search.reply
       /\ search'.hits = lanes /\ search'.moved = search.moved /\ search'.exact = search.exact
       /\ search'.query = search.query /\ search'.plan = search.plan
  BY <1>1, <1>7, <1>9 DEF SearchRecords, Phases
<1>11. LanesAgree'
  BY <1>2, <1>3, <1>5, <1>7, <1>10, LanesAfter DEF SearchIInv, LanesAgree
<1>12. SearchShape'
  BY <1>1, <1>3, <1>10 DEF SearchIInv, SearchShape, ReadTentative
<1>13. FoundSoFar'
  <2>1. PICK P, C : /\ P = Standing(Promoted) /\ P = Standing(Promoted)'
                    /\ C = Standing({"candidate"}) /\ C = Standing({"candidate"})'
    BY <1>3 DEF Standing
  <2>2. Holds(e, Evidence)' /\ Holds(p, P)' /\ (search.plan.tentative => Holds(H, C)')
    BY <1>1, <1>2, <1>3, <1>5, <1>10, <2>1, LanesCarry DEF SearchIInv, FoundSoFar
  <2>3. \A m : Settled(m)' = Settled(m)
    BY <1>10 DEF Settled
  <2> QED
    BY <1>1, <1>3, <1>7, <1>10, <2>1, <2>2, <2>3 DEF SearchIInv, FoundSoFar
<1>14. ExactIsFound'
  BY <1>10 DEF ExactIsFound, Answered
<1> QED
  BY <1>11, <1>12, <1>13, <1>14 DEF SearchIInv

\* Of a lane cut to the limit, an exact match that nothing changed is found,
\* or as many hits as the limit are.
LEMMA CutLane ==
    ASSUME NEW H, H \subseteq Hits, IsFiniteSet(H), NEW n \in Nat, NEW docs, Holds(H, docs),
           NEW d \in docs, IsExact(d, search.query), Settled(d)
    PROVE  (\E h \in First(H, n) : h.doc = d) \/ Cardinality(First(H, n)) >= n
<1>1. PICK h \in H : h.doc = d
  BY DEF Holds
<1> QED
  BY <1>1, FirstKeepsLimit

LEMMA HydrateStep ==
    ASSUME SearchIInv, Hydrate
    PROVE  SearchIInv'
<1>1. search \in SearchRecords /\ search.hits \in Lanes /\ search.pc = "hydrate" /\ SearchShape
  BY DEF SearchIInv, SearchShape, SearchRecords, Hydrate
<1>2. PICK e, p, t : e = search.hits.evidence /\ p = search.hits.promoted /\ t = search.hits.tentative
  OBVIOUS
<1>3. standing' = standing
  BY DEF Hydrate
<1>4. PICK known : known = DocsOf(e \cup p \cup t)
  OBVIOUS
<1>5. PICK missing : missing = IF search.fused
                               THEN {Hit(d, StateOf(d), "lexical", 0) : d \in search.candidates \ known}
                               ELSE {}
  OBVIOUS
<1>6. PICK me, mp, mt :
        /\ me = {h \in missing : h.doc \in Evidence}
        /\ mp = {h \in missing : h.state \in Promoted}
        /\ mt = {h \in missing : search.plan.tentative /\ h.state = "candidate"}
  OBVIOUS
<1>7. PICK E, P, T : E = Hydrated(e, me) /\ P = Hydrated(p, mp) /\ T = Hydrated(t, mt)
  OBVIOUS
<1>8. GiveHits(E, P, T)
  BY <1>2, <1>4, <1>5, <1>6, <1>7 DEF Hydrate, Hydrated
<1>9. ASSUME NEW h \in missing
      PROVE  /\ h.doc \in search.candidates \ known
             /\ h = Hit(h.doc, StateOf(h.doc), "lexical", 0)
             /\ h.doc \in Documents /\ h.state = StateOf(h.doc)
  <2>1. PICK d \in search.candidates \ known : h = Hit(d, StateOf(d), "lexical", 0)
    BY <1>5
  <2>2. d \in Documents
    BY <1>1 DEF SearchRecords
  <2> QED
    BY <2>1, <2>2 DEF Hit
<1>10. \A h \in me : h.doc \in Evidence /\ h.state \in {"evidence"}
  BY <1>1, <1>6, <1>9, StateType
<1>11. \A h \in mp : h.doc \in Memories /\ h.state \in Promoted
  BY <1>1, <1>6, <1>9, StateType DEF Documents, Promoted
<1>12. \A h \in mt : h.doc \in Memories /\ h.state \in Candidates
  BY <1>1, <1>6, <1>9, StateType DEF Documents, Candidates
<1>13. DocsOf(e) \subseteq known /\ DocsOf(p) \subseteq known /\ DocsOf(t) \subseteq known
  BY <1>4 DEF DocsOf
<1>14. /\ e \subseteq Hits /\ Belongs(e, Evidence, {"evidence"}) /\ Single(e) /\ Holds(e, Evidence)
       /\ p \subseteq Hits /\ Belongs(p, Memories, Promoted) /\ Single(p)
       /\ Holds(p, Standing(Promoted))
       /\ t \subseteq Hits /\ Belongs(t, Memories, Candidates) /\ Single(t)
       /\ search.plan.tentative => Holds(t, Standing({"candidate"}))
  BY <1>1, <1>2 DEF SearchIInv, LanesAgree, FoundSoFar, Lanes
<1>15. /\ E \subseteq Hits /\ Belongs(E, Evidence, {"evidence"}) /\ Single(E) /\ Holds(E, Evidence)
  BY <1>1, <1>6, <1>7, <1>9, <1>10, <1>13, <1>14, HydratedAgrees
<1>16. /\ P \subseteq Hits /\ Belongs(P, Memories, Promoted) /\ Single(P)
       /\ Holds(P, Standing(Promoted))
  BY <1>1, <1>6, <1>7, <1>9, <1>11, <1>13, <1>14, HydratedAgrees
<1>17. /\ T \subseteq Hits /\ Belongs(T, Memories, Candidates) /\ Single(T)
       /\ search.plan.tentative => Holds(T, Standing({"candidate"}))
  BY <1>1, <1>6, <1>7, <1>9, <1>12, <1>13, <1>14, HydratedAgrees
<1>18. PICK n \in Nat : n = Limit
  <2>1. \A s \in Surfaces : Searchers[s] \in 1..100
    BY SearchConstants
  <2>2. Searchers[search.by] \in 1..100
    BY <2>1, <1>1 DEF SearchRecords
  <2>3. PICK l \in 1..100 : l = Searchers[search.by]
    BY <2>2
  <2>4. Limit = l \/ Limit = l + 1
    BY <2>3 DEF Limit
  <2> QED
    BY <2>4
<1>19. PICK ce, cp, ct :
         /\ ce = (IF "evidence_hits" \in search.plan.classes THEN First(E, n) ELSE {})
         /\ cp = (IF "promoted_memory" \in search.plan.classes THEN First(P, n) ELSE {})
         /\ ct = First(T, n)
  OBVIOUS
<1>20. ce \subseteq E /\ cp \subseteq P /\ ct \subseteq T
  BY <1>19 DEF First
<1>21. /\ Belongs(ce, Evidence, {"evidence"}) /\ Single(ce)
       /\ Belongs(cp, Memories, Promoted) /\ Single(cp)
       /\ Belongs(ct, Memories, Candidates) /\ Single(ct)
  BY <1>15, <1>16, <1>17, <1>20, FewerHits
<1>22. PICK lanes : lanes = [evidence |-> ce, promoted |-> cp, tentative |-> ct]
  OBVIOUS
<1>23. /\ lanes \in Lanes
       /\ lanes.evidence = ce /\ lanes.promoted = cp /\ lanes.tentative = ct
  BY <1>15, <1>16, <1>17, <1>20, <1>22 DEF Lanes
<1>24. search' = [search EXCEPT !.pc = "done", !.reply = "answered", !.hits = lanes]
  BY <1>8, <1>18, <1>19, <1>22 DEF GiveHits
<1>25. /\ search' \in SearchRecords /\ search'.pc = "done" /\ search'.reply = "answered"
       /\ search'.hits = lanes /\ search'.moved = search.moved /\ search'.by = search.by
       /\ search'.query = search.query /\ search'.plan = search.plan
  BY <1>1, <1>23, <1>24 DEF SearchRecords, Phases, SearchReplies
<1>26. LanesAgree'
  BY <1>3, <1>21, <1>23, <1>25, LanesAfter
<1>27. SearchShape'
  BY <1>1, <1>3, <1>25 DEF SearchShape, Hydrate
<1>28. FoundSoFar'
  BY <1>25 DEF FoundSoFar
<1>29. ExactIsFound'
  <2>1. /\ n = Limit' /\ \A m : Settled(m)' = Settled(m)
    BY <1>18, <1>25 DEF Limit, Settled
  <2>2. ASSUME NEW d \in Documents, IsExact(d, search.query), Settled(d), d \in Evidence,
               "evidence_hits" \in search.plan.classes
        PROVE  (\E h \in ce : h.doc = d) \/ Cardinality(ce) >= n
    BY <2>2, <1>15, <1>19, CutLane DEF Belongs
  <2>3. ASSUME NEW d \in Documents, IsExact(d, search.query), Settled(d), d \notin Evidence,
               standing[d] \in Promoted, "promoted_memory" \in search.plan.classes
        PROVE  (\E h \in cp : h.doc = d) \/ Cardinality(cp) >= n
    <3>1. d \in Standing(Promoted)
      BY <2>3 DEF Standing, Documents
    <3> QED
      BY <2>3, <3>1, <1>16, <1>19, CutLane DEF Belongs
  <2>4. ASSUME NEW d \in Documents, IsExact(d, search.query), Settled(d), d \notin Evidence,
               standing[d] = "candidate", search.plan.tentative
        PROVE  (\E h \in ct : h.doc = d) \/ Cardinality(ct) >= n
    <3>1. d \in Standing({"candidate"})
      BY <2>4 DEF Standing, Documents
    <3> QED
      BY <2>4, <3>1, <1>17, <1>19, CutLane DEF Belongs
  <2>5. /\ lanes["evidence"] = ce /\ lanes["promoted"] = cp /\ lanes["tentative"] = ct
    BY <1>23
  <2> QED
    BY <2>1, <2>2, <2>3, <2>4, <2>5, <1>3, <1>25 DEF ExactIsFound
<1> QED
  BY <1>26, <1>27, <1>28, <1>29 DEF SearchIInv

LEMMA RestateStep ==
    ASSUME SearchIInv, NEW m \in Memories, Restate(m)
    PROVE  SearchIInv'
<1>1. search \in SearchRecords /\ search.pc # "done"
  BY DEF SearchIInv, SearchShape, Restate, Searching
<1>2. PICK state \in MemoryStates : standing' = [standing EXCEPT ![m] = state]
  BY DEF Restate
<1>3. /\ search' \in SearchRecords /\ search'.pc = search.pc /\ search'.reply = search.reply
      /\ search'.hits = search.hits /\ search'.moved = search.moved \cup {m}
      /\ search'.exact = search.exact /\ search'.query = search.query
      /\ search'.plan = search.plan
  BY <1>1 DEF Restate, SearchRecords
<1>4. \A x : Settled(x)' <=> Settled(x) /\ x # m
  BY <1>3 DEF Settled
<1>5. \A x \in Memories : x # m => standing'[x] = standing[x]
  BY <1>2 DEF SearchIInv, SearchShape
<1>6. SearchShape'
  BY <1>1, <1>2, <1>3 DEF SearchIInv, SearchShape, Restate
<1>7. PICK e, p, t : e = search.hits.evidence /\ p = search.hits.promoted /\ t = search.hits.tentative
  OBVIOUS
<1>8. PICK C : C = Candidates /\ C = Candidates'
  BY <1>3 DEF Candidates
<1>9. \A H, D, S : Belongs(H, D, S) => Belongs(H, D, S)'
  BY <1>4, <1>5 DEF Belongs
<1>10. \A H : Single(H) => Single(H)'
  BY <1>4 DEF Single
<1>11. LanesAgree'
  BY <1>3, <1>7, <1>8, <1>9, <1>10 DEF SearchIInv, LanesAgree
<1>12. \A H : Holds(H, Evidence) => Holds(H, Evidence)'
  BY <1>3, <1>4 DEF Holds
<1>13. \A S : \A x \in Standing(S)' : x # m => x \in Standing(S)
  BY <1>5 DEF Standing
<1>14. \A H, S : Holds(H, Standing(S)) => Holds(H, Standing(S))'
  BY <1>3, <1>4, <1>13 DEF Holds
<1>15. FoundSoFar'
  BY <1>3, <1>4, <1>5, <1>7, <1>12, <1>14 DEF SearchIInv, FoundSoFar
<1>16. ExactIsFound'
  BY <1>1, <1>3 DEF ExactIsFound, Answered
<1> QED
  BY <1>6, <1>11, <1>15, <1>16 DEF SearchIInv

LEMMA SearchStep ==
    ASSUME SearchIInv, [SearchNext]_searchVars
    PROVE  SearchIInv'
<1>1. CASE Probe
  BY <1>1, SearchKept DEF Probe, SearchIInv, SearchShape
<1>2. CASE WriteActiveManifest
  BY <1>2, SearchKept DEF WriteActiveManifest, SearchIInv, SearchShape
<1>3. CASE VerifyInstall
  BY <1>3, SearchKept DEF VerifyInstall, SearchIInv, SearchShape
<1>4. CASE Damage
  BY <1>4, SearchKept DEF Damage, SearchIInv, SearchShape
<1>5. CASE BeginSearch
  BY <1>5, BeginSearchStep
<1>6. CASE Embed
  BY <1>6, EmbedStep
<1>7. CASE ReadEvidence
  BY <1>7, ReadEvidenceStep
<1>8. CASE ReadPromoted
  BY <1>8, ReadPromotedStep
<1>9. CASE ReadTentative
  BY <1>9, ReadTentativeStep
<1>10. CASE Hydrate
  BY <1>10, HydrateStep
<1>11. CASE \E m \in Memories : Restate(m)
  BY <1>11, RestateStep
<1>12. CASE UNCHANGED searchVars
  BY <1>12, SearchKept DEF searchVars, SearchIInv, SearchShape
<1> QED
  BY <1>1, <1>2, <1>3, <1>4, <1>5, <1>6, <1>7, <1>8, <1>9, <1>10, <1>11, <1>12 DEF SearchNext

------------------------------------------------------------------------------
(* What a search lists. *)

\* The parts of the invariant: the shape of what is stored, what every lane
\* holds, what was found so far, and the exact matches of the reply.
THEOREM SearchIInvHolds == SearchSpec => []SearchIInv
<1>1. SearchInit => SearchIInv
  BY InitEstablishes
<1>2. SearchIInv /\ [SearchNext]_searchVars => SearchIInv'
  BY SearchStep
<1> QED
  BY <1>1, <1>2, PTL DEF SearchSpec

LEMMA ListsOnce ==
    ASSUME SearchIInv
    PROVE  ListedOnce
<1>1. Evidence \cap Memories = {}
  BY SearchConstants
<1>2. DOMAIN NoHits = {"evidence", "promoted", "tentative"}
  BY DEF NoHits
<1>3. PICK e, p, t : e = search.hits["evidence"] /\ p = search.hits["promoted"]
                     /\ t = search.hits["tentative"]
  OBVIOUS
<1>4. /\ Belongs(e, Evidence, {"evidence"}) /\ Single(e)
      /\ Belongs(p, Memories, Promoted) /\ Single(p)
      /\ Belongs(t, Memories, Candidates) /\ Single(t)
  BY <1>3 DEF SearchIInv, LanesAgree
<1>5. \A h \in e : h.doc \in Evidence
  BY <1>4 DEF Belongs
<1>6. \A h \in p : h.doc \in Memories /\ (Settled(h.doc) => standing[h.doc] \in Promoted)
  BY <1>4 DEF Belongs
<1>7. \A h \in t : h.doc \in Memories /\ (Settled(h.doc) => standing[h.doc] = "candidate")
  BY <1>4 DEF Belongs, Candidates
<1>8. "candidate" \notin Promoted
  BY DEF Promoted
<1>9. ASSUME NEW l \in DOMAIN NoHits, NEW m \in DOMAIN NoHits,
             NEW g \in search.hits[l], NEW h \in search.hits[m],
             g.doc = h.doc, Settled(g.doc)
      PROVE  l = m /\ g = h
  <2>1. l = m
    BY <1>1, <1>2, <1>3, <1>5, <1>6, <1>7, <1>8, <1>9
  <2>2. Single(search.hits[l])
    BY <1>2, <1>3, <1>4
  <2> QED
    BY <2>1, <2>2, <1>9 DEF Single
<1> QED
  BY <1>9 DEF ListedOnce

\* What a search lists: at most one hit for a document that nothing changed
\* while prior_review_lookup read, and one for each exact identifier of a lane
\* that is shown, unless the lane is full.
THEOREM ListsWhatItShould == SearchSpec => []SearchInv
<1>1. SearchIInv => SearchInv
  <2> SUFFICES ASSUME SearchIInv PROVE SearchInv
    OBVIOUS
  <2>1. \A lane \in DOMAIN NoHits : \A h \in search.hits[lane] :
          h.doc \in (IF lane = "evidence" THEN Evidence ELSE Memories)
    BY DEF SearchIInv, LanesAgree, Belongs, NoHits
  <2>2. SearchTypeOK
    BY <2>1 DEF SearchIInv, SearchShape, SearchRecords, Phases, SearchTypeOK
  <2> QED
    BY <2>2, ListsOnce DEF SearchInv, SearchIInv
<1> QED
  BY <1>1, SearchIInvHolds, PTL

\* A candidate is only ever shown to a query that asks for candidates, for
\* inspection, and whatever is shown for citing was promoted when it was read.
THEOREM TentativeOnlyInAudit == SearchSpec => []TentativeStaysInAudit
<1>1. SearchIInv => TentativeStaysInAudit
  <2> SUFFICES ASSUME SearchIInv PROVE TentativeStaysInAudit
    OBVIOUS
  <2>1. PICK p, t : p = search.hits["promoted"] /\ t = search.hits["tentative"]
    OBVIOUS
  <2>2. \A h \in p : h.state \in Promoted
    BY <2>1 DEF SearchIInv, LanesAgree, Belongs
  <2>3. \A h \in t : h.state = "candidate" /\ search.plan.tentative
    BY <2>1 DEF SearchIInv, LanesAgree, Belongs, Candidates
  <2> QED
    BY <2>1, <2>2, <2>3 DEF TentativeStaysInAudit, Posture, Promoted
<1> QED
  BY <1>1, SearchIInvHolds, PTL

===============================================================================
