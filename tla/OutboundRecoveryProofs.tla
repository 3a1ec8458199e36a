------------------------ MODULE OutboundRecoveryProofs ------------------------
(***************************************************************************)
(* Proofs about OutboundRecovery for every number of findings, runs,       *)
(* batches, revisions and drafting processes: what the status, finding and *)
(* queue views say agrees with what the commands do about it.              *)
(***************************************************************************)
EXTENDS OutboundRecovery, FiniteSetTheorems, TLAPS

-----------------------------------------------------------------------------
(* The inductive invariant                                                 *)

\* The processes that have selected but not stored a batch.
Selecting == {c \in Clerks : drafting[c].pc = "batch"}

\* Room was kept for every batch that is still to be stored.
RoomIsKept == Len(batches) + Cardinality(Selecting) <= MaxBatches

\* Nothing is newer than the latest run, and a finding drafted in a run was
\* reported in that run or again in a later one.
RunsInOrder ==
    /\ \A f \in Findings : seen[f] <= latest
    /\ \A b \in Batches : batches[b].run <= latest
    /\ \A i \in items : batches[i.batch].run <= seen[i.finding]

\* A drafting process holds findings of its run; once it has stored its
\* batch, that batch exists and is of its run.
DraftOf(call) ==
    call.pc # "idle" =>
        /\ call.run \in 1..latest
        /\ \A f \in call.todo : call.run <= seen[f]
        /\ call.pc = "items" => /\ call.batch \in Batches
                                /\ batches[call.batch].run = call.run

DraftsFollowRuns == \A c \in Clerks : DraftOf(drafting[c])

\* One at a time: at most one process drafts, what it holds is not drafted
\* yet, and nobody has touched its batch.
Untouched(b) ==
    /\ batches[b].state = "Drafted" /\ batches[b].token = "none"
    /\ batches[b].action = "none"   /\ batches[b].edits = 0

OneDraft ==
    /\ \A c, d \in Clerks :
          (drafting[c].pc # "idle" /\ drafting[d].pc # "idle") => c = d
    /\ \A c \in Clerks : drafting[c].pc # "idle" =>
          /\ \A i \in items : i.finding \notin drafting[c].todo
          /\ drafting[c].pc = "items" => Untouched(drafting[c].batch)

DraftedOnce == \A i, j \in items : i.finding = j.finding => i.batch = j.batch

\* An approved batch has its approval and approved items only.
ApprovedIsWhole ==
    \A b \in Batches : batches[b].state = "Approved" =>
        /\ batches[b].token = "live"
        /\ \A i \in items : i.batch = b => i.state = "Approved"

\* What counts as posted as a whole was confirmed draft by draft.
SucceededIsConfirmed ==
    \A i \in items : batches[i.batch].action = "Succeeded"
        => <<i.finding, i.batch>> \in github

OneAtATime == serial => /\ OneDraft
                        /\ DraftedOnce
                        /\ ApprovedIsWhole
                        /\ SucceededIsConfirmed

RecoveryIInv ==
    /\ RecoveryTypeOK
    /\ RoomIsKept
    /\ RunsInOrder
    /\ DraftsFollowRuns
    /\ OneAtATime
    /\ ApprovalOpensPost
    /\ ApprovalHintWorks

-----------------------------------------------------------------------------
(* Consequences of the types                                               *)

LEMMA BatchFacts ==
    ASSUME RecoveryTypeOK
    PROVE  /\ Len(batches) \in Nat
           /\ Batches = 1..Len(batches)
           /\ \A b \in Batches : batches[b] \in Batch
           /\ latest \in Nat /\ latest >= 1 /\ MaxRuns \in Nat
           /\ \A i \in items : i \in Item /\ i.batch \in Batches
           /\ \A c \in Clerks : drafting[c] \in Call
           /\ \A f \in Findings : seen[f] \in Nat
           /\ \A b \in Batches : batches[b].run \in Nat
  <1>1. Len(batches) \in Nat /\ Batches = 1..Len(batches)
    BY DEF RecoveryTypeOK, Batches
  <1>2. \A b \in Batches : batches[b] \in Batch
    BY DEF RecoveryTypeOK, Batches
  <1>3. latest \in Nat /\ latest >= 1 /\ MaxRuns \in Nat
    BY RecoveryAssumption DEF RecoveryTypeOK
  <1>4. \A i \in items : i \in Item /\ i.batch \in Batches
    BY DEF RecoveryTypeOK
  <1>5. \A c \in Clerks : drafting[c] \in Call
    BY DEF RecoveryTypeOK
  <1>6. \A f \in Findings : seen[f] \in Nat
    BY <1>3 DEF RecoveryTypeOK
  <1>7. \A b \in Batches : batches[b].run \in Nat
    BY <1>2 DEF Batch
  <1> QED BY <1>1, <1>2, <1>3, <1>4, <1>5, <1>6, <1>7

\* Where a batch stands once the one in place p has been written again.
MovedUp(x, p) == IF x > p THEN x - 1 ELSE x

LEMMA MovedUpFacts ==
    ASSUME NEW n \in Nat, NEW p \in 1..n, NEW x \in 1..n, NEW y \in 1..n,
           x # p, y # p
    PROVE  /\ MovedUp(x, p) # n
           /\ MovedUp(x, p) = MovedUp(y, p) => x = y
  BY DEF MovedUp

\* The order of last writes stays an order when a batch is written again.
LEMMA RewrittenOrder ==
    ASSUME RecoveryTypeOK, NEW b \in Batches
    PROVE  /\ Rewritten(b) \in [Batches -> Batches]
           /\ \A c, d \in Batches :
                 Rewritten(b)[c] = Rewritten(b)[d] => c = d
  <1>1. Len(batches) \in Nat /\ Batches = 1..Len(batches)
    BY BatchFacts
  <1>2. /\ recent \in [Batches -> Batches]
        /\ \A c, d \in Batches : recent[c] = recent[d] => c = d
    BY DEF RecoveryTypeOK
  <1>3. \A c \in Batches : recent[c] \in 1..Len(batches)
    BY <1>1, <1>2
  <1>4. ASSUME NEW c \in Batches
        PROVE  Rewritten(b)[c] \in 1..Len(batches)
    BY <1>1, <1>3, <1>4 DEF Rewritten
  <1>5. ASSUME NEW c \in Batches, NEW d \in Batches,
               Rewritten(b)[c] = Rewritten(b)[d]
        PROVE  c = d
    <2>1. recent[b] \in 1..Len(batches) /\ recent[c] \in 1..Len(batches)
                                       /\ recent[d] \in 1..Len(batches)
      BY <1>3
    <2>2. /\ recent[c] = recent[d] => c = d
          /\ recent[c] = recent[b] => c = b
          /\ recent[d] = recent[b] => d = b
      BY <1>2
    <2>3. /\ c = b => Rewritten(b)[c] = Len(batches)
          /\ c # b => Rewritten(b)[c] = MovedUp(recent[c], recent[b])
          /\ d = b => Rewritten(b)[d] = Len(batches)
          /\ d # b => Rewritten(b)[d] = MovedUp(recent[d], recent[b])
      BY DEF Rewritten, MovedUp
    <2>4. CASE c = b
      BY <1>1, <1>5, <2>1, <2>2, <2>3, <2>4, MovedUpFacts
    <2>5. CASE d = b
      BY <1>1, <1>5, <2>1, <2>2, <2>3, <2>5, MovedUpFacts
    <2>6. CASE c # b /\ d # b
      BY <1>1, <1>5, <2>1, <2>2, <2>3, <2>6, MovedUpFacts
    <2> QED BY <2>4, <2>5, <2>6
  <1>6. Rewritten(b) \in [Batches -> Batches]
    BY <1>1, <1>4 DEF Rewritten
  <1> QED BY <1>5, <1>6

\* A step that leaves the batches and drafts alone, loses no answer that
\* mattered and moves runs only forward.
LEMMA NoReplyIsTrue ==
    ASSUME reply' = NoReply
    PROVE  ApprovalOpensPost' /\ ApprovalHintWorks'
  BY DEF NoReply, ApprovalOpensPost, ApprovalHintWorks

LEMMA NoReplyType ==
    NoReply \in [command : {"none", "approve", "post"},
                 batch : Batches \cup {NoBatch}, reason : Reasons]
  BY DEF NoReply, Reasons

LEMMA InitEstablishes == RecoveryInit => RecoveryIInv
  <1> SUFFICES ASSUME RecoveryInit PROVE RecoveryIInv
    OBVIOUS
  <1>1. Batches = {} /\ Len(batches) = 0 /\ batches \in Seq(Batch)
    BY DEF RecoveryInit, Batches
  <1>2. RecoveryTypeOK
    <2>1. recent \in [Batches -> Batches]
      BY <1>1 DEF RecoveryInit
    <2>2. latest \in 1..MaxRuns /\ Len(batches) <= MaxBatches
      BY <1>1, RecoveryAssumption DEF RecoveryInit
    <2>3. drafting \in [Clerks -> Call]
      BY RecoveryAssumption DEF RecoveryInit, NoCall, Call
    <2>4. reply \in [command : {"none", "approve", "post"},
                     batch : Batches \cup {NoBatch}, reason : Reasons]
      BY NoReplyType DEF RecoveryInit
    <2>5. seen \in [Findings -> 0..MaxRuns]
      BY RecoveryAssumption DEF RecoveryInit
    <2>6. /\ items \subseteq Item /\ items = {}
          /\ triaged \subseteq Findings /\ serial \in BOOLEAN
          /\ github \subseteq Findings \X Batches
      BY DEF RecoveryInit
    <2> QED BY <1>1, <2>1, <2>2, <2>3, <2>4, <2>5, <2>6 DEF RecoveryTypeOK
  <1>3. RoomIsKept
    <2>1. Selecting = {}
      BY DEF RecoveryInit, Selecting, NoCall
    <2>2. Cardinality(Selecting) = 0
      BY <2>1, FS_EmptySet
    <2> QED BY <1>1, <2>2, RecoveryAssumption DEF RoomIsKept
  <1>4. RunsInOrder /\ DraftsFollowRuns /\ OneAtATime
    BY <1>1 DEF RecoveryInit, RunsInOrder, DraftsFollowRuns, DraftOf, NoCall,
                OneAtATime, OneDraft, DraftedOnce, ApprovedIsWhole,
                SucceededIsConfirmed
  <1>5. ApprovalOpensPost /\ ApprovalHintWorks
    BY DEF RecoveryInit, NoReply, ApprovalOpensPost, ApprovalHintWorks
  <1> QED BY <1>2, <1>3, <1>4, <1>5 DEF RecoveryIInv
-----------------------------------------------------------------------------
(* Steps that touch neither batches nor drafts                             *)

Replies == [command : {"none", "approve", "post"},
            batch : Batches \cup {NoBatch}, reason : Reasons]

\* Runs, reports and triage, and the commands that are refused.
LEMMA QuietStep ==
    ASSUME RecoveryIInv,
           UNCHANGED <<batches, items, recent, drafting, serial, github>>,
           latest' \in 1..MaxRuns, latest <= latest',
           seen' \in [Findings -> 0..MaxRuns],
           \A f \in Findings : seen[f] <= seen'[f] /\ seen'[f] <= latest',
           triaged' \subseteq Findings,
           reply' \in Replies,
           ApprovalOpensPost', ApprovalHintWorks'
    PROVE  RecoveryIInv'
  <1>1. RecoveryTypeOK
    BY DEF RecoveryIInv
  <1>2. RecoveryTypeOK'
    BY <1>1 DEF RecoveryTypeOK, Batches, Replies
  <1>3. RoomIsKept'
    BY DEF RecoveryIInv, RoomIsKept, Selecting
  <1>4. RunsInOrder'
    <2>1. \A b \in Batches : batches'[b].run <= latest'
      BY <1>1, BatchFacts DEF RecoveryIInv, RunsInOrder
    <2>2. \A i \in items : batches'[i.batch].run <= seen'[i.finding]
      <3>1. SUFFICES ASSUME NEW i \in items
                     PROVE  batches'[i.batch].run <= seen'[i.finding]
        OBVIOUS
      <3>2. i.finding \in Findings /\ i.batch \in Batches
        BY <1>1, BatchFacts DEF Item
      <3>3. /\ batches[i.batch].run \in Nat /\ seen[i.finding] \in Nat
            /\ seen'[i.finding] \in Nat
        BY <1>1, <3>2, BatchFacts, RecoveryAssumption
      <3> QED BY <3>2, <3>3 DEF RecoveryIInv, RunsInOrder
    <2> QED BY <2>1, <2>2 DEF RunsInOrder, Batches
  <1>5. DraftsFollowRuns'
    <2>1. SUFFICES ASSUME NEW c \in Clerks PROVE DraftOf(drafting[c])'
      BY DEF DraftsFollowRuns
    <2>2. DraftOf(drafting[c]) /\ drafting[c] \in Call
      BY <1>1, BatchFacts DEF RecoveryIInv, DraftsFollowRuns
    <2>3. \A f \in drafting[c].todo : f \in Findings
      BY <2>2 DEF Call
    <2>4. drafting[c].run \in Nat /\ latest \in Nat /\ latest' \in Nat
      BY <1>1, <2>2, BatchFacts, RecoveryAssumption DEF Call
    <2>5. \A f \in Findings : seen[f] \in Nat /\ seen'[f] \in Nat
      BY <1>1, BatchFacts, RecoveryAssumption
    <2> QED BY <2>2, <2>3, <2>4, <2>5 DEF DraftOf, Batches
  <1>6. OneAtATime'
    BY DEF RecoveryIInv, OneAtATime, OneDraft, Untouched, DraftedOnce,
           ApprovedIsWhole, SucceededIsConfirmed, Batches
  <1> QED BY <1>2, <1>3, <1>4, <1>5, <1>6 DEF RecoveryIInv

LEMMA StartRunStep == RecoveryIInv /\ StartRun => RecoveryIInv'
  <1> SUFFICES ASSUME RecoveryIInv, StartRun PROVE RecoveryIInv'
    OBVIOUS
  <1>1. RecoveryTypeOK
    BY DEF RecoveryIInv
  <1>2. latest' \in 1..MaxRuns /\ latest <= latest'
    BY <1>1, BatchFacts DEF StartRun
  <1>3. \A f \in Findings : seen[f] <= latest /\ seen[f] \in Nat
    BY <1>1, BatchFacts DEF RecoveryIInv, RunsInOrder
  <1>4. \A f \in Findings : seen[f] <= seen'[f] /\ seen'[f] <= latest'
    BY <1>1, <1>3, BatchFacts DEF StartRun
  <1>5. reply' \in Replies /\ ApprovalOpensPost' /\ ApprovalHintWorks'
    BY NoReplyIsTrue, NoReplyType DEF StartRun, Replies
  <1> QED BY <1>1, <1>2, <1>4, <1>5, QuietStep DEF StartRun, RecoveryTypeOK

LEMMA ReportStep ==
    ASSUME RecoveryIInv, NEW f \in Findings, Report(f)
    PROVE  RecoveryIInv'
  <1>1. RecoveryTypeOK
    BY DEF RecoveryIInv
  <1>2. seen' \in [Findings -> 0..MaxRuns]
    BY <1>1 DEF Report, RecoveryTypeOK
  <1>3. \A g \in Findings : seen[g] <= seen'[g] /\ seen'[g] <= latest'
    BY <1>1, BatchFacts DEF Report, RecoveryTypeOK, RecoveryIInv, RunsInOrder
  <1>4. reply' \in Replies /\ ApprovalOpensPost' /\ ApprovalHintWorks'
    BY NoReplyIsTrue, NoReplyType DEF Report, Replies
  <1>5. latest <= latest
    BY <1>1, BatchFacts
  <1> QED BY <1>1, <1>2, <1>3, <1>4, <1>5, QuietStep
          DEF Report, RecoveryTypeOK

\* Triage and the refused commands move no run.
LEMMA OtherQuietStep ==
    ASSUME RecoveryIInv,
           UNCHANGED <<latest, seen, batches, items, recent, drafting, serial,
                       github>>,
           triaged' \subseteq Findings,
           reply' \in Replies,
           ApprovalOpensPost', ApprovalHintWorks'
    PROVE  RecoveryIInv'
  <1>1. RecoveryTypeOK
    BY DEF RecoveryIInv
  <1>2. latest <= latest
    BY <1>1, BatchFacts
  <1>3. \A g \in Findings : seen[g] <= seen[g] /\ seen[g] <= latest
    BY <1>1, BatchFacts DEF RecoveryIInv, RunsInOrder
  <1> QED BY <1>1, <1>2, <1>3, QuietStep DEF RecoveryTypeOK

LEMMA TriageStep ==
    ASSUME RecoveryIInv, NEW f \in Findings, Triage(f)
    PROVE  RecoveryIInv'
  <1>1. reply' \in Replies /\ ApprovalOpensPost' /\ ApprovalHintWorks'
    BY NoReplyIsTrue, NoReplyType DEF Triage, Replies
  <1>2. triaged' \subseteq Findings
    BY DEF Triage, RecoveryIInv, RecoveryTypeOK
  <1> QED BY <1>1, <1>2, OtherQuietStep DEF Triage

\* Approve and post agree on the binding; approve asks for nothing else.
LEMMA ReasonsAre ==
    ASSUME NEW b
    PROVE  /\ BindingReason(b) \in {"ok", "run_mismatch",
                 "existing_posted_action", "missing_items"}
           /\ ApproveReason(b) = BindingReason(b)
           /\ PostReason(b) \in Reasons /\ ApproveReason(b) \in Reasons
           /\ PostReason(b) = "approval_required" => ApproveReason(b) = "ok"
           /\ PostReason(b) = "ok" =>
                /\ BindingReason(b) = "ok"
                /\ \A i \in ItemsOf(b) : i.state # "Drafted"
                /\ batches[b].state = "Approved"
                /\ batches[b].token # "none" /\ batches[b].token # "revoked"
           /\ BindingReason(b) = "ok" =>
                /\ batches[b].run = latest
                /\ batches[b].action = "none"
                /\ ItemsOf(b) # {}
  BY DEF BindingReason, ApproveReason, PostReason, Reasons

LEMMA RefusedStep ==
    ASSUME RecoveryIInv, NEW b \in Batches, ApproveRefused(b) \/ PostRefused(b)
    PROVE  RecoveryIInv'
  <1>1. UNCHANGED <<latest, seen, triaged, batches, items, recent, drafting,
                    serial, github>>
    BY DEF ApproveRefused, PostRefused
  <1>2. /\ BindingReason(b)' = BindingReason(b)
        /\ ApproveReason(b)' = ApproveReason(b)
        /\ PostReason(b)' = PostReason(b)
    BY <1>1 DEF BindingReason, ApproveReason, PostReason, ItemsOf
  <1>3. CASE ApproveRefused(b)
    <2>1. reply' = [command |-> "approve", batch |-> b,
                    reason |-> ApproveReason(b)] /\ ApproveReason(b) # "ok"
      BY <1>3 DEF ApproveRefused, ReplyWith
    <2>2. reply' \in Replies
      BY <2>1, ReasonsAre DEF Replies
    <2>3. ApprovalOpensPost' /\ ApprovalHintWorks'
      BY <2>1, ReasonsAre DEF ApprovalOpensPost, ApprovalHintWorks
    <2> QED BY <1>1, <2>2, <2>3, OtherQuietStep DEF RecoveryIInv, RecoveryTypeOK
  <1>4. CASE PostRefused(b)
    <2>1. reply' = [command |-> "post", batch |-> b,
                    reason |-> PostReason(b)]
      BY <1>4 DEF PostRefused, ReplyWith
    <2>2. reply' \in Replies
      BY <2>1, ReasonsAre DEF Replies
    <2>3. ApprovalOpensPost' /\ ApprovalHintWorks'
      BY <1>2, <2>1, ReasonsAre DEF ApprovalOpensPost, ApprovalHintWorks
    <2> QED BY <1>1, <2>2, <2>3, OtherQuietStep DEF RecoveryIInv, RecoveryTypeOK
  <1> QED BY <1>3, <1>4
-----------------------------------------------------------------------------
(* `rr draft`                                                              *)

LEMMA SelectingIsFinite ==
    IsFiniteSet(Selecting) /\ Cardinality(Selecting) \in Nat
  <1>1. Selecting \subseteq Clerks
    BY DEF Selecting
  <1> QED BY <1>1, FS_Subset, FS_CardinalityType, RecoveryAssumption

\* Drafting steps that store no row.
LEMMA DraftingStep ==
    ASSUME RecoveryIInv, NEW c \in Clerks, NEW call \in Call,
           UNCHANGED <<latest, seen, triaged, batches, items, recent, serial,
                       github>>,
           drafting' = [drafting EXCEPT ![c] = call],
           reply' = NoReply,
           RoomIsKept',
           DraftOf(call),
           call.pc = "idle" \/
             (serial => /\ \A d \in Clerks : drafting[d].pc = "idle"
                        /\ \A i \in items : i.finding \notin call.todo
                        /\ call.pc = "batch")
    PROVE  RecoveryIInv'
  <1>1. RecoveryTypeOK /\ drafting \in [Clerks -> Call]
    BY DEF RecoveryIInv, RecoveryTypeOK
  <1>2. /\ drafting'[c] = call
        /\ \A d \in Clerks \ {c} : drafting'[d] = drafting[d]
        /\ drafting' \in [Clerks -> Call]
    BY <1>1
  <1>3. RecoveryTypeOK'
    BY <1>1, <1>2, NoReplyType DEF RecoveryTypeOK, Batches
  <1>4. RunsInOrder'
    BY DEF RecoveryIInv, RunsInOrder, Batches
  <1>5. DraftsFollowRuns'
    <2>1. SUFFICES ASSUME NEW d \in Clerks PROVE DraftOf(drafting[d])'
      BY DEF DraftsFollowRuns
    <2>2. DraftOf(drafting[d])
      BY DEF RecoveryIInv, DraftsFollowRuns
    <2>3. CASE d = c
      BY <1>2, <2>3 DEF DraftOf, Batches
    <2>4. CASE d # c
      BY <1>2, <2>2, <2>4 DEF DraftOf, Batches
    <2> QED BY <2>3, <2>4
  <1>6. OneAtATime'
    <2>1. SUFFICES ASSUME serial
                   PROVE  /\ OneDraft' /\ DraftedOnce'
                          /\ ApprovedIsWhole' /\ SucceededIsConfirmed'
      BY DEF OneAtATime
    <2>2. OneDraft
      BY <2>1 DEF RecoveryIInv, OneAtATime
    <2>3. DraftedOnce' /\ ApprovedIsWhole' /\ SucceededIsConfirmed'
      BY <2>1 DEF RecoveryIInv, OneAtATime, DraftedOnce, ApprovedIsWhole,
                  SucceededIsConfirmed, Batches
    <2>4. OneDraft'
      <3>1. CASE call.pc = "idle"
        BY <1>2, <2>2, <3>1 DEF OneDraft, Untouched
      <3>2. CASE call.pc # "idle"
        BY <1>2, <2>1, <3>2 DEF OneDraft, Untouched
      <3> QED BY <3>1, <3>2
    <2> QED BY <2>3, <2>4
  <1>7. ApprovalOpensPost' /\ ApprovalHintWorks'
    BY NoReplyIsTrue
  <1> QED BY <1>3, <1>4, <1>5, <1>6, <1>7 DEF RecoveryIInv

LEMMA SelectFindingsStep ==
    ASSUME RecoveryIInv, NEW c \in Clerks, SelectFindings(c)
    PROVE  RecoveryIInv'
  <1>1. RecoveryTypeOK /\ drafting \in [Clerks -> Call]
    BY DEF RecoveryIInv, RecoveryTypeOK
  <1>2. PICK chosen \in (SUBSET ListedNow) \ {{}} :
          /\ \A f \in chosen : Draftable(f)
          /\ drafting' = [drafting EXCEPT ![c] =
               [pc |-> "batch", run |-> latest, todo |-> chosen,
                batch |-> NoBatch]]
    BY DEF SelectFindings
  <1>3. PICK call : call = [pc |-> "batch", run |-> latest, todo |-> chosen,
                            batch |-> NoBatch]
    OBVIOUS
  <1>4. /\ chosen \subseteq Findings
        /\ \A f \in chosen : seen[f] = latest /\ BatchesWith(f) = {}
    <2>1. chosen \subseteq Findings /\ \A f \in chosen : seen[f] = latest
      BY <1>2 DEF ListedNow
    <2>2. ASSUME NEW f \in chosen, BatchesWith(f) # {} PROVE FALSE
      BY <1>2, <2>2 DEF Draftable, Projection, OutcomeShown, ApprovalShown
    <2> QED BY <2>1, <2>2
  <1>5. call \in Call
    BY <1>1, <1>3, <1>4, BatchFacts DEF Call, RecoveryTypeOK
  <1>6. DraftOf(call)
    BY <1>1, <1>3, <1>4, BatchFacts DEF DraftOf
  <1>7. RoomIsKept'
    <2>1. c \notin Selecting
      BY DEF SelectFindings, Selecting
    <2>2. Selecting' = Selecting \cup {c}
      BY <1>1, <1>2, <1>3 DEF Selecting
    <2>3. Cardinality(Selecting') = Cardinality(Selecting) + 1
      BY <2>1, <2>2, SelectingIsFinite, FS_AddElement
    <2>4. Len(batches) + Cardinality(Selecting) < MaxBatches
      BY DEF SelectFindings, Selecting
    <2>5. Len(batches)' = Len(batches) /\ Len(batches) \in Nat
      BY <1>1, BatchFacts DEF SelectFindings
    <2> QED BY <2>3, <2>4, <2>5, SelectingIsFinite, RecoveryAssumption
            DEF RoomIsKept
  <1>8. serial => /\ \A d \in Clerks : drafting[d].pc = "idle"
                  /\ \A i \in items : i.finding \notin call.todo
                  /\ call.pc = "batch"
    <2>1. \A i \in items : i.finding \notin chosen
      BY <1>4 DEF BatchesWith
    <2> QED BY <1>3, <2>1 DEF SelectFindings, MayStart
  <1> QED BY <1>2, <1>3, <1>5, <1>6, <1>7, <1>8, DraftingStep
          DEF SelectFindings

LEMMA DraftKilledStep ==
    ASSUME RecoveryIInv, NEW c \in Clerks, DraftKilled(c)
    PROVE  RecoveryIInv'
  <1>1. RecoveryTypeOK /\ drafting \in [Clerks -> Call]
    BY DEF RecoveryIInv, RecoveryTypeOK
  <1>2. NoCall \in Call /\ DraftOf(NoCall) /\ NoCall.pc = "idle"
    BY RecoveryAssumption DEF NoCall, Call, DraftOf
  <1>3. RoomIsKept'
    <2>1. Selecting' \subseteq Selecting
      BY <1>1, <1>2 DEF DraftKilled, Selecting
    <2>2. Cardinality(Selecting') <= Cardinality(Selecting)
      BY <2>1, SelectingIsFinite, FS_Subset
    <2>3. Cardinality(Selecting') \in Nat
      BY <2>1, SelectingIsFinite, FS_Subset, FS_CardinalityType
    <2>4. Len(batches)' = Len(batches) /\ Len(batches) \in Nat
      BY <1>1, BatchFacts DEF DraftKilled
    <2> QED BY <2>2, <2>3, <2>4, SelectingIsFinite, RecoveryAssumption
            DEF RoomIsKept, RecoveryIInv
  <1> QED BY <1>2, <1>3, DraftingStep DEF DraftKilled

LEMMA StoreBatchStep ==
    ASSUME RecoveryIInv, NEW c \in Clerks, StoreBatch(c)
    PROVE  RecoveryIInv'
  <1>1. RecoveryTypeOK /\ drafting \in [Clerks -> Call]
    BY DEF RecoveryIInv, RecoveryTypeOK
  <1>2. PICK n : n = Len(batches) + 1
    OBVIOUS
  <1>3. PICK new : new = [run |-> drafting[c].run, state |-> "Drafted",
                          token |-> "none", edits |-> 0, action |-> "none"]
    OBVIOUS
  <1>4. DraftOf(drafting[c]) /\ drafting[c] \in Call /\ drafting[c].pc = "batch"
    BY <1>1, BatchFacts DEF RecoveryIInv, DraftsFollowRuns, StoreBatch
  <1>5. new \in Batch /\ new.run <= latest
    BY <1>1, <1>3, <1>4, BatchFacts, RecoveryAssumption
       DEF DraftOf, Batch, RecoveryTypeOK
  <1>6. /\ batches' \in Seq(Batch) /\ Len(batches') = n
        /\ Batches' = Batches \cup {n} /\ n \notin Batches /\ n \in Nat
        /\ batches'[n] = new
        /\ \A b \in Batches : batches'[b] = batches[b]
    <2>1. batches' = Append(batches, new) /\ batches \in Seq(Batch)
      BY <1>1, <1>3 DEF StoreBatch, RecoveryTypeOK
    <2>2. batches' \in Seq(Batch) /\ Len(batches') = n
      BY <1>2, <1>5, <2>1
    <2>3. Batches = 1..Len(batches) /\ Len(batches) \in Nat
      BY <1>1, BatchFacts
    <2>4. Batches' = 1..n
      BY <2>2 DEF Batches
    <2> QED BY <1>2, <2>1, <2>2, <2>3, <2>4
  <1>7. PICK call : call = [drafting[c] EXCEPT !.pc = "items", !.batch = n]
    OBVIOUS
  <1>8. /\ drafting' = [drafting EXCEPT ![c] = call]
        /\ call \in Call
        /\ call.pc = "items" /\ call.batch = n /\ call.run = drafting[c].run
        /\ call.todo = drafting[c].todo
    BY <1>1, <1>2, <1>4, <1>6, <1>7 DEF StoreBatch, Call
  <1>9. /\ drafting'[c] = call
        /\ \A d \in Clerks \ {c} : drafting'[d] = drafting[d]
        /\ drafting' \in [Clerks -> Call]
    BY <1>1, <1>8
  <1>10. RoomIsKept' /\ Len(batches') <= MaxBatches
    <2>1. c \in Selecting
      BY <1>4 DEF Selecting
    <2>2. Selecting' = Selecting \ {c}
      BY <1>8, <1>9 DEF Selecting
    <2>3. /\ Cardinality(Selecting') = Cardinality(Selecting) - 1
          /\ Cardinality(Selecting') \in Nat
      BY <2>1, <2>2, SelectingIsFinite, FS_RemoveElement, FS_CardinalityType
    <2>4. Len(batches) \in Nat /\ Len(batches') = Len(batches) + 1
      BY <1>1, <1>2, <1>6, BatchFacts
    <2>5. Len(batches) + Cardinality(Selecting) <= MaxBatches
      BY DEF RecoveryIInv, RoomIsKept
    <2> QED BY <2>3, <2>4, <2>5, SelectingIsFinite, RecoveryAssumption
            DEF RoomIsKept
  <1>11. RecoveryTypeOK'
    <2>1. /\ recent' \in [Batches' -> Batches']
          /\ \A b, d \in Batches' : recent'[b] = recent'[d] => b = d
      <3>1. /\ recent \in [1..Len(batches) -> 1..Len(batches)]
            /\ Batches = 1..Len(batches) /\ Len(batches) \in Nat
        BY <1>1, BatchFacts DEF RecoveryTypeOK
      <3>2. recent \in Seq(Nat) /\ Len(recent) = Len(batches)
        BY <3>1
      <3>3. recent' = Append(recent, n)
        BY <1>2 DEF StoreBatch
      <3>4. /\ DOMAIN recent' = 1..n /\ recent'[n] = n
            /\ \A b \in Batches : recent'[b] = recent[b]
        BY <1>2, <3>1, <3>2, <3>3
      <3>5. recent' \in [1..n -> 1..n]
        <4>1. recent' \in Seq(Nat) /\ Len(recent') = n
          BY <1>2, <1>6, <3>1, <3>2, <3>3
        <4>2. recent' \in [1..n -> Nat]
          BY <4>1
        <4>3. \A x \in 1..n : recent'[x] \in 1..n
          BY <1>2, <3>1, <3>4
        <4> QED BY <4>2, <4>3
      <3>6. \A b \in Batches : recent'[b] # n
        BY <1>2, <3>1, <3>4
      <3> QED BY <1>1, <1>2, <1>6, <3>1, <3>4, <3>5, <3>6 DEF RecoveryTypeOK
    <2>2. items' \subseteq Item /\ \A i \in items' : i.batch \in Batches'
      BY <1>1, <1>6, BatchFacts DEF StoreBatch, RecoveryTypeOK
    <2>3. github' \subseteq Findings \X Batches'
      BY <1>1, <1>6 DEF StoreBatch, RecoveryTypeOK
    <2>4. (reply \in [command : {"none", "approve", "post"},
                      batch : Batches \cup {NoBatch}, reason : Reasons])'
      BY NoReplyType DEF StoreBatch, NoReply, Reasons
    <2> QED BY <1>1, <1>6, <1>9, <1>10, <2>1, <2>2, <2>3, <2>4
            DEF StoreBatch, RecoveryTypeOK
  <1>12. RunsInOrder'
    BY <1>1, <1>3, <1>5, <1>6, BatchFacts
       DEF StoreBatch, RecoveryIInv, RunsInOrder
  <1>13. DraftsFollowRuns'
    <2>1. SUFFICES ASSUME NEW d \in Clerks PROVE DraftOf(drafting[d])'
      BY DEF DraftsFollowRuns
    <2>2. DraftOf(drafting[d])
      BY DEF RecoveryIInv, DraftsFollowRuns
    <2>3. CASE d = c
      BY <1>3, <1>4, <1>6, <1>8, <1>9, <2>3 DEF DraftOf, StoreBatch
    <2>4. CASE d # c
      BY <1>6, <1>9, <2>2, <2>4 DEF DraftOf, StoreBatch
    <2> QED BY <2>3, <2>4
  <1>14. OneAtATime'
    <2>1. SUFFICES ASSUME serial
                   PROVE  /\ OneDraft' /\ DraftedOnce'
                          /\ ApprovedIsWhole' /\ SucceededIsConfirmed'
      BY DEF OneAtATime, StoreBatch
    <2>2. OneDraft /\ DraftedOnce /\ ApprovedIsWhole /\ SucceededIsConfirmed
      BY <2>1 DEF RecoveryIInv, OneAtATime
    <2>3. \A d \in Clerks : drafting'[d].pc # "idle" => d = c
      BY <1>4, <1>9, <2>2 DEF OneDraft
    <2>4. OneDraft'
      BY <1>3, <1>4, <1>6, <1>8, <1>9, <2>2, <2>3
         DEF OneDraft, Untouched, StoreBatch
    <2>5. DraftedOnce'
      BY <2>2 DEF DraftedOnce, StoreBatch
    <2>6. ApprovedIsWhole'
      <3>1. batches'[n].state = "Drafted" /\ items' = items
        BY <1>3, <1>6 DEF StoreBatch
      <3> QED BY <1>6, <2>2, <3>1 DEF ApprovedIsWhole
    <2>7. SucceededIsConfirmed'
      BY <1>1, <1>6, <2>2, BatchFacts DEF SucceededIsConfirmed, StoreBatch
    <2> QED BY <2>4, <2>5, <2>6, <2>7
  <1>15. ApprovalOpensPost' /\ ApprovalHintWorks'
    BY NoReplyIsTrue DEF StoreBatch
  <1> QED BY <1>10, <1>11, <1>12, <1>13, <1>14, <1>15 DEF RecoveryIInv

LEMMA StoreItemStep ==
    ASSUME RecoveryIInv, NEW c \in Clerks, StoreItem(c)
    PROVE  RecoveryIInv'
  <1>1. RecoveryTypeOK /\ drafting \in [Clerks -> Call]
    BY DEF RecoveryIInv, RecoveryTypeOK
  <1>2. PICK f \in drafting[c].todo :
          IF batches[drafting[c].batch].edits = 0
          THEN /\ items' = items \cup {[batch |-> drafting[c].batch,
                                        finding |-> f, state |-> "Drafted"]}
               /\ drafting' = [drafting EXCEPT ![c] =
                    IF drafting[c].todo = {f} THEN NoCall
                    ELSE [drafting[c] EXCEPT !.todo = @ \ {f}]]
          ELSE /\ drafting' = [drafting EXCEPT ![c] = NoCall]
               /\ UNCHANGED items
    BY DEF StoreItem
  <1>3. /\ DraftOf(drafting[c]) /\ drafting[c] \in Call
        /\ drafting[c].pc = "items"
    BY <1>1, BatchFacts DEF RecoveryIInv, DraftsFollowRuns, StoreItem
  <1>4. PICK b : b = drafting[c].batch
    OBVIOUS
  <1>5. /\ b \in Batches /\ b \in Nat /\ f \in Findings
        /\ batches[b].run = drafting[c].run /\ batches[b].run <= seen[f]
    BY <1>1, <1>2, <1>3, <1>4, BatchFacts DEF DraftOf, Call
  <1>6. NoCall \in Call /\ DraftOf(NoCall) /\ NoCall.pc = "idle"
    BY RecoveryAssumption DEF NoCall, Call, DraftOf
  <1>7. PICK call : call = IF /\ batches[b].edits = 0
                              /\ drafting[c].todo # {f}
                           THEN [drafting[c] EXCEPT !.todo = @ \ {f}]
                           ELSE NoCall
    OBVIOUS
  <1>8. /\ drafting' = [drafting EXCEPT ![c] = call] /\ call \in Call
        /\ call.pc # "idle" => /\ call.pc = "items" /\ call.batch = b
                               /\ call.run = drafting[c].run
                               /\ call.todo = drafting[c].todo \ {f}
    <2>1. drafting' = [drafting EXCEPT ![c] = call]
      BY <1>2, <1>4, <1>7
    <2>2. CASE batches[b].edits = 0 /\ drafting[c].todo # {f}
      <3>1. call = [drafting[c] EXCEPT !.todo = @ \ {f}]
        BY <1>7, <2>2
      <3> QED BY <1>3, <1>4, <2>1, <3>1 DEF Call
    <2>3. CASE ~(batches[b].edits = 0 /\ drafting[c].todo # {f})
      <3>1. call = NoCall
        BY <1>7, <2>3
      <3> QED BY <1>6, <2>1, <3>1
    <2> QED BY <2>2, <2>3
  <1>9. /\ drafting'[c] = call
        /\ \A d \in Clerks \ {c} : drafting'[d] = drafting[d]
        /\ drafting' \in [Clerks -> Call]
    BY <1>1, <1>8
  <1>10. RoomIsKept'
    <2>1. Selecting' = Selecting
      BY <1>3, <1>8, <1>9 DEF Selecting
    <2> QED BY <2>1 DEF RoomIsKept, RecoveryIInv, StoreItem
  <1>11. CASE batches[b].edits # 0
    <2>1. items' = items /\ drafting' = [drafting EXCEPT ![c] = NoCall]
      BY <1>2, <1>4, <1>11
    <2> QED BY <1>6, <1>10, <2>1, DraftingStep DEF StoreItem
  <1>12. CASE batches[b].edits = 0
    <2>1. PICK new : new = [batch |-> b, finding |-> f, state |-> "Drafted"]
      OBVIOUS
    <2>2. /\ items' = items \cup {new}
          /\ new.batch = b /\ new.finding = f /\ new.state = "Drafted"
          /\ new \in Item
      BY <1>2, <1>4, <1>5, <1>12, <2>1 DEF Item
    <2>3. UNCHANGED <<latest, seen, triaged, batches, recent, serial, github>>
          /\ reply' = NoReply
      BY DEF StoreItem
    <2>4. RecoveryTypeOK'
      BY <1>1, <1>5, <1>9, <2>2, <2>3, NoReplyType
         DEF RecoveryTypeOK, Batches
    <2>5. RunsInOrder'
      BY <1>1, <1>5, <2>2, <2>3, BatchFacts
         DEF RecoveryIInv, RunsInOrder, Batches
    <2>6. DraftsFollowRuns'
      <3>1. SUFFICES ASSUME NEW d \in Clerks PROVE DraftOf(drafting[d])'
        BY DEF DraftsFollowRuns
      <3>2. DraftOf(drafting[d])
        BY DEF RecoveryIInv, DraftsFollowRuns
      <3>3. CASE d = c
        BY <1>3, <1>5, <1>8, <1>9, <2>3, <3>3 DEF DraftOf, Batches
      <3>4. CASE d # c
        BY <1>9, <2>3, <3>2, <3>4 DEF DraftOf, Batches
      <3> QED BY <3>3, <3>4
    <2>7. OneAtATime'
      <3>1. SUFFICES ASSUME serial
                     PROVE  /\ OneDraft' /\ DraftedOnce'
                            /\ ApprovedIsWhole' /\ SucceededIsConfirmed'
        BY <2>3 DEF OneAtATime
      <3>2. OneDraft /\ DraftedOnce /\ ApprovedIsWhole /\ SucceededIsConfirmed
        BY <3>1 DEF RecoveryIInv, OneAtATime
      <3>3. /\ Untouched(b)
            /\ \A i \in items : i.finding \notin drafting[c].todo
            /\ \A d \in Clerks : drafting[d].pc # "idle" => d = c
        BY <1>3, <1>4, <3>2 DEF OneDraft
      <3>4. \A d \in Clerks : drafting'[d].pc # "idle" => d = c
        BY <1>9, <3>3
      <3>5. OneDraft'
        BY <1>8, <1>9, <2>2, <2>3, <3>3, <3>4 DEF OneDraft, Untouched
      <3>6. DraftedOnce'
        BY <1>2, <2>2, <3>2, <3>3 DEF DraftedOnce
      <3>7. ApprovedIsWhole'
        BY <2>2, <2>3, <3>2, <3>3 DEF ApprovedIsWhole, Untouched, Batches
      <3>8. SucceededIsConfirmed'
        BY <2>2, <2>3, <3>2, <3>3 DEF SucceededIsConfirmed, Untouched
      <3> QED BY <3>5, <3>6, <3>7, <3>8
    <2>8. ApprovalOpensPost' /\ ApprovalHintWorks'
      BY <2>3, NoReplyIsTrue
    <2> QED BY <1>10, <2>4, <2>5, <2>6, <2>7, <2>8 DEF RecoveryIInv
  <1> QED BY <1>11, <1>12
-----------------------------------------------------------------------------
(* `rr send edit`, `rr approve` and `rr post`                              *)

\* The batch may change, but not the run it belongs to, and the states of
\* its drafts, but not which findings they are about.
BatchWritten(b) ==
    /\ UNCHANGED <<latest, seen, triaged, drafting, serial>>
    /\ \A j \in items' : /\ j \in Item
                         /\ \E i \in items : /\ i.batch = j.batch
                                             /\ i.finding = j.finding
                                             /\ j.batch # b => j = i
    /\ batches' \in Seq(Batch) /\ Len(batches') = Len(batches)
    /\ batches'[b].run = batches[b].run
    /\ \A c \in Batches \ {b} : batches'[c] = batches[c]
    /\ recent' = recent \/ recent' = Rewritten(b)
    /\ github \subseteq github' /\ github' \subseteq Findings \X Batches
    /\ reply' \in Replies

LEMMA BatchWriteStep ==
    ASSUME RecoveryIInv, NEW b \in Batches, MayStart, BatchWritten(b),
           ApprovalOpensPost', ApprovalHintWorks',
           (serial /\ batches'[b].state = "Approved") =>
               /\ batches'[b].token = "live"
               /\ \A j \in items' : j.batch = b => j.state = "Approved",
           (serial /\ batches'[b].action = "Succeeded") =>
               \A j \in items' : j.batch = b => <<j.finding, b>> \in github'
    PROVE  RecoveryIInv'
  <1>1. RecoveryTypeOK
    BY DEF RecoveryIInv
  <1>2. Batches' = Batches
    BY <1>1, BatchFacts DEF BatchWritten, Batches
  <1>3. \A c \in Batches : batches'[c].run = batches[c].run
    BY DEF BatchWritten
  <1>4. RecoveryTypeOK'
    <2>1. /\ recent' \in [Batches -> Batches]
          /\ \A c, d \in Batches : recent'[c] = recent'[d] => c = d
      <3>1. CASE recent' = recent
        BY <1>1, <3>1 DEF RecoveryTypeOK
      <3>2. CASE recent' = Rewritten(b)
        BY <1>1, <3>2, RewrittenOrder
      <3> QED BY <3>1, <3>2 DEF BatchWritten
    <2>2. items' \subseteq Item /\ \A j \in items' : j.batch \in Batches
      BY <1>1, BatchFacts DEF BatchWritten
    <2>3. Len(batches') <= MaxBatches /\ batches' \in Seq(Batch)
      BY <1>1 DEF BatchWritten, RecoveryTypeOK
    <2>4. reply' \in [command : {"none", "approve", "post"},
                      batch : Batches \cup {NoBatch}, reason : Reasons]
      BY DEF BatchWritten, Replies
    <2> QED BY <1>1, <1>2, <2>1, <2>2, <2>3, <2>4
            DEF BatchWritten, RecoveryTypeOK
  <1>5. RoomIsKept'
    BY DEF RecoveryIInv, RoomIsKept, Selecting, BatchWritten
  <1>6. RunsInOrder'
    <2>1. \A i \in items : i.batch \in Batches
      BY <1>1, BatchFacts
    <2> QED BY <1>2, <1>3, <2>1 DEF RecoveryIInv, RunsInOrder, BatchWritten
  <1>7. DraftsFollowRuns'
    BY <1>2, <1>3 DEF RecoveryIInv, DraftsFollowRuns, DraftOf, BatchWritten
  <1>8. OneAtATime'
    <2>1. SUFFICES ASSUME serial
                   PROVE  /\ OneDraft' /\ DraftedOnce'
                          /\ ApprovedIsWhole' /\ SucceededIsConfirmed'
      BY DEF OneAtATime, BatchWritten
    <2>2. OneDraft /\ DraftedOnce /\ ApprovedIsWhole /\ SucceededIsConfirmed
      BY <2>1 DEF RecoveryIInv, OneAtATime
    <2>3. OneDraft'
      BY <2>1 DEF MayStart, OneDraft, BatchWritten
    <2>4. DraftedOnce'
      BY <2>2 DEF DraftedOnce, BatchWritten
    <2>5. ApprovedIsWhole'
      <3>1. SUFFICES ASSUME NEW c \in Batches, batches'[c].state = "Approved"
                     PROVE  /\ batches'[c].token = "live"
                            /\ \A i \in items' : i.batch = c => i.state = "Approved"
        BY <1>2 DEF ApprovedIsWhole
      <3>2. CASE c = b
        BY <2>1, <3>1, <3>2
      <3>3. CASE c # b
        BY <2>2, <3>1, <3>3 DEF ApprovedIsWhole, BatchWritten
      <3> QED BY <3>2, <3>3
    <2>6. SucceededIsConfirmed'
      <3>1. SUFFICES ASSUME NEW j \in items',
                            batches'[j.batch].action = "Succeeded"
                     PROVE  <<j.finding, j.batch>> \in github'
        BY DEF SucceededIsConfirmed
      <3>2. CASE j.batch = b
        BY <2>1, <3>1, <3>2
      <3>3. CASE j.batch # b
        <4>1. j \in items /\ j.batch \in Batches
          BY <1>1, <3>3, BatchFacts DEF BatchWritten
        <4> QED BY <2>2, <3>1, <3>3, <4>1
                DEF SucceededIsConfirmed, BatchWritten
      <3> QED BY <3>2, <3>3
    <2> QED BY <2>3, <2>4, <2>5, <2>6
  <1> QED BY <1>4, <1>5, <1>6, <1>7, <1>8 DEF RecoveryIInv

\* What an update of one row leaves.
LEMMA RowUpdate ==
    ASSUME RecoveryTypeOK, NEW b \in Batches, NEW row \in Batch,
           batches' = [batches EXCEPT ![b] = row], row.run = batches[b].run
    PROVE  /\ batches' \in Seq(Batch) /\ Len(batches') = Len(batches)
           /\ batches'[b] = row
           /\ \A c \in Batches \ {b} : batches'[c] = batches[c]
  <1>1. batches \in Seq(Batch) /\ b \in 1..Len(batches)
    BY BatchFacts DEF RecoveryTypeOK
  <1> QED BY <1>1, BatchFacts DEF Batches

LEMMA EditStep ==
    ASSUME RecoveryIInv, NEW b \in Batches, Edit(b)
    PROVE  RecoveryIInv'
  <1>1. RecoveryTypeOK
    BY DEF RecoveryIInv
  <1>2. batches[b] \in Batch
    BY <1>1, BatchFacts
  <1>3. PICK row : row = [batches[b] EXCEPT !.edits = @ + 1,
                     !.token = IF batches[b].token = "live" THEN "revoked" ELSE @,
                     !.state = StateAfterEdit(b)]
    OBVIOUS
  <1>4. PICK edited \in ItemsOf(b) :
          items' = {IF i.batch = b /\ (batches[b].token = "live" \/ i = edited)
                    THEN [i EXCEPT !.state = "Drafted"] ELSE i : i \in items}
    BY DEF Edit
  <1>5. /\ row.run = batches[b].run /\ row.state = StateAfterEdit(b)
        /\ row.token = IF batches[b].token = "live" THEN "revoked"
                       ELSE batches[b].token
        /\ row.edits = batches[b].edits + 1 /\ row.action = batches[b].action
        /\ row = [run |-> row.run, state |-> row.state, token |-> row.token,
                  edits |-> row.edits, action |-> row.action]
    BY <1>2, <1>3 DEF Batch
  <1>6. batches' = [batches EXCEPT ![b] = row]
    BY <1>3 DEF Edit
  <1>7. row \in Batch
    BY <1>2, <1>5, RecoveryAssumption DEF Edit, Batch, StateAfterEdit
  <1>8. BatchWritten(b)
    <2>1. ASSUME NEW j \in items'
          PROVE  /\ j \in Item
                 /\ \E i \in items : /\ i.batch = j.batch
                                     /\ i.finding = j.finding
                                     /\ j.batch # b => j = i
      <3>1. PICK i \in items : j = IF i.batch = b
                                          /\ (batches[b].token = "live" \/ i = edited)
                    THEN [i EXCEPT !.state = "Drafted"] ELSE i
        BY <1>4, <2>1
      <3>2. i \in Item
        BY <1>1, BatchFacts
      <3> QED BY <3>1, <3>2 DEF Item
    <2>2. reply' \in Replies
      BY NoReplyType DEF Edit, Replies
    <2>3. github' \subseteq Findings \X Batches
      BY <1>1 DEF Edit, RecoveryTypeOK
    <2> QED BY <1>1, <1>5, <1>6, <1>7, <2>1, <2>2, <2>3, RowUpdate
            DEF BatchWritten, Edit
  <1>9. batches'[b] = row
    BY <1>1, <1>5, <1>6, <1>7, RowUpdate
  <1>10. serial => row.state # "Approved"
    <2>1. serial => (batches[b].state = "Approved" => batches[b].token = "live")
      BY DEF RecoveryIInv, OneAtATime, ApprovedIsWhole
    <2> QED BY <1>5, <2>1 DEF StateAfterEdit
  <1>11. row.action # "Succeeded"
    BY <1>5 DEF Edit
  <1>12. ApprovalOpensPost' /\ ApprovalHintWorks'
    BY NoReplyIsTrue DEF Edit
  <1>13. MayStart
    BY DEF Edit
  <1> QED BY <1>8, <1>9, <1>10, <1>11, <1>12, <1>13, BatchWriteStep

LEMMA ApproveStep ==
    ASSUME RecoveryIInv, NEW b \in Batches, Approve(b)
    PROVE  RecoveryIInv'
  <1>1. RecoveryTypeOK
    BY DEF RecoveryIInv
  <1>2. PICK upTo \in Written, reached \in SUBSET ItemsOf(b) :
          LET all == ItemsOf(b)
              some == IF upTo = "items" THEN reached ELSE all
          IN /\ upTo = "items" \/ reached = all
             /\ items' = (items \ some) \cup
                           {[i EXCEPT !.state = "Approved"] : i \in some}
             /\ batches' = [batches EXCEPT
                  ![b].token = IF upTo = "items" THEN @ ELSE TokenAfterApproval(b),
                  ![b].state = IF upTo = "batch" THEN "Approved" ELSE @]
             /\ recent' = IF upTo = "batch" /\ batches[b].state = "Drafted"
                          THEN Rewritten(b) ELSE recent
             /\ IF upTo = "batch" THEN ReplyWith("approve", b, "ok")
                ELSE reply' = NoReply
    BY DEF Approve
  <1>3. PICK some : some = IF upTo = "items" THEN reached ELSE ItemsOf(b)
    OBVIOUS
  <1>4. PICK row : row = [batches[b] EXCEPT
                     !.token = IF upTo = "items" THEN @ ELSE "live",
                     !.state = IF upTo = "batch" THEN "Approved" ELSE @]
    OBVIOUS
  <1>5. batches[b] \in Batch
    BY <1>1, BatchFacts
  <1>6. batches' = [batches EXCEPT ![b] = row]
    BY <1>2, <1>4 DEF TokenAfterApproval
  <1>7. /\ row \in Batch /\ row.run = batches[b].run
        /\ row.state = IF upTo = "batch" THEN "Approved" ELSE batches[b].state
        /\ row.token = IF upTo = "items" THEN batches[b].token ELSE "live"
        /\ row.action = batches[b].action
    BY <1>4, <1>5 DEF Batch
  <1>8. /\ some \subseteq ItemsOf(b)
        /\ items' = (items \ some) \cup
                      {[i EXCEPT !.state = "Approved"] : i \in some}
        /\ upTo # "items" => some = ItemsOf(b)
    BY <1>2, <1>3
  <1>9. /\ MayStart /\ ApproveReason(b) = "ok"
        /\ UNCHANGED <<latest, seen, triaged, drafting, serial, github>>
    BY DEF Approve
  <1>10. reply' = IF upTo = "batch"
                  THEN [command |-> "approve", batch |-> b, reason |-> "ok"]
                  ELSE NoReply
    BY <1>2 DEF ReplyWith
  <1>11. \A j \in items' :
           \/ j \in items /\ j \notin some
           \/ \E i \in some : j = [i EXCEPT !.state = "Approved"]
    BY <1>8
  <1>12. \A i \in some : i \in items /\ i.batch = b /\ i \in Item
    BY <1>1, <1>8, BatchFacts DEF ItemsOf
  <1>13. BatchWritten(b)
    <2>1. ASSUME NEW j \in items'
          PROVE  /\ j \in Item
                 /\ \E i \in items : /\ i.batch = j.batch
                                     /\ i.finding = j.finding
                                     /\ j.batch # b => j = i
      <3>1. CASE j \in items
        BY <1>1, <3>1, BatchFacts
      <3>2. CASE \E i \in some : j = [i EXCEPT !.state = "Approved"]
        BY <1>12, <3>2 DEF Item
      <3> QED BY <1>11, <2>1, <3>1, <3>2
    <2>2. reply' \in Replies
      BY <1>10, NoReplyType DEF Replies, Reasons
    <2>3. github' \subseteq Findings \X Batches
      BY <1>1, <1>9 DEF RecoveryTypeOK
    <2>4. recent' = recent \/ recent' = Rewritten(b)
      BY <1>2
    <2> QED BY <1>1, <1>6, <1>7, <1>9, <2>1, <2>2, <2>3, <2>4, RowUpdate
            DEF BatchWritten
  <1>14. batches'[b] = row
    BY <1>1, <1>6, <1>7, RowUpdate
  <1>15. upTo # "items" => \A j \in items' : j.batch = b => j.state = "Approved"
    BY <1>8, <1>11, <1>12 DEF ItemsOf, Item
  <1>16. (serial /\ row.state = "Approved") =>
           /\ row.token = "live"
           /\ \A j \in items' : j.batch = b => j.state = "Approved"
    <2>1. SUFFICES ASSUME serial, row.state = "Approved"
                   PROVE  /\ row.token = "live"
                          /\ \A j \in items' : j.batch = b => j.state = "Approved"
      OBVIOUS
    <2>2. CASE upTo # "items"
      BY <1>7, <1>15, <2>2
    <2>3. CASE upTo = "items"
      <3>1. batches[b].state = "Approved" /\ row.token = batches[b].token
        BY <1>7, <2>1, <2>3
      <3>2. /\ batches[b].token = "live"
            /\ \A i \in items : i.batch = b => i.state = "Approved"
        BY <2>1, <3>1 DEF RecoveryIInv, OneAtATime, ApprovedIsWhole
      <3> QED BY <1>11, <1>12, <3>1, <3>2 DEF Item
    <2> QED BY <2>2, <2>3
  <1>17. row.action = "none"
    BY <1>7, <1>9, ReasonsAre
  <1>18. ApprovalOpensPost' /\ ApprovalHintWorks'
    <2>1. CASE upTo # "batch"
      BY <1>10, <2>1, NoReplyIsTrue
    <2>2. CASE upTo = "batch"
      <3>1. (PostReason(b) = "ok")'
        <4>1. batches[b].run = latest /\ ItemsOf(b) # {}
          BY <1>9, ReasonsAre
        <4>2. PICK i \in ItemsOf(b) : TRUE
          BY <4>1
        <4>3. [i EXCEPT !.state = "Approved"] \in items'
          BY <1>8, <2>2, <4>2
        <4>4. i \in Item /\ i.batch = b
          BY <1>1, <4>2, BatchFacts DEF ItemsOf
        <4>5. ItemsOf(b)' # {}
          BY <4>3, <4>4 DEF ItemsOf, Item
        <4>6. BindingReason(b)' = "ok"
          BY <1>7, <1>9, <1>14, <1>17, <4>1, <4>5 DEF BindingReason
        <4>7. \A j \in ItemsOf(b)' : j.state = "Approved"
          BY <1>15, <2>2 DEF ItemsOf
        <4>8. row.state = "Approved" /\ row.token = "live"
          BY <1>7, <2>2
        <4> QED BY <1>14, <4>6, <4>7, <4>8 DEF PostReason
      <3> QED BY <1>10, <2>2, <3>1 DEF ApprovalOpensPost, ApprovalHintWorks
    <2> QED BY <2>1, <2>2
  <1> QED BY <1>9, <1>13, <1>14, <1>16, <1>17, <1>18, BatchWriteStep

\* The row of the batch and the answer, if the action was recorded or the
\* process was killed before that.
LEMMA PostCases ==
    ASSUME RecoveryTypeOK, NEW b \in Batches, Post(b)
    PROVE  \E confirmed \in SUBSET DraftedIn(b), row \in Batch :
             /\ github' = github \cup {<<f, b>> : f \in confirmed}
             /\ batches' = [batches EXCEPT ![b] = row]
             /\ row.run = batches[b].run /\ row.state = batches[b].state
             /\ row.token = batches[b].token
             /\ \/ /\ row.action = OutcomeOf(b, confirmed)
                   /\ reply' = [command |-> "post", batch |-> b, reason |-> "ok"]
                \/ row = batches[b] /\ reply' = NoReply
  <1>1. PICK confirmed \in SUBSET DraftedIn(b) :
          /\ github' = github \cup {<<f, b>> : f \in confirmed}
          /\ \/ /\ batches' = [batches EXCEPT ![b].action = OutcomeOf(b, confirmed)]
                /\ ReplyWith("post", b, "ok")
             \/ reply' = NoReply /\ UNCHANGED batches
    BY DEF Post
  <1>2. batches[b] \in Batch
    BY BatchFacts
  <1>3. CASE batches' = [batches EXCEPT ![b].action = OutcomeOf(b, confirmed)]
              /\ ReplyWith("post", b, "ok")
    <2>1. PICK row : row = [batches[b] EXCEPT !.action = OutcomeOf(b, confirmed)]
      OBVIOUS
    <2>2. batches' = [batches EXCEPT ![b] = row]
      BY <1>3, <2>1
    <2>3. /\ row \in Batch /\ row.run = batches[b].run
          /\ row.state = batches[b].state /\ row.token = batches[b].token
          /\ row.action = OutcomeOf(b, confirmed)
      BY <1>2, <2>1 DEF Batch, OutcomeOf, Outcomes
    <2> QED BY <1>1, <1>3, <2>2, <2>3 DEF ReplyWith
  <1>4. CASE reply' = NoReply /\ UNCHANGED batches
    <2>1. batches' = [batches EXCEPT ![b] = batches[b]]
      BY <1>4 DEF RecoveryTypeOK
    <2> QED BY <1>1, <1>2, <1>4, <2>1
  <1> QED BY <1>1, <1>3, <1>4

LEMMA PostStep ==
    ASSUME RecoveryIInv, NEW b \in Batches, Post(b)
    PROVE  RecoveryIInv'
  <1>1. RecoveryTypeOK
    BY DEF RecoveryIInv
  <1>2. PICK confirmed \in SUBSET DraftedIn(b), row \in Batch :
          /\ github' = github \cup {<<f, b>> : f \in confirmed}
          /\ batches' = [batches EXCEPT ![b] = row]
          /\ row.run = batches[b].run /\ row.state = batches[b].state
          /\ row.token = batches[b].token
          /\ \/ /\ row.action = OutcomeOf(b, confirmed)
                /\ reply' = [command |-> "post", batch |-> b, reason |-> "ok"]
             \/ row = batches[b] /\ reply' = NoReply
    BY <1>1, PostCases
  <1>7. DraftedIn(b) \subseteq Findings
    BY <1>1, BatchFacts DEF DraftedIn, ItemsOf, Item
  <1>8. /\ MayStart /\ PostReason(b) = "ok"
        /\ UNCHANGED <<latest, seen, triaged, items, recent, drafting, serial>>
    BY DEF Post
  <1>9. BatchWritten(b)
    <2>1. \A j \in items : j \in Item
      BY <1>1, BatchFacts
    <2>2. reply' \in Replies
      BY <1>2 DEF Replies, Reasons, NoReply
    <2>3. github \subseteq github' /\ github' \subseteq Findings \X Batches
      BY <1>1, <1>2, <1>7 DEF RecoveryTypeOK
    <2> QED BY <1>1, <1>2, <1>8, <2>1, <2>2, <2>3, RowUpdate
            DEF BatchWritten
  <1>10. batches'[b] = row
    BY <1>1, <1>2, RowUpdate
  <1>11. (serial /\ row.state = "Approved") =>
           /\ row.token = "live"
           /\ \A j \in items' : j.batch = b => j.state = "Approved"
    BY <1>2, <1>8 DEF RecoveryIInv, OneAtATime, ApprovedIsWhole
  <1>12. row.action = "Succeeded" =>
           \A j \in items' : j.batch = b => <<j.finding, b>> \in github'
    <2>1. SUFFICES ASSUME row.action = "Succeeded", NEW j \in items',
                          j.batch = b
                   PROVE  <<j.finding, b>> \in github'
      OBVIOUS
    <2>2. confirmed = DraftedIn(b)
      BY <1>2, <1>8, <2>1, ReasonsAre DEF OutcomeOf
    <2>3. j.finding \in DraftedIn(b)
      BY <1>8, <2>1 DEF DraftedIn, ItemsOf
    <2> QED BY <1>2, <2>2, <2>3
  <1>13. ApprovalOpensPost' /\ ApprovalHintWorks'
    BY <1>2 DEF ApprovalOpensPost, ApprovalHintWorks, NoReply
  <1> QED BY <1>8, <1>9, <1>10, <1>11, <1>12, <1>13, BatchWriteStep

LEMMA StepPreserves == RecoveryIInv /\ [RecoveryNext]_recoveryVars => RecoveryIInv'
  <1> SUFFICES ASSUME RecoveryIInv, [RecoveryNext]_recoveryVars
               PROVE  RecoveryIInv'
    OBVIOUS
  <1>1. CASE StartRun
    BY <1>1, StartRunStep
  <1>2. ASSUME NEW f \in Findings, Report(f) \/ Triage(f)
        PROVE  RecoveryIInv'
    BY <1>2, ReportStep, TriageStep
  <1>3. ASSUME NEW c \in Clerks,
               SelectFindings(c) \/ StoreBatch(c) \/ StoreItem(c) \/ DraftKilled(c)
        PROVE  RecoveryIInv'
    BY <1>3, SelectFindingsStep, StoreBatchStep, StoreItemStep, DraftKilledStep
  <1>4. ASSUME NEW b \in Batches,
               \/ Edit(b) \/ ApproveRefused(b) \/ Approve(b)
               \/ PostRefused(b) \/ Post(b)
        PROVE  RecoveryIInv'
    BY <1>4, EditStep, RefusedStep, ApproveStep, PostStep
  <1>5. CASE UNCHANGED recoveryVars
    BY <1>5 DEF recoveryVars, RecoveryIInv, RecoveryTypeOK, RoomIsKept,
       Selecting, RunsInOrder, DraftsFollowRuns, DraftOf, OneAtATime, OneDraft,
       Untouched, DraftedOnce, ApprovedIsWhole, SucceededIsConfirmed, Batches,
       ApprovalOpensPost, ApprovalHintWorks, PostReason, ApproveReason,
       BindingReason, ItemsOf
  <1> QED BY <1>1, <1>2, <1>3, <1>4, <1>5 DEF RecoveryNext
-----------------------------------------------------------------------------
(* What the views say                                                      *)

\* One at a time, a drafted finding has one batch and the views show that one.
LEMMA OneBatchDecides ==
    ASSUME RecoveryIInv, serial, NEW i \in items
    PROVE  /\ BatchesWith(i.finding) = {i.batch}
           /\ LatestBatch(i.finding) = i.batch
           /\ Projection(i.finding) =
                IF batches[i.batch].action # "none"
                THEN OutcomeShown(batches[i.batch].action)
                ELSE ApprovalShown(i.batch)
  <1>1. RecoveryTypeOK /\ DraftedOnce
    BY DEF RecoveryIInv, OneAtATime
  <1>2. BatchesWith(i.finding) = {i.batch}
    BY <1>1 DEF DraftedOnce, BatchesWith
  <1>3. recent[i.batch] \in Nat
    BY <1>1, BatchFacts DEF RecoveryTypeOK
  <1>4. PICK b : b = i.batch
    OBVIOUS
  <1>5. BatchesWith(i.finding) = {b} /\ recent[b] <= recent[b]
    BY <1>2, <1>3, <1>4
  <1>6. LatestBatch(i.finding) = b
    BY <1>5 DEF LatestBatch
  <1> QED BY <1>2, <1>4, <1>6 DEF Projection

LEMMA DraftsOfFinding ==
    ASSUME RecoveryTypeOK, NEW f \in Findings, NEW b \in BatchesWith(f)
    PROVE  /\ b \in Batches
           /\ \E i \in items : i.finding = f /\ i.batch = b
  BY BatchFacts DEF BatchesWith

\* A batch waiting in the latest run has a finding that run lists.
LEMMA ListedWithLatest ==
    ASSUME RecoveryIInv, NEW i \in items, batches[i.batch].run = latest
    PROVE  i.finding \in ListedNow
  <1>1. RecoveryTypeOK
    BY DEF RecoveryIInv
  <1>2. i.finding \in Findings /\ i.batch \in Batches
    BY <1>1, BatchFacts DEF Item
  <1>3. seen[i.finding] \in Nat /\ latest \in Nat
    BY <1>1, <1>2, BatchFacts
  <1>4. batches[i.batch].run <= seen[i.finding] /\ seen[i.finding] <= latest
    BY <1>2 DEF RecoveryIInv, RunsInOrder
  <1> QED BY <1>2, <1>3, <1>4 DEF ListedNow

\* One at a time, an approved batch of the latest run that was not posted is
\* one that post takes.
LEMMA ApprovedIsPostable ==
    ASSUME RecoveryIInv, serial, NEW b \in Batches, ItemsOf(b) # {},
           batches[b].run = latest, batches[b].action = "none",
           batches[b].state = "Approved"
    PROVE  PostReason(b) = "ok"
  <1>1. /\ batches[b].token = "live"
        /\ \A i \in items : i.batch = b => i.state = "Approved"
    BY DEF RecoveryIInv, OneAtATime, ApprovedIsWhole
  <1>2. BindingReason(b) = "ok"
    BY DEF BindingReason
  <1> QED BY <1>1, <1>2 DEF PostReason, ItemsOf

LEMMA InvariantGives == RecoveryIInv => RecoveryInv
  <1> SUFFICES ASSUME RecoveryIInv PROVE RecoveryInv
    OBVIOUS
  <1>1. RecoveryTypeOK
    BY DEF RecoveryIInv
  <1>2. OfferedOnce
    <2>1. SUFFICES ASSUME serial, NEW f \in Findings
                   PROVE  Cardinality(BatchesWith(f)) <= 1
      BY DEF OfferedOnce
    <2>2. CASE BatchesWith(f) = {}
      BY <2>2, FS_EmptySet
    <2>3. CASE BatchesWith(f) # {}
      <3>1. PICK b \in BatchesWith(f) : TRUE
        BY <2>3
      <3>2. PICK i \in items : i.finding = f /\ i.batch = b
        BY <1>1, <3>1, DraftsOfFinding
      <3>3. BatchesWith(f) = {b}
        BY <2>1, <3>2, OneBatchDecides
      <3>4. Cardinality({b}) = 1
        BY FS_Singleton
      <3> QED BY <3>3, <3>4
    <2> QED BY <2>2, <2>3
  <1>3. WaitingIsOffered
    <2>1. SUFFICES ASSUME serial, NEW b \in Batches, batches[b].run = latest,
                          batches[b].action = "none", ItemsOf(b) # {}
                   PROVE  b \in BatchIdsInState("awaiting_approval") \cup
                              IF PostReason(b) = "ok"
                              THEN BatchIdsInState("approved") ELSE {}
      BY DEF WaitingIsOffered
    <2>2. PICK i \in items : i.batch = b
      BY <2>1 DEF ItemsOf
    <2>3. PICK f : f = i.finding
      OBVIOUS
    <2>4. /\ f \in ListedNow /\ LatestBatch(f) = b
          /\ Projection(f) = ApprovalShown(b)
      BY <2>1, <2>2, <2>3, ListedWithLatest, OneBatchDecides
    <2>5. CASE batches[b].state = "Approved"
      <3>1. PostReason(b) = "ok"
        BY <2>1, <2>5, ApprovedIsPostable
      <3>2. Projection(f) = "approved"
        BY <2>4, <2>5 DEF ApprovalShown
      <3>3. b \in BatchIdsInState("approved")
        BY <2>4, <3>2 DEF BatchIdsInState
      <3> QED BY <3>1, <3>3
    <2>6. CASE batches[b].state # "Approved"
      <3>1. Projection(f) = "awaiting_approval"
        BY <2>4, <2>6 DEF ApprovalShown
      <3> QED BY <2>4, <3>1 DEF BatchIdsInState
    <2> QED BY <2>5, <2>6
  <1>4. PostedIsConfirmed
    <2>1. SUFFICES ASSUME serial, NEW f \in ListedNow, Projection(f) = "posted"
                   PROVE  \E b \in BatchesWith(f) : <<f, b>> \in github
      BY DEF PostedIsConfirmed, FindingsView
    <2>2. BatchesWith(f) # {} /\ f \in Findings
      BY <2>1 DEF Projection, ListedNow
    <2>3. PICK i \in items : i.finding = f
      BY <2>2 DEF BatchesWith
    <2>4. /\ BatchesWith(f) = {i.batch}
          /\ Projection(f) = IF batches[i.batch].action # "none"
                             THEN OutcomeShown(batches[i.batch].action)
                             ELSE ApprovalShown(i.batch)
      BY <2>1, <2>3, OneBatchDecides
    <2>5. batches[i.batch].action = "Succeeded"
      BY <2>1, <2>4 DEF OutcomeShown, ApprovalShown
    <2>6. <<i.finding, i.batch>> \in github
      BY <2>1, <2>5 DEF RecoveryIInv, OneAtATime, SucceededIsConfirmed
    <2> QED BY <2>3, <2>4, <2>6
  <1>5. ReadyIsPostable
    <2>1. SUFFICES ASSUME serial, \A b \in Batches : batches[b].run = latest
                   PROVE  {f \in ListedNow : Projection(f) = "approved"} =
                          {f \in Findings :
                             \E b \in BatchesWith(f) : PostReason(b) = "ok"}
      BY DEF ReadyIsPostable, StatusView
    <2>2. ASSUME NEW f \in ListedNow, Projection(f) = "approved"
          PROVE  \E b \in BatchesWith(f) : PostReason(b) = "ok"
      <3>1. BatchesWith(f) # {} /\ f \in Findings
        BY <2>2 DEF Projection, ListedNow
      <3>2. PICK i \in items : i.finding = f
        BY <3>1 DEF BatchesWith
      <3>3. i.batch \in Batches /\ ItemsOf(i.batch) # {}
        BY <1>1, BatchFacts DEF ItemsOf
      <3>4. /\ BatchesWith(f) = {i.batch}
            /\ Projection(f) = IF batches[i.batch].action # "none"
                               THEN OutcomeShown(batches[i.batch].action)
                               ELSE ApprovalShown(i.batch)
        BY <2>1, <3>2, OneBatchDecides
      <3>5. batches[i.batch].action = "none" /\ batches[i.batch].state = "Approved"
        BY <2>2, <3>4 DEF OutcomeShown, ApprovalShown
      <3>6. PostReason(i.batch) = "ok"
        BY <2>1, <3>3, <3>5, ApprovedIsPostable
      <3> QED BY <3>4, <3>6
    <2>3. ASSUME NEW f \in Findings, NEW b \in BatchesWith(f),
                 PostReason(b) = "ok"
          PROVE  f \in ListedNow /\ Projection(f) = "approved"
      <3>1. PICK i \in items : i.finding = f /\ i.batch = b
        BY <1>1, DraftsOfFinding
      <3>2. batches[b].action = "none" /\ batches[b].state = "Approved"
            /\ batches[b].run = latest
        BY <2>3, ReasonsAre
      <3>3. f \in ListedNow
        BY <3>1, <3>2, ListedWithLatest
      <3>4. Projection(f) = IF batches[i.batch].action # "none"
                            THEN OutcomeShown(batches[i.batch].action)
                            ELSE ApprovalShown(i.batch)
        BY <2>1, <3>1, OneBatchDecides
      <3> QED BY <3>1, <3>2, <3>3, <3>4 DEF ApprovalShown
    <2> QED BY <2>2, <2>3 DEF ListedNow
  <1> QED BY <1>1, <1>2, <1>3, <1>4, <1>5 DEF RecoveryInv, RecoveryIInv

\* Every state of the outbound work satisfies the invariant the proofs rest on.
THEOREM RecoveryIInvHolds == RecoverySpec => []RecoveryIInv
  <1>1. RecoveryInit => RecoveryIInv
    BY InitEstablishes
  <1>2. RecoveryIInv /\ [RecoveryNext]_recoveryVars => RecoveryIInv'
    BY StepPreserves
  <1> QED BY <1>1, <1>2, PTL DEF RecoverySpec

\* Whatever is drafted, revised, approved, posted or killed over the runs of a
\* session, what `rr status`, `rr findings`, and the offers of `rr approve` and
\* `rr post` say of the outbound work is what the commands act on: one at a
\* time nothing is drafted twice, every waiting batch is offered, posted means
\* confirmed and ready means post takes it; at all times an approval opens the
\* way for post and the hint to approve is one that works.
THEOREM ViewsAgreeWithCommands == RecoverySpec => []RecoveryInv
  BY RecoveryIInvHolds, InvariantGives, PTL

\* What GitHub confirmed is a draft of that batch.
SentIsDrafted ==
    \A sent \in github : \E i \in items : i.finding = sent[1] /\ i.batch = sent[2]

\* A draft may change its state; it stays in its batch.
LEMMA DraftsStay ==
    ASSUME RecoveryTypeOK, [RecoveryNext]_recoveryVars, NEW i \in items
    PROVE  \E j \in items' : j.batch = i.batch /\ j.finding = i.finding
  <1>1. i \in Item
    BY BatchFacts
  <1>2. ASSUME NEW b \in Batches, Edit(b)
        PROVE  \E j \in items' : j.batch = i.batch /\ j.finding = i.finding
    <2>1. PICK edited \in ItemsOf(b) :
            items' = {IF k.batch = b /\ (batches[b].token = "live" \/ k = edited)
                      THEN [k EXCEPT !.state = "Drafted"] ELSE k : k \in items}
      BY <1>2 DEF Edit
    <2>2. PICK j : j = IF i.batch = b /\ (batches[b].token = "live" \/ i = edited)
                       THEN [i EXCEPT !.state = "Drafted"] ELSE i
      OBVIOUS
    <2>3. j \in items'
      BY <2>1, <2>2
    <2>4. j.batch = i.batch /\ j.finding = i.finding
      BY <1>1, <2>2 DEF Item
    <2> QED BY <2>3, <2>4
  <1>3. ASSUME NEW b \in Batches, Approve(b)
        PROVE  \E j \in items' : j.batch = i.batch /\ j.finding = i.finding
    <2>1. PICK some \in SUBSET ItemsOf(b) :
            items' = (items \ some) \cup
                       {[k EXCEPT !.state = "Approved"] : k \in some}
      BY <1>3 DEF Approve
    <2>2. CASE i \in some
      <3>1. PICK j : j = [i EXCEPT !.state = "Approved"]
        OBVIOUS
      <3>2. j \in items'
        BY <2>1, <2>2, <3>1
      <3>3. j.batch = i.batch /\ j.finding = i.finding
        BY <1>1, <3>1 DEF Item
      <3> QED BY <3>2, <3>3
    <2>3. CASE i \notin some
      BY <2>1, <2>3
    <2> QED BY <2>2, <2>3
  <1>4. ASSUME NEW c \in Clerks, StoreItem(c)
        PROVE  items \subseteq items'
    BY <1>4 DEF StoreItem
  <1> QED BY <1>2, <1>3, <1>4 DEF RecoveryNext, StartRun, Report, Triage,
             SelectFindings, StoreBatch, DraftKilled, ApproveRefused,
             PostRefused, Post, recoveryVars

LEMMA SentStep ==
    ASSUME RecoveryTypeOK, SentIsDrafted, [RecoveryNext]_recoveryVars
    PROVE  SentIsDrafted'
  <1>1. SUFFICES ASSUME NEW sent \in github'
                 PROVE  \E j \in items' : j.finding = sent[1] /\ j.batch = sent[2]
    BY DEF SentIsDrafted
  <1>2. CASE sent \in github
    <2>1. PICK i \in items : i.finding = sent[1] /\ i.batch = sent[2]
      BY <1>2 DEF SentIsDrafted
    <2> QED BY <2>1, DraftsStay
  <1>3. CASE sent \notin github
    <2>1. PICK b \in Batches : Post(b)
      BY <1>3 DEF RecoveryNext, StartRun, Report, Triage, SelectFindings,
         StoreBatch, StoreItem, DraftKilled, Edit, ApproveRefused, Approve,
         PostRefused, recoveryVars
    <2>2. PICK f \in DraftedIn(b) : sent = <<f, b>>
      BY <1>3, <2>1 DEF Post
    <2>3. \E i \in items : i.finding = f /\ i.batch = b
      BY DEF DraftedIn, ItemsOf
    <2> QED BY <2>1, <2>2, <2>3 DEF Post
  <1> QED BY <1>2, <1>3

\* One at a time, what GitHub confirmed was sent in one batch and, once that is
\* recorded, is shown as sent for ever, through any runs, reports, triage,
\* revisions and kills: a second draft would be refused.
THEOREM SentIsNotOffered == RecoverySpec => []SentStaysSent
  <1>1. RecoveryIInv /\ SentIsDrafted => SentStaysSent
    <2>1. SUFFICES ASSUME RecoveryIInv, SentIsDrafted, serial, NEW sent \in github
                   PROVE  /\ \A again \in github : again[1] = sent[1] => again = sent
                          /\ batches[sent[2]].action # "none" =>
                                Projection(sent[1]) \in {"posted", "failed"}
      BY DEF SentStaysSent
    <2>2. PICK i \in items : i.finding = sent[1] /\ i.batch = sent[2]
      BY <2>1 DEF SentIsDrafted
    <2>3. ASSUME NEW again \in github, again[1] = sent[1] PROVE again = sent
      <3>1. PICK j \in items : j.finding = again[1] /\ j.batch = again[2]
        BY <2>1 DEF SentIsDrafted
      <3>2. j.batch = i.batch
        BY <2>1, <2>2, <2>3, <3>1 DEF RecoveryIInv, OneAtATime, DraftedOnce
      <3>3. again \in Findings \X Batches /\ sent \in Findings \X Batches
        BY <2>1, <2>3 DEF RecoveryIInv, RecoveryTypeOK
      <3>4. again[2] = sent[2]
        BY <2>2, <3>1, <3>2
      <3>5. again = <<again[1], again[2]>> /\ sent = <<sent[1], sent[2]>>
        BY <3>3
      <3> QED BY <2>3, <3>4, <3>5
    <2>4. ASSUME batches[sent[2]].action # "none"
          PROVE  Projection(sent[1]) \in {"posted", "failed"}
      <3>1. Projection(i.finding) = OutcomeShown(batches[i.batch].action)
        BY <2>1, <2>2, <2>4, OneBatchDecides
      <3> QED BY <2>2, <3>1 DEF OutcomeShown
    <2> QED BY <2>3, <2>4
  <1>2. RecoverySpec => []SentIsDrafted
    <2>1. RecoveryInit => SentIsDrafted
      BY DEF RecoveryInit, SentIsDrafted
    <2>2. RecoveryIInv /\ SentIsDrafted /\ [RecoveryNext]_recoveryVars
            => SentIsDrafted'
      BY SentStep DEF RecoveryIInv
    <2> QED BY <2>1, <2>2, RecoveryIInvHolds, PTL DEF RecoverySpec
  <1> QED BY <1>1, <1>2, RecoveryIInvHolds, PTL

\* No draft and no posted action is ever lost, so the pull request's place in
\* the queue of `rr prs` never moves back.
THEOREM QueueOnlyMovesForward == RecoverySpec => QueueMovesForward
  <1>1. RecoveryIInv /\ [RecoveryNext]_recoveryVars =>
          [/\ PrsQueueState = "posted" => PrsQueueState' = "posted"
           /\ PrsQueueState = "drafted" => PrsQueueState' # "in_review"]_recoveryVars
    <2> SUFFICES ASSUME RecoveryIInv, RecoveryNext
                 PROVE  /\ PrsQueueState = "posted" => PrsQueueState' = "posted"
                        /\ PrsQueueState = "drafted" => PrsQueueState' # "in_review"
      OBVIOUS
    <2>1. RecoveryTypeOK
      BY DEF RecoveryIInv
    <2>2. /\ \A b \in Batches : batches[b].action # "none" =>
                b \in Batches' /\ batches'[b].action # "none"
          /\ \A b \in Batches : b \in Batches'
      <3>1. ASSUME NEW c \in Clerks, StoreBatch(c)
            PROVE  /\ \A b \in Batches : b \in Batches'
                   /\ \A b \in Batches : batches'[b] = batches[b]
        <4>1. PICK new : new = [run |-> drafting[c].run, state |-> "Drafted",
                                token |-> "none", edits |-> 0, action |-> "none"]
          OBVIOUS
        <4>2. batches' = Append(batches, new) /\ batches \in Seq(Batch)
          BY <2>1, <3>1, <4>1 DEF StoreBatch, RecoveryTypeOK
        <4> QED BY <4>2 DEF Batches
      <3>2. ASSUME NEW c \in Batches, Edit(c) \/ Approve(c) \/ Post(c)
            PROVE  /\ Batches' = Batches
                   /\ \A b \in Batches \ {c} : batches'[b] = batches[b]
                   /\ batches[c].action # "none" =>
                        batches'[c].action # "none"
        <4>1. batches[c] \in Batch
          BY <2>1, BatchFacts
        <4>2. CASE Edit(c)
          BY <4>1, <4>2 DEF Edit, Batches, Batch
        <4>3. CASE Approve(c)
          BY <4>1, <4>3, ReasonsAre DEF Approve, Batches, Batch
        <4>4. CASE Post(c)
          BY <4>1, <4>4, ReasonsAre DEF Post, Batches, Batch
        <4> QED BY <3>2, <4>2, <4>3, <4>4
      <3>3. CASE UNCHANGED batches
        BY <3>3 DEF Batches
      <3> QED BY <3>1, <3>2, <3>3 DEF RecoveryNext, StartRun, Report, Triage,
                 SelectFindings, StoreItem, DraftKilled, ApproveRefused,
                 PostRefused
    <2>3. \A i \in items : \E j \in items' : j.batch = i.batch
      BY <2>1, DraftsStay
    <2>4. \A i \in items : i.batch \in Batches
      BY <2>1, BatchFacts
    <2>5. PrsQueueState = "posted" => PrsQueueState' = "posted"
      BY <2>2 DEF PrsQueueState, Counted
    <2>6. PrsQueueState = "drafted" => PrsQueueState' # "in_review"
      BY <2>2, <2>3, <2>4 DEF PrsQueueState, Counted
    <2> QED BY <2>5, <2>6
  <1> QED BY <1>1, RecoveryIInvHolds, PTL DEF RecoverySpec, QueueMovesForward
=============================================================================
