--------------------------- MODULE OutboundRecovery ---------------------------
(***************************************************************************)
(* The outbound material of one review session over its review runs: the   *)
(* findings of the latest run are drafted in batches, batches are edited,  *)
(* approved and posted, and every command that is refused answers with a   *)
(* reason and the commands to try next.  OutboundBatch follows the         *)
(* statements inside one batch; here a command on an existing batch is one *)
(* step, and what is followed is what several batches, several runs and    *)
(* processes killed half way leave behind, and whether the operator can    *)
(* still get on from there.                                                *)
(*                                                                         *)
(* Nothing in the repository marks a session `refresh_recommended`, no     *)
(* batch or item is ever stored Invalidated, Posted or Failed, and a       *)
(* session's target never changes: the answers for these are left out.     *)
(***************************************************************************)
EXTENDS Naturals, Sequences, FiniteSets

CONSTANTS
    Findings,    \* the findings of the session, as distinct fingerprints
    Clerks,      \* processes that run `rr draft`
    NoBatch,     \* no batch was named, or none is concerned
    MaxRuns,     \* bound: review runs of the session
    MaxBatches,  \* bound: draft batches
    MaxEdits,    \* bound: revisions of a batch
    MaxRevised   \* bound: batches that are revised

ASSUME RecoveryAssumption ==
    /\ MaxRuns \in Nat \ {0} /\ MaxBatches \in Nat /\ MaxEdits \in Nat
    /\ MaxRevised \in Nat
    /\ NoBatch \notin Nat
    /\ IsFiniteSet(Clerks)

VARIABLES
    latest,   \* the latest review run
    seen,     \* the run that last reported each finding; 0: none yet
    triaged,  \* the findings in triage state accepted
    batches,  \* the draft batches with their token and their posted action
    items,    \* the draft items
    recent,   \* each batch's place in the order of last writes (updated_at)
    drafting, \* where each `rr draft` stands
    serial,   \* whether commands are run one at a time
    reply,    \* the answer of approve or post, if that was the last step
    github    \* history: the <<finding, batch>> GitHub has confirmed

recoveryVars == <<latest, seen, triaged, batches, items, recent, drafting,
                  serial, reply, github>>

Batches  == DOMAIN batches
Outcomes == {"Succeeded", "Partial", "Failed"}
Reasons  == {"ok", "run_mismatch", "existing_posted_action", "missing_items",
             "state_not_postable", "approval_required", "approval_revoked"}

Batch == [run : 1..MaxRuns, state : {"Drafted", "Approved"},
          token : {"none", "live", "revoked"}, edits : 0..MaxEdits,
          action : Outcomes \cup {"none"}]
Item  == [batch : Nat, finding : Findings, state : {"Drafted", "Approved"}]
Call  == [pc : {"idle", "batch", "items"}, run : 0..MaxRuns,
          todo : SUBSET Findings, batch : Nat \cup {NoBatch}]

NoCall  == [pc |-> "idle", run |-> 0, todo |-> {}, batch |-> NoBatch]
NoReply == [command |-> "none", batch |-> NoBatch, reason |-> "ok"]

ItemsOf(b)     == {i \in items : i.batch = b}
DraftedIn(b)   == {i.finding : i \in ItemsOf(b)}
BatchesWith(f) == {i.batch : i \in {j \in items : j.finding = f}}
MayStart       == serial => \A c \in Clerks : drafting[c].pc = "idle"
ListedNow      == {f \in Findings : seen[f] = latest}

RecoveryInit ==
    /\ latest = 1
    /\ seen = [f \in Findings |-> 0]
    /\ triaged = {}
    /\ batches = <<>>
    /\ items = {}
    /\ recent = <<>>
    /\ drafting = [c \in Clerks |-> NoCall]
    /\ serial \in BOOLEAN
    /\ reply = NoReply
    /\ github = {}
-----------------------------------------------------------------------------
(* What the surfaces show of a finding: the outbound projections            *)

\* The batch written last decides.
LatestBatch(f) ==
    CHOOSE b \in BatchesWith(f) : \A c \in BatchesWith(f) : recent[c] <= recent[b]

\* A write to the row of a batch makes it the last one written.
Rewritten(b) ==
    [c \in Batches |-> IF c = b THEN Len(batches)
                       ELSE IF recent[c] > recent[b] THEN recent[c] - 1
                       ELSE recent[c]]

\* The rows of the single drafts would decide before the action of the whole
\* batch, but nothing stores them.
OutcomeShown(action) == IF action = "Succeeded" THEN "posted" ELSE "failed"

ApprovalShown(b) ==
    IF batches[b].state = "Approved" THEN "approved" ELSE "awaiting_approval"

\* Mutant: the drafts of earlier runs are not looked at.
ProjectionOfRun(f) ==
    IF \A b \in BatchesWith(f) : batches[b].run # latest THEN "not_drafted"
    ELSE LET b == LatestBatch(f) IN
         IF batches[b].action # "none" THEN OutcomeShown(batches[b].action)
         ELSE ApprovalShown(b)

Projection(f) ==
    IF BatchesWith(f) = {} THEN "not_drafted"
    ELSE LET b == LatestBatch(f) IN
         IF batches[b].action # "none" THEN OutcomeShown(batches[b].action)
         ELSE ApprovalShown(b)

\* The ids offered when approve or post is run without one.
BatchIdsInState(wanted) ==
    {LatestBatch(f) : f \in {g \in ListedNow : Projection(g) = wanted}}

\* `rr findings`: the findings of the latest run.
FindingsView == [f \in ListedNow |-> Projection(f)]

\* `rr status`: the same findings, counted; the posting gate calls the
\* approved ones ready.
StatusView ==
    [state \in {"not_drafted", "awaiting_approval", "approved", "posted", "failed"} |->
       Cardinality({f \in ListedNow : Projection(f) = state})]

\* Mutant: only the drafts and actions of the latest run are counted.
CountedOfRun(b) == batches[b].run = latest

\* Drafts and posted actions are counted over the whole session.
Counted(b) == b \in Batches

\* `rr prs`: what the outbound rows of the pull request's session say.
PrsQueueState ==
    IF \E b \in Batches : Counted(b) /\ batches[b].action # "none" THEN "posted"
    ELSE IF \E i \in items : Counted(i.batch) THEN "drafted" ELSE "in_review"
-----------------------------------------------------------------------------
(* The review goes on                                                      *)

\* `rr resume` and `rr return` add a run to the session.
StartRun ==
    /\ latest < MaxRuns
    /\ latest' = latest + 1
    /\ reply' = NoReply
    /\ UNCHANGED <<seen, triaged, batches, items, recent, drafting, serial,
                   github>>

\* A worker of the latest run reports the finding, again or for the first
\* time; the row keeps its triage state.
Report(f) ==
    /\ seen[f] # latest
    /\ seen' = [seen EXCEPT ![f] = latest]
    /\ reply' = NoReply
    /\ UNCHANGED <<latest, triaged, batches, items, recent, drafting, serial,
                   github>>

\* The operator accepts the finding or takes that back, drafted or not.
Triage(f) ==
    /\ seen[f] = latest
    /\ triaged' = IF f \in triaged THEN triaged \ {f} ELSE triaged \cup {f}
    /\ reply' = NoReply
    /\ UNCHANGED <<latest, seen, batches, items, recent, drafting, serial,
                   github>>
-----------------------------------------------------------------------------
(* `rr draft`: materialize_draft_batch                                     *)

\* Mutant: only a finding that was posted is refused.
DraftableUnlessPosted(f) ==
    seen[f] = latest /\ f \in triaged /\ Projection(f) # "posted"

\* The finding passes the checks of the selection.
Draftable(f) ==
    /\ seen[f] = latest
    /\ f \in triaged
    /\ Projection(f) = "not_drafted"

\* --finding or --all-findings: one finding that fails refuses them all.
SelectFindings(c) ==
    /\ drafting[c].pc = "idle"
    /\ MayStart
    /\ Len(batches) + Cardinality({d \in Clerks : drafting[d].pc = "batch"})
         < MaxBatches
    /\ \E chosen \in (SUBSET ListedNow) \ {{}} :
         /\ \A f \in chosen : Draftable(f)
         /\ drafting' = [drafting EXCEPT ![c] =
              [pc |-> "batch", run |-> latest, todo |-> chosen,
               batch |-> NoBatch]]
    /\ reply' = NoReply
    /\ UNCHANGED <<latest, seen, triaged, batches, items, recent, serial,
                   github>>

StoreBatch(c) ==
    /\ drafting[c].pc = "batch"
    /\ batches' = Append(batches,
         [run |-> drafting[c].run, state |-> "Drafted", token |-> "none",
          edits |-> 0, action |-> "none"])
    /\ recent' = Append(recent, Len(batches) + 1)
    /\ drafting' = [drafting EXCEPT ![c].pc = "items",
                                    ![c].batch = Len(batches) + 1]
    /\ reply' = NoReply
    /\ UNCHANGED <<latest, seen, triaged, items, serial, github>>

\* An item whose batch was revised meanwhile carries the old digest: the
\* store refuses it and the command ends.
StoreItem(c) ==
    LET call == drafting[c] IN
    /\ call.pc = "items"
    /\ \E f \in call.todo :
         IF batches[call.batch].edits = 0
         THEN /\ items' = items \cup
                   {[batch |-> call.batch, finding |-> f, state |-> "Drafted"]}
              /\ drafting' = [drafting EXCEPT ![c] =
                   IF call.todo = {f} THEN NoCall
                   ELSE [call EXCEPT !.todo = @ \ {f}]]
         ELSE /\ drafting' = [drafting EXCEPT ![c] = NoCall]
              /\ UNCHANGED items
    /\ reply' = NoReply
    /\ UNCHANGED <<latest, seen, triaged, batches, recent, serial, github>>

\* The process is killed between two rows.
DraftKilled(c) ==
    /\ drafting[c].pc # "idle"
    /\ drafting' = [drafting EXCEPT ![c] = NoCall]
    /\ reply' = NoReply
    /\ UNCHANGED <<latest, seen, triaged, batches, items, recent, serial,
                   github>>
-----------------------------------------------------------------------------
(* `rr send edit`: handle_edit, revise_outbound_draft_body                 *)

\* A live approval does not survive the edit; a dead one is left alone.
StateAfterEdit(b) ==
    IF batches[b].token = "live" THEN "Drafted" ELSE batches[b].state

\* An edit needs neither the latest run nor an accepted finding, only that
\* no posted action exists.  The batch's digest is always written.
Edit(b) ==
    /\ MayStart
    /\ batches[b].action = "none"
    /\ batches[b].edits < MaxEdits
    /\ Cardinality({c \in Batches : batches[c].edits > 0} \cup {b}) <= MaxRevised
    /\ \E edited \in ItemsOf(b) :
         LET live == batches[b].token = "live"
             hit(i) == i.batch = b /\ (live \/ i = edited)
         IN /\ items' = {IF hit(i) THEN [i EXCEPT !.state = "Drafted"] ELSE i :
                           i \in items}
            /\ batches' = [batches EXCEPT ![b].edits = @ + 1,
                 ![b].token = IF live THEN "revoked" ELSE @,
                 ![b].state = StateAfterEdit(b)]
    /\ recent' = Rewritten(b)
    /\ reply' = NoReply
    /\ UNCHANGED <<latest, seen, triaged, drafting, serial, github>>
-----------------------------------------------------------------------------
(* `rr approve`: approve_batch and approve_rejection_response              *)

\* Checks shared with post: load_bound_batch.
BindingReason(b) ==
    IF batches[b].run # latest         THEN "run_mismatch"
    ELSE IF batches[b].action # "none" THEN "existing_posted_action"
    ELSE IF ItemsOf(b) = {}            THEN "missing_items"
    ELSE "ok"

\* Every token is revoked by an edit, and such a token is issued again.
ApproveReason(b) == BindingReason(b)

ReplyWith(command, b, reason) ==
    reply' = [command |-> command, batch |-> b, reason |-> reason]

ApproveRefused(b) ==
    /\ MayStart
    /\ ApproveReason(b) # "ok"
    /\ ReplyWith("approve", b, ApproveReason(b))
    /\ UNCHANGED <<latest, seen, triaged, batches, items, recent, drafting,
                   serial, github>>

\* Items first, then the token, then the batch; the process may be killed
\* after any of these writes.
Written == {"items", "token", "batch"}

\* A missing token is minted, a revoked one issued again.
TokenAfterApproval(b) == "live"

Approve(b) ==
    /\ MayStart
    /\ ApproveReason(b) = "ok"
    /\ \E upTo \in Written, reached \in SUBSET ItemsOf(b) :
         LET all == ItemsOf(b)
             some == IF upTo = "items" THEN reached ELSE all
         IN /\ upTo = "items" \/ reached = all
            /\ items' = (items \ some) \cup
                          {[i EXCEPT !.state = "Approved"] : i \in some}
            /\ batches' = [batches EXCEPT
                 ![b].token = IF upTo = "items" THEN @ ELSE TokenAfterApproval(b),
                 ![b].state = IF upTo = "batch" THEN "Approved" ELSE @]
            /\ recent' = IF upTo = "batch" /\ batches[b].state = "Drafted"
                         THEN Rewritten(b) ELSE recent
            /\ IF upTo = "batch" THEN ReplyWith("approve", b, "ok")
               ELSE reply' = NoReply
    /\ UNCHANGED <<latest, seen, triaged, drafting, serial, github>>
-----------------------------------------------------------------------------
(* `rr post`: post_batch and post_rejection_response                       *)

\* The items are looked at before the batch: a batch nobody has approved is
\* refused as stale, not as unapproved.
PostReason(b) ==
    IF BindingReason(b) # "ok" THEN BindingReason(b)
    ELSE IF \E i \in ItemsOf(b) : i.state = "Drafted" THEN "state_not_postable"
    ELSE IF batches[b].state # "Approved" \/ batches[b].token = "none" THEN "approval_required"
    ELSE IF batches[b].token = "revoked" THEN "approval_revoked"
    ELSE "ok"

PostRefused(b) ==
    /\ MayStart
    /\ PostReason(b) # "ok"
    /\ ReplyWith("post", b, PostReason(b))
    /\ UNCHANGED <<latest, seen, triaged, batches, items, recent, drafting,
                   serial, github>>

\* How an attempt ended that GitHub confirmed for these findings.
OutcomeOf(b, confirmed) ==
    IF confirmed = DraftedIn(b) THEN "Succeeded"
    ELSE IF confirmed = {}      THEN "Failed"
    ELSE "Partial"

\* GitHub confirms the comments of some of the drafts; only the action of
\* the whole batch is recorded, not which drafts they were, and nothing when
\* the process is killed before that.
Post(b) ==
    /\ MayStart
    /\ PostReason(b) = "ok"
    /\ \E confirmed \in SUBSET DraftedIn(b) :
         /\ github' = github \cup {<<f, b>> : f \in confirmed}
         /\ \/ /\ batches' = [batches EXCEPT ![b].action = OutcomeOf(b, confirmed)]
               /\ ReplyWith("post", b, "ok")
            \/ reply' = NoReply /\ UNCHANGED batches
    /\ UNCHANGED <<latest, seen, triaged, items, recent, drafting, serial>>
-----------------------------------------------------------------------------
RecoveryNext ==
    \/ StartRun
    \/ \E f \in Findings : Report(f) \/ Triage(f)
    \/ \E c \in Clerks : \/ SelectFindings(c) \/ StoreBatch(c)
                         \/ StoreItem(c) \/ DraftKilled(c)
    \/ \E b \in Batches : \/ Edit(b) \/ ApproveRefused(b) \/ Approve(b)
                          \/ PostRefused(b) \/ Post(b)

RecoverySpec == RecoveryInit /\ [][RecoveryNext]_recoveryVars
-----------------------------------------------------------------------------
(* Properties                                                              *)

\* Types of the rows and of the answers.
RecoveryTypeOK ==
    /\ latest \in 1..MaxRuns
    /\ seen \in [Findings -> 0..MaxRuns]
    /\ triaged \subseteq Findings
    /\ batches \in Seq(Batch) /\ Len(batches) <= MaxBatches
    /\ items \subseteq Item /\ \A i \in items : i.batch \in Batches
    /\ recent \in [Batches -> Batches]
    /\ \A b, c \in Batches : recent[b] = recent[c] => b = c
    /\ drafting \in [Clerks -> Call]
    /\ serial \in BOOLEAN
    /\ reply \in [command : {"none", "approve", "post"},
                  batch : Batches \cup {NoBatch}, reason : Reasons]
    /\ github \subseteq Findings \X Batches

\* As long as commands are run one at a time, no finding is drafted twice,
\* however drafts are killed, runs go by and triage changes
\* (the existing_outbound_state check of materialize_draft_batch).
OfferedOnce ==
    serial => \A f \in Findings : Cardinality(BatchesWith(f)) <= 1

\* One at a time, `rr approve` and `rr post` without a batch id offer every
\* batch of the latest run that is waiting for them, also after an approval
\* that was killed half way (batch_ids_in_state).
WaitingIsOffered ==
    serial => \A b \in Batches :
        (batches[b].run = latest /\ batches[b].action = "none" /\ ItemsOf(b) # {})
          => b \in BatchIdsInState("awaiting_approval")
                  \cup IF PostReason(b) = "ok" THEN BatchIdsInState("approved") ELSE {}

\* One at a time, a finding listed as posted was confirmed by GitHub
\* (projected_outbound_state_from_posted_status).
PostedIsConfirmed ==
    serial => \A f \in DOMAIN FindingsView :
        FindingsView[f] = "posted" => \E b \in BatchesWith(f) : <<f, b>> \in github

\* One at a time and while every batch belongs to the latest run, the
\* findings `rr status` calls ready are those of the batches `rr post` takes.
ReadyIsPostable ==
    (serial /\ \A b \in Batches : batches[b].run = latest) =>
        StatusView["approved"] =
          Cardinality({f \in Findings :
            \E b \in BatchesWith(f) : PostReason(b) = "ok"})

\* One at a time, a finding that GitHub has confirmed is not sent in a second
\* batch, and once its post is recorded, which is done once for all the drafts
\* of a batch, it is never again shown as one to draft, approve or post:
\* whatever runs, reports, triage, drafts, edits and posts follow or are killed
\* (canonical_outbound_surface_projection_for_finding, which reads the rows of
\* all runs).
SentStaysSent ==
    serial => \A sent \in github :
        /\ \A again \in github : again[1] = sent[1] => again = sent
        /\ batches[sent[2]].action # "none" =>
              Projection(sent[1]) \in {"posted", "failed"}

\* An approval that reports success has opened the way for `rr post`, after
\* any edits and killed approvals before it.
ApprovalOpensPost ==
    (reply.command = "approve" /\ reply.reason = "ok")
      => PostReason(reply.batch) = "ok"

\* When `rr post` tells the operator to run `rr approve` on the batch, that
\* command is accepted (ApprovalRequired... in post_rejection_response).
ApprovalHintWorks ==
    reply.reason = "approval_required" => ApproveReason(reply.batch) = "ok"

\* A pull request's place in the queue of `rr prs` only moves forward: a
\* new run does not make what was drafted or posted look untouched.
QueueMovesForward ==
    [][/\ PrsQueueState = "posted" => PrsQueueState' = "posted"
       /\ PrsQueueState = "drafted" => PrsQueueState' # "in_review"]_recoveryVars

\* What the status, finding and queue views say of the outbound work agrees
\* with what the commands do about it.
RecoveryInv ==
    /\ RecoveryTypeOK
    /\ OfferedOnce
    /\ WaitingIsOffered
    /\ PostedIsConfirmed
    /\ ReadyIsPostable
    /\ ApprovalOpensPost
    /\ ApprovalHintWorks

=============================================================================
