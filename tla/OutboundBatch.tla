---------------------------- MODULE OutboundBatch ----------------------------
(***************************************************************************)
(* The life of one outbound draft batch in the Roger store: its items are  *)
(* inserted by `rr draft`, bodies are revised, the batch is approved from  *)
(* the CLI or from the TUI, and it is posted to GitHub.                    *)
(*                                                                         *)
(* Every CLI command and the TUI are separate operating-system processes   *)
(* (or threads with a connection of their own) on one SQLite file.  Except *)
(* for the revision transaction, each storage call is a read followed by   *)
(* an autocommitted write, so one action below is one statement, or a run  *)
(* of statements between which no other process can make a difference.     *)
(* Batches never share rows, so one batch is modelled.                     *)
(*                                                                         *)
(* Digests.  The payload digest of a freshly materialised batch is 0.  A   *)
(* revision derives the next one by hashing, among others, the identifier  *)
(* of the revision row, which is unique; SHA-256 being injective for our   *)
(* purposes, the n-th committed revision yields digest n.                  *)
(***************************************************************************)
EXTENDS Naturals, Sequences

CONSTANTS
  Drafts,       \* the drafts selected when the batch was materialised
  Bodies,       \* the texts a draft can have (non-empty ones)
  Generated,    \* Drafts -> Bodies, the text `rr draft` renders
  Approvers,    \* processes that run `rr approve` or approve in the TUI
  Editors,      \* processes that run `rr send edit` or edit in the TUI
  Posters,      \* processes that run `rr post` or post in the TUI
  Surfaces,     \* the approval paths in use, a subset of {"cli", "tui"}
  CanCrash,     \* whether a process may die between two statements
  MaxRevisions, \* bound: no edit starts once so many revisions exist
  MaxPosts,     \* bound: no post starts after so many adapter calls
  NoToken, NoDraft

Procs == Approvers \cup Editors \cup Posters

ASSUME ConstantsAssumption ==
  /\ Generated \in [Drafts -> Bodies]
  /\ Surfaces \subseteq {"cli", "tui"}
  /\ CanCrash \in BOOLEAN
  /\ MaxRevisions \in Nat
  /\ MaxPosts \in Nat
  /\ NoDraft \notin Drafts

\* NoToken stands for the absence of a row.
ASSUME NoTokenAssumption ==
  NoToken \notin [digest : Nat, revoked : BOOLEAN, surface : {"cli", "tui"}]

VARIABLES
  batch,      \* the outbound_draft_batches row: [digest, state]
  items,      \* the outbound_draft_items rows; state "NotDrafted": no row yet
  token,      \* the outbound_batch_approval_tokens row, or NoToken
  posted,     \* the posted_batch_actions rows of the batch
  lineage,    \* the outbound_draft_revisions rows of each draft, by index
  superseded, \* a later run exists or the session waits for a refresh
  inserting,  \* the draft `rr draft` has checked and is about to insert
  remote,     \* the comments GitHub has received
  posts,      \* how many times the posting adapter was called
  pc,         \* where each process stands
  local,      \* what each process read and still has to do
  payload,    \* history: the contents the batch had under digest 1, 2, ...
  accepted    \* history: the (draft, body, digest)s an approval accepted

db == <<batch, items, token, posted, lineage>>
vars == <<batch, items, token, posted, lineage, superseded, inserting,
          remote, posts, pc, local, payload, accepted>>
-----------------------------------------------------------------------------
States   == {"NotDrafted", "Drafted", "Approved"}
Statuses == {"Succeeded", "Partial", "Failed"}
Phases   == {"idle",
             "a_drafts", "a_token", "a_item", "a_item_put", "a_mint_put",
             "a_batch", "a_batch_put",
             "p_drafts", "p_token", "p_send", "p_record", "p_record_put",
             "e_commit"}

Item   == [state : States, body : Bodies, digest : Nat]
Token  == [digest : Nat, revoked : BOOLEAN, surface : {"cli", "tui"}]
Action == [id : Nat, digest : Nat, status : Statuses]
Comment == [draft : Drafts, body : Bodies, digest : Nat, post : Nat]
Payload == [drafts : SUBSET Drafts, body : [Drafts -> Bodies]]
Acceptance == [draft : Drafts, body : Bodies, digest : Nat]

\* What a process carries from one statement to the next.  An editor keeps
\* the replacement text in text, a poster its action id in post and the
\* drafts GitHub confirmed in done; todo are the drafts still to be handled.
Local == [surface : {"cli", "tui"}, digest : Nat, state : States,
          drafts : SUBSET Drafts, body : [Drafts -> Bodies],
          todo : SUBSET Drafts, draft : Drafts \cup {NoDraft},
          mint : {"none", "fresh", "reissue"}, text : Bodies \cup {NoDraft},
          post : Nat, done : SUBSET Drafts]

Blank == [surface |-> "cli", digest |-> 0, state |-> "NotDrafted",
          drafts |-> {}, body |-> Generated, todo |-> {}, draft |-> NoDraft,
          mint |-> "none", text |-> NoDraft, post |-> 0, done |-> {}]

TypeOK ==
  /\ batch \in [digest : Nat, state : {"Drafted", "Approved"}]
  /\ items \in [Drafts -> Item]
  /\ token \in Token \cup {NoToken}
  /\ posted \subseteq Action
  /\ lineage \in [Drafts -> Seq(Bodies)]
  /\ superseded \in BOOLEAN
  /\ inserting \in Drafts \cup {NoDraft}
  /\ remote \subseteq Comment
  /\ posts \in Nat
  /\ pc \in [Procs -> Phases]
  /\ local \in [Procs -> Local]
  /\ payload \in Seq(Payload)
  /\ accepted \subseteq Acceptance

\* The drafts that have a row, and whether the batch holds a live approval.
Stored    == {d \in Drafts : items[d].state # "NotDrafted"}
LiveToken == token # NoToken /\ ~token.revoked
-----------------------------------------------------------------------------
\* The batch row is written first; no item row exists yet.
Init ==
  /\ batch = [digest |-> 0, state |-> "Drafted"]
  /\ items = [d \in Drafts |->
                [state |-> "NotDrafted", body |-> Generated[d], digest |-> 0]]
  /\ token = NoToken
  /\ posted = {}
  /\ lineage = [d \in Drafts |-> <<>>]
  /\ superseded = FALSE
  /\ inserting = NoDraft
  /\ remote = {}
  /\ posts = 0
  /\ pc = [p \in Procs |-> "idle"]
  /\ local = [p \in Procs |-> Blank]
  /\ payload = <<>>
  /\ accepted = {}

\* Process p goes to phase ph with local state l; it ends its command when
\* ph is "idle", whether it succeeded or returned early.
Goto(p, ph, l) ==
  /\ pc' = [pc EXCEPT ![p] = ph]
  /\ local' = [local EXCEPT ![p] = IF ph = "idle" THEN Blank ELSE l]
-----------------------------------------------------------------------------
(* `rr draft`: one store_outbound_draft_item call per selected finding.    *)

\* The linkage of the new item is checked against the batch row read now.
MaterializeCheck(d) ==
  /\ inserting = NoDraft
  /\ items[d].state = "NotDrafted"
  /\ batch.digest = 0
  /\ inserting' = d
  /\ UNCHANGED <<db, superseded, remote, posts, pc, local, payload, accepted>>

MaterializeInsert ==
  /\ inserting # NoDraft
  /\ items' = [items EXCEPT ![inserting] =
                 [state |-> "Drafted", body |-> Generated[inserting],
                  digest |-> 0]]
  /\ inserting' = NoDraft
  /\ UNCHANGED <<batch, token, posted, lineage, superseded, remote, posts,
                 pc, local, payload, accepted>>
-----------------------------------------------------------------------------
(* Reads shared by approval and posting: load_bound_batch.                 *)

\* Mutant: the posted actions are not looked at.
PostedActionsIgnored == TRUE

\* posted_actions_for_batch finds nothing.
NoPostedAction == posted = {}

\* The session, its latest run, the batch row and the posted actions.  The
\* posted actions only grow and superseded only rises, so a check of them
\* that passes later would have passed with the read of the batch row.
LoadBatch(p, ph, surface) ==
  /\ pc[p] = "idle"
  /\ ~superseded
  /\ NoPostedAction
  /\ Goto(p, ph, [Blank EXCEPT !.surface = surface,
                               !.digest = batch.digest,
                               !.state = batch.state])

\* validate_outbound_draft_batch_linkage for the rows just read.
Linked(l) ==
  /\ Stored # {}
  /\ \A d \in Stored : items[d].digest = l.digest

\* The snapshot of the item rows taken by one SELECT.
Snapshot(l) ==
  [l EXCEPT !.drafts = Stored,
            !.body = [d \in Drafts |-> items[d].body]]
-----------------------------------------------------------------------------
(* Approval: approve_batch ("cli"), approve_outbound_batch_for_session     *)
(* ("tui").                                                                *)

ApproveLoad(p) ==
  /\ p \in Approvers
  /\ \E surface \in Surfaces : LoadBatch(p, "a_drafts", surface)
  /\ UNCHANGED <<db, superseded, inserting, remote, posts, payload, accepted>>

\* Items already Approved are not written again.  The TUI's path reads the
\* posted actions after the items.
ApproveDrafts(p) ==
  LET l == local[p]
      pending == {d \in Stored : items[d].state # "Approved"}
      ok == Linked(l) /\ (l.surface = "tui" => NoPostedAction)
  IN /\ pc[p] = "a_drafts"
     /\ Goto(p, IF ok THEN "a_token" ELSE "idle",
             [Snapshot(l) EXCEPT !.todo = pending])
     /\ UNCHANGED <<db, superseded, inserting, remote, posts, payload,
                    accepted>>

\* Mutant: an approval revoked by a revision cannot be reissued.
ApprovalGateNoReissue(l, mint) ==
  \/ token = NoToken /\ mint = "fresh"
  \/ LiveToken /\ token.digest = l.digest /\ mint = "none"

\* What the surface does with the token row it finds: mint a first token,
\* reissue one revoked by a revision (CLI only), or keep the live one if it
\* binds the digest just read.
ApprovalGate(l, mint) ==
  \/ token = NoToken /\ mint = "fresh"
  \/ token # NoToken /\ token.revoked /\ l.surface = "cli" /\ mint = "reissue"
  \/ LiveToken /\ token.digest = l.digest /\ mint = "none"

Accepts(l) ==
  {[draft |-> d, body |-> l.body[d], digest |-> l.digest] : d \in l.drafts}

ApproveToken(p) ==
  LET l == local[p] IN
  /\ pc[p] = "a_token"
  /\ \/ \E mint \in {"none", "fresh", "reissue"} :
          /\ ApprovalGate(l, mint)
          /\ Goto(p, "a_item", [l EXCEPT !.mint = mint])
          /\ accepted' = accepted \cup Accepts(l)
     \/ /\ \A mint \in {"none", "fresh", "reissue"} : ~ApprovalGate(l, mint)
        /\ Goto(p, "idle", l)
        /\ UNCHANGED accepted
  /\ UNCHANGED <<db, superseded, inserting, remote, posts, payload>>

\* store_outbound_draft_item: the draft read earlier must still be linked to
\* the batch and identical to its row ...
ApproveItemCheck(p) ==
  LET l == local[p] IN
  /\ pc[p] = "a_item"
  /\ \E d \in l.todo :
       LET same == /\ batch.digest = l.digest
                   /\ items[d].digest = l.digest
                   /\ items[d].body = l.body[d]
       IN Goto(p, IF same THEN "a_item_put" ELSE "idle", [l EXCEPT !.draft = d])
  /\ UNCHANGED <<db, superseded, inserting, remote, posts, payload, accepted>>

\* ... and then its approval state alone is overwritten.
ApproveItem(p) ==
  LET l == local[p] IN
  /\ pc[p] = "a_item_put"
  /\ items' = [items EXCEPT ![l.draft].state = "Approved"]
  /\ Goto(p, "a_item", [l EXCEPT !.todo = @ \ {l.draft}, !.draft = NoDraft])
  /\ UNCHANGED <<batch, token, posted, lineage, superseded, inserting,
                 remote, posts, payload, accepted>>

\* The token row, if there is one, has the id of the token to be stored: a
\* reissue keeps the id, and TUI ids are equal when minted within a second.
SameTokenId(l) ==
  token # NoToken /\ (l.mint = "reissue" \/ {l.surface, token.surface} = {"tui"})

\* store_outbound_approval_token: digest and token id are compared first ...
ApproveMintCheck(p) ==
  LET l == local[p]
      ok == batch.digest = l.digest /\ (token = NoToken \/ SameTokenId(l))
  IN /\ pc[p] = "a_item"
     /\ l.todo = {}
     /\ l.mint # "none"
     /\ Goto(p, IF ok THEN "a_mint_put" ELSE "idle", l)
     /\ UNCHANGED <<db, superseded, inserting, remote, posts, payload,
                    accepted>>

\* ... then the row is inserted, or overwritten if it has the same id.  A
\* second id for the batch violates its unique index.
ApproveMint(p) ==
  LET l == local[p]
      ok == token = NoToken \/ SameTokenId(l)
      surface == IF token = NoToken THEN l.surface ELSE token.surface
  IN /\ pc[p] = "a_mint_put"
     /\ token' = IF ok THEN [digest |-> l.digest, revoked |-> FALSE,
                             surface |-> surface]
                 ELSE token
     /\ Goto(p, IF ok THEN "a_batch" ELSE "idle", l)
     /\ UNCHANGED <<batch, items, posted, lineage, superseded, inserting,
                    remote, posts, payload, accepted>>

\* With a live token to keep, the token is not written.
ApproveKeepToken(p) ==
  /\ pc[p] = "a_item"
  /\ local[p].todo = {}
  /\ local[p].mint = "none"
  /\ Goto(p, "a_batch", local[p])
  /\ UNCHANGED <<db, superseded, inserting, remote, posts, payload, accepted>>

\* store_outbound_draft_batch checks the identity of the row.  A batch read
\* as Approved is left alone when its approved_at is the token's.
ApproveBatchCheck(p) ==
  LET l == local[p] IN
  /\ pc[p] = "a_batch"
  /\ \/ l.state = "Approved" /\ Goto(p, "idle", l)
     \/ Goto(p, IF batch.digest = l.digest THEN "a_batch_put" ELSE "idle", l)
  /\ UNCHANGED <<db, superseded, inserting, remote, posts, payload, accepted>>

ApproveBatch(p) ==
  /\ pc[p] = "a_batch_put"
  /\ batch' = [batch EXCEPT !.state = "Approved"]
  /\ Goto(p, "idle", Blank)
  /\ UNCHANGED <<items, token, posted, lineage, superseded, inserting,
                 remote, posts, payload, accepted>>
-----------------------------------------------------------------------------
(* Revision: revise_outbound_draft_body.                                   *)

\* The draft row, the batch row and the posted actions are read before the
\* transaction begins.  An unchanged text is not stored.
EditRead(p) ==
  /\ p \in Editors
  /\ pc[p] = "idle"
  /\ Len(payload) < MaxRevisions
  /\ NoPostedAction
  /\ \E d \in Stored, b \in Bodies :
       /\ b # items[d].body
       /\ Goto(p, "e_commit",
               [Blank EXCEPT !.draft = d, !.text = b,
                             !.body[d] = items[d].body])
  /\ UNCHANGED <<db, superseded, inserting, remote, posts, payload, accepted>>

\* Mutants: the digest is left as it is; the token survives the edit.
DigestKept     == batch.digest
TokenKept      == token

\* The digest that binds the revised contents.
RevisedDigest == Len(payload) + 1

\* A live approval does not survive an edit.
RevokedToken ==
  IF LiveToken THEN [token EXCEPT !.revoked = TRUE] ELSE token

\* The first revision of a draft seeds the original text, as read before
\* the transaction, as revision 0.
Seeded(d, read) == IF lineage[d] = <<>> THEN <<read>> ELSE lineage[d]

\* Mutant: the index of the revision is worked out from the row read before
\* the transaction, and the insert of an index that is taken is ignored.
RevisionByRead(d, read, text) ==
  IF read = Generated[d] /\ lineage[d] # <<>> THEN lineage[d]
  ELSE Append(Seeded(d, read), text)

\* The revision gets the index after the latest one, as the transaction
\* finds it.
WithRevision(d, read, text) == Append(Seeded(d, read), text)

\* The transaction.
EditCommit(p) ==
  LET l == local[p]
      d == l.draft
      revised == [x \in Drafts |->
        IF x \notin Stored THEN items[x]
        ELSE [state  |-> IF LiveToken \/ x = d THEN "Drafted"
                         ELSE items[x].state,
              body   |-> IF x = d THEN l.text ELSE items[x].body,
              digest |-> RevisedDigest]]
  IN /\ pc[p] = "e_commit"
     /\ lineage' = [lineage EXCEPT ![d] =
                      WithRevision(d, l.body[d], l.text)]
     /\ items' = revised
     /\ batch' = [digest |-> RevisedDigest,
                  state |-> IF LiveToken THEN "Drafted" ELSE batch.state]
     /\ token' = RevokedToken
     /\ payload' = Append(payload,
                     [drafts |-> Stored,
                      body |-> [x \in Drafts |-> revised[x].body]])
     /\ Goto(p, "idle", Blank)
     /\ UNCHANGED <<posted, superseded, inserting, remote, posts, accepted>>
-----------------------------------------------------------------------------
(* Posting: post_batch, execute_explicit_posting_flow and the gh adapter.  *)

PostLoad(p) ==
  /\ p \in Posters
  /\ posts < MaxPosts
  /\ LoadBatch(p, "p_drafts", "cli")
  /\ UNCHANGED <<db, superseded, inserting, remote, posts, payload, accepted>>

\* Mutant: the approval state of the items is not required.
ReadyToPostByBatch(l) == Linked(l) /\ l.state = "Approved"

\* Every draft and the batch are approved.
ReadyToPost(l) ==
  /\ Linked(l)
  /\ \A d \in Stored : items[d].state = "Approved"
  /\ l.state = "Approved"

PostDrafts(p) ==
  LET l == local[p] IN
  /\ pc[p] = "p_drafts"
  /\ Goto(p, IF ReadyToPost(l) THEN "p_token" ELSE "idle",
          [Snapshot(l) EXCEPT !.todo = Stored])
  /\ UNCHANGED <<db, superseded, inserting, remote, posts, payload, accepted>>

\* The token must be live and evaluate_outbound_post_gate must allow it.
PostToken(p) ==
  LET l == local[p]
      ok == LiveToken /\ token.digest = l.digest
  IN /\ pc[p] = "p_token"
     /\ Goto(p, IF ok THEN "p_send" ELSE "idle", [l EXCEPT !.post = posts + 1])
     /\ posts' = IF ok THEN posts + 1 ELSE posts
     /\ UNCHANGED <<db, superseded, inserting, remote, payload, accepted>>

\* One gh call per draft.  "ambiguous": GitHub stored the comment but the
\* call timed out or its answer was unreadable, and is reported as failed.
PostSend(p) ==
  LET l == local[p] IN
  /\ pc[p] = "p_send"
  /\ \E d \in l.todo, outcome \in {"posted", "failed", "ambiguous"} :
       /\ remote' = IF outcome = "failed" THEN remote
                    ELSE remote \cup {[draft |-> d, body |-> l.body[d],
                                       digest |-> l.digest, post |-> l.post]}
       /\ Goto(p, IF l.todo = {d} THEN "p_record" ELSE "p_send",
               [l EXCEPT !.todo = @ \ {d},
                         !.done = IF outcome = "posted" THEN @ \cup {d}
                                  ELSE @])
  /\ UNCHANGED <<db, superseded, inserting, posts, payload, accepted>>

\* Mutant: an adapter error leaves no record.
PostAdapterErrorUnrecorded(p) ==
  /\ pc[p] = "p_send"
  /\ Goto(p, "idle", Blank)
  /\ UNCHANGED <<db, superseded, inserting, remote, posts, payload, accepted>>

\* gh cannot be started: the results gathered so far are thrown away.
PostAdapterError(p) ==
  /\ pc[p] = "p_send"
  /\ Goto(p, "p_record", [local[p] EXCEPT !.todo = {}, !.done = {}])
  /\ UNCHANGED <<db, superseded, inserting, remote, posts, payload, accepted>>

\* store_posted_batch_action: the posted digest must be the batch's ...
PostRecordCheck(p) ==
  LET l == local[p] IN
  /\ pc[p] = "p_record"
  /\ Goto(p, IF l.digest = batch.digest THEN "p_record_put" ELSE "idle", l)
  /\ UNCHANGED <<db, superseded, inserting, remote, posts, payload, accepted>>

\* Mutant: one delivered draft makes a success.
OutcomeAnyDelivered(l) == IF l.done = {} THEN "Failed" ELSE "Succeeded"

Outcome(l) == IF l.done = l.drafts THEN "Succeeded"
              ELSE IF l.done = {} THEN "Failed" ELSE "Partial"

\* ... and then the row is inserted.
PostRecord(p) ==
  LET l == local[p] IN
  /\ pc[p] = "p_record_put"
  /\ posted' = posted \cup {[id |-> l.post, digest |-> l.digest,
                             status |-> Outcome(l)]}
  /\ Goto(p, "idle", l)
  /\ UNCHANGED <<batch, items, token, lineage, superseded, inserting, remote,
                 posts, payload, accepted>>
-----------------------------------------------------------------------------
(* The environment.                                                        *)

\* A new review run starts, or the session is marked refresh_recommended.
Supersede ==
  /\ ~superseded
  /\ superseded' = TRUE
  /\ UNCHANGED <<db, inserting, remote, posts, pc, local, payload, accepted>>

\* A command dies between two statements, or a statement of it fails (the
\* database stayed busy); nothing is rolled back.
Crash(p) ==
  /\ CanCrash
  /\ pc[p] # "idle"
  /\ Goto(p, "idle", Blank)
  /\ UNCHANGED <<db, superseded, inserting, remote, posts, payload, accepted>>
-----------------------------------------------------------------------------
Start(p) == ApproveLoad(p) \/ EditRead(p) \/ PostLoad(p)

Step(p) ==
  \/ ApproveDrafts(p) \/ ApproveToken(p) \/ ApproveItemCheck(p)
  \/ ApproveItem(p) \/ ApproveMintCheck(p) \/ ApproveMint(p)
  \/ ApproveKeepToken(p) \/ ApproveBatchCheck(p) \/ ApproveBatch(p)
  \/ EditCommit(p)
  \/ PostDrafts(p) \/ PostToken(p) \/ PostSend(p) \/ PostAdapterError(p)
  \/ PostRecordCheck(p) \/ PostRecord(p)

Materialize == MaterializeInsert \/ \E d \in Drafts : MaterializeCheck(d)

Next ==
  \/ \E p \in Procs : Start(p) \/ Step(p) \/ Crash(p)
  \/ Materialize
  \/ Supersede

Spec == Init /\ [][Next]_vars

\* The same system from the moment `rr draft` has inserted every item.
InitMaterialized ==
  /\ batch = [digest |-> 0, state |-> "Drafted"]
  /\ items = [d \in Drafts |->
                [state |-> "Drafted", body |-> Generated[d], digest |-> 0]]
  /\ token = NoToken
  /\ posted = {}
  /\ lineage = [d \in Drafts |-> <<>>]
  /\ superseded = FALSE
  /\ inserting = NoDraft
  /\ remote = {}
  /\ posts = 0
  /\ pc = [p \in Procs |-> "idle"]
  /\ local = [p \in Procs |-> Blank]
  /\ payload = <<>>
  /\ accepted = {}

MaterializedSpec == InitMaterialized /\ [][Next]_vars
-----------------------------------------------------------------------------
(* Safety.                                                                 *)

Binding(d, body, digest) == [draft |-> d, body |-> body, digest |-> digest]

\* What GitHub receives is what an operator approved: the very text, of the
\* very draft, under the digest the approval was given for, whatever edits
\* and approvals ran between the reads of post_batch.
PostedWasApproved ==
  \A c \in remote : Binding(c.draft, c.body, c.digest) \in accepted

\* The rows as they stand would pass every check of post_batch.
Postable ==
  /\ batch.state = "Approved"
  /\ LiveToken
  /\ token.digest = batch.digest
  /\ Stored # {}
  /\ \A d \in Stored : /\ items[d].state = "Approved"
                       /\ items[d].digest = batch.digest

\* A revised but unapproved body can never be posted
\* (revise_outbound_draft_body): whenever the rows are postable, every text
\* in them was accepted by an approval of that very digest, in spite of
\* approvals whose stale writes land after an edit.
PostableWasApproved ==
  Postable => \A d \in Stored :
                Binding(d, items[d].body, items[d].digest) \in accepted

\* The lineage of a revised draft begins with the generated text and ends
\* with the text of its row, also when first edits race.
OriginalPreserved ==
  \A d \in Drafts : lineage[d] # <<>> =>
    /\ Head(lineage[d]) = Generated[d]
    /\ lineage[d][Len(lineage[d])] = items[d].body

\* A draft reaches GitHub through one call of the posting adapter at most:
\* retrying does not post twice.
AtMostOnce ==
  \A c1, c2 \in remote : c1.draft = c2.draft => c1.post = c2.post

\* A batch with a posted action is never edited: its digest stays the one
\* that was posted.
PostedBatchFrozen == \A a \in posted : a.digest = batch.digest

AllIdle == \A p \in Procs : pc[p] = "idle"

\* Once the commands have ended, every comment on GitHub has its audit row.
AuditComplete ==
  AllIdle => \A c \in remote : \E a \in posted : a.id = c.post

\* The audit rows tell what was posted: all of it, and of the batch as it is.
AuditTrue == AuditComplete /\ PostedBatchFrozen

\* Once the commands have ended, a live approval is one of the batch as it
\* stands; any other blocks approval and posting alike until the next edit.
NoWedgedApproval == AllIdle /\ LiveToken => token.digest = batch.digest

\* An action recorded as succeeded delivered every draft of the batch, so
\* the findings projected as posted were posted.
SucceededMeansDelivered ==
  \A a \in posted : a.status = "Succeeded" =>
    \A d \in Stored : \E c \in remote : c.draft = d /\ c.post = a.id

-----------------------------------------------------------------------------
(* The inductive invariant behind PostedWasApproved, PostableWasApproved   *)
(* and OriginalPreserved.                                                  *)

Approving == {"a_item", "a_item_put", "a_mint_put", "a_batch", "a_batch_put"}
Sending   == {"p_send", "p_record", "p_record_put"}
Holding   == {"a_token", "p_token"} \cup Approving \cup Sending

\* The text a digest stands for.
Text(d, n) == IF n = 0 THEN Generated[d] ELSE payload[n].body[d]

\* Every row carries the text its digest stands for.
RowsBound ==
  /\ batch.digest = Len(payload)
  /\ \A n \in 1..Len(payload) : payload[n].drafts \subseteq Stored
  /\ inserting # NoDraft => inserting \notin Stored
  /\ \A d \in Stored :
       /\ items[d].digest \in 0..Len(payload)
       /\ items[d].body = Text(d, items[d].digest)
       /\ items[d].digest > 0 => d \in payload[items[d].digest].drafts

\* Only a stored draft has revisions, and one without still is as generated.
LineageBound ==
  \A d \in Drafts : IF lineage[d] = <<>> THEN items[d].body = Generated[d]
                                        ELSE d \in Stored

\* The texts of an edited payload are accepted together, and a token is
\* minted for accepted texts only.
AcceptedWhole(n) ==
  \A d \in payload[n].drafts : Binding(d, Text(d, n), n) \in accepted

AcceptedBound ==
  \A a \in accepted : /\ a.digest \in 0..Len(payload)
                      /\ a.digest > 0 => AcceptedWhole(a.digest)

TokenAccepted ==
  token # NoToken => \E a \in accepted : a.digest = token.digest

\* Before any edit a row is approved only if its text was accepted; an edit
\* leaves rows approved that nobody accepted, but changes their digest.
UneditedAccepted ==
  \A d \in Stored :
    items[d].state = "Approved" /\ items[d].digest = 0
      => Binding(d, Generated[d], 0) \in accepted

\* What the invariant says of the rows and of the history.
Rows ==
  /\ RowsBound
  /\ LineageBound
  /\ OriginalPreserved
  /\ AcceptedBound
  /\ TokenAccepted
  /\ UneditedAccepted
  /\ PostedWasApproved

\* A snapshot carries the texts its digest stands for, and that of an edited
\* payload is whole.
SnapshotBound(l) ==
  /\ l.digest \in 0..Len(payload)
  /\ l.drafts # {}
  /\ l.drafts \subseteq Stored
  /\ l.todo \subseteq l.drafts
  /\ \A d \in l.drafts : /\ l.body[d] = Text(d, l.digest)
                         /\ items[d].digest = 0 => l.digest = 0
  /\ l.digest > 0 => l.drafts = payload[l.digest].drafts

\* What a process standing at ph may rely on, however old its reads are.
Knows(ph, l) ==
  /\ ph \in {"a_drafts", "p_drafts"} => l.digest \in 0..Len(payload)
  /\ ph \in Holding => SnapshotBound(l)
  /\ ph = "a_item_put" => l.draft \in l.drafts
  /\ ph \in Approving \cup Sending => Accepts(l) \subseteq accepted
  /\ ph = "p_token" /\ l.digest = 0 => Accepts(l) \subseteq accepted
  /\ ph = "e_commit" => /\ l.draft \in Stored
                        /\ l.text \in Bodies
                        /\ lineage[l.draft] = <<>>
                             => l.body[l.draft] = Generated[l.draft]

ProcsKnow == \A p \in Procs : Knows(pc[p], local[p])

IInv == TypeOK /\ Rows /\ ProcsKnow

\* What was ever offered for approval: the generated texts and the edited
\* payloads.
Offered ==
  {Binding(d, Generated[d], 0) : d \in Stored}
  \cup UNION {{Binding(d, payload[n].body[d], n) : d \in payload[n].drafts}
               : n \in 1..Len(payload)}

Contract == INSTANCE PostingContract WITH
  version   <- Len(payload),
  offered   <- Offered,
  approved  <- accepted,
  delivered <- {Binding(c.draft, c.body, c.digest) : c \in remote}

\* The rows, the processes and their stale reads implement the contract.
ContractSpec == Contract!Spec
=============================================================================
