------------------------- MODULE OutboundBatchProofs -------------------------
(***************************************************************************)
(* Proofs about OutboundBatch for every number of drafts, texts,           *)
(* processes, revisions and posts.                                         *)
(***************************************************************************)
EXTENDS OutboundBatch, TLAPS

(* Types.                                                                  *)

LEMMA BlankType == Blank \in Local
BY ConstantsAssumption DEF Blank, Local, States

LEMMA GotoType ==
  ASSUME TypeOK, NEW p \in Procs, NEW ph \in Phases, NEW l,
         ph = "idle" \/ l \in Local, Goto(p, ph, l)
  PROVE  pc' \in [Procs -> Phases] /\ local' \in [Procs -> Local]
BY BlankType DEF TypeOK, Goto

LEMMA SnapshotType ==
  ASSUME TypeOK, NEW l \in Local
  PROVE  Snapshot(l) \in Local
<1>1. [d \in Drafts |-> items[d].body] \in [Drafts -> Bodies]
  BY DEF TypeOK, Item
<1>2. Stored \in SUBSET Drafts
  BY DEF Stored
<1> QED BY <1>1, <1>2 DEF Snapshot, Local

LEMMA TypeInit == Init => TypeOK
<1> SUFFICES ASSUME Init PROVE TypeOK
  OBVIOUS
<1> USE ConstantsAssumption DEF Init
<1>1. batch \in [digest : Nat, state : {"Drafted", "Approved"}]
  OBVIOUS
<1>2. items \in [Drafts -> Item]
  BY DEF Item, States
<1>3. lineage \in [Drafts -> Seq(Bodies)] /\ payload \in Seq(Payload)
  OBVIOUS
<1>4. pc \in [Procs -> Phases] /\ local \in [Procs -> Local]
  BY BlankType DEF Phases
<1> QED BY <1>1, <1>2, <1>3, <1>4 DEF TypeOK

LEMMA ApproveType ==
  ASSUME TypeOK, NEW p \in Procs,
         \/ ApproveLoad(p) \/ ApproveDrafts(p) \/ ApproveToken(p)
         \/ ApproveItemCheck(p) \/ ApproveItem(p) \/ ApproveMintCheck(p)
         \/ ApproveMint(p) \/ ApproveKeepToken(p) \/ ApproveBatchCheck(p)
         \/ ApproveBatch(p)
  PROVE  TypeOK'
<1> DEFINE l == local[p]
<1> USE ConstantsAssumption
<1>l. l \in Local
  BY DEF TypeOK
<1>1. CASE ApproveLoad(p)
  <2>1. PICK surface \in Surfaces : LoadBatch(p, "a_drafts", surface)
    BY <1>1 DEF ApproveLoad
  <2>2. [Blank EXCEPT !.surface = surface, !.digest = batch.digest,
                      !.state = batch.state] \in Local
    BY BlankType DEF Local, TypeOK, States
  <2>3. pc' \in [Procs -> Phases] /\ local' \in [Procs -> Local]
    BY <2>1, <2>2, GotoType DEF LoadBatch, Phases
  <2> QED
    BY <1>1, <2>3 DEF ApproveLoad, TypeOK, db
<1>2. CASE ApproveDrafts(p)
  <2> DEFINE pending == {d \in Stored : items[d].state # "Approved"}
             s == [Snapshot(l) EXCEPT !.todo = pending]
  <2>1. s \in Local
    <3>1. pending \in SUBSET Drafts
      BY DEF Stored
    <3> HIDE DEF pending
    <3> QED BY <1>l, <3>1, SnapshotType DEF Local
  <2>2. pc' \in [Procs -> Phases] /\ local' \in [Procs -> Local]
    <3>1. PICK ph \in {"a_token", "idle"} : Goto(p, ph, s)
      BY <1>2 DEF ApproveDrafts
    <3> QED BY <2>1, <3>1, GotoType DEF Phases
  <2> QED
    BY <1>2, <2>2 DEF ApproveDrafts, TypeOK, db
<1>3. CASE ApproveToken(p)
  <2>1. Accepts(l) \subseteq Acceptance
    BY <1>l DEF Accepts, Acceptance, Local
  <2>2. accepted' \subseteq Acceptance
    BY <1>3, <2>1 DEF ApproveToken, TypeOK
  <2>3. \A mint \in {"none", "fresh", "reissue"} :
          [l EXCEPT !.mint = mint] \in Local
    BY <1>l DEF Local
  <2>4. pc' \in [Procs -> Phases] /\ local' \in [Procs -> Local]
    <3>1. CASE Goto(p, "idle", l)
      BY <3>1, <1>l, GotoType DEF Phases
    <3>2. ASSUME NEW mint \in {"none", "fresh", "reissue"},
                 Goto(p, "a_item", [l EXCEPT !.mint = mint])
          PROVE pc' \in [Procs -> Phases] /\ local' \in [Procs -> Local]
      BY <3>2, <2>3, GotoType DEF Phases
    <3> QED BY <1>3, <3>1, <3>2 DEF ApproveToken
  <2> QED
    BY <1>3, <2>2, <2>4 DEF ApproveToken, TypeOK, db
<1>4. CASE ApproveItemCheck(p)
  <2>1. PICK d \in l.todo, ph \in {"a_item_put", "idle"} :
          Goto(p, ph, [l EXCEPT !.draft = d])
    BY <1>4 DEF ApproveItemCheck
  <2>2. [l EXCEPT !.draft = d] \in Local
    BY <1>l DEF Local
  <2>3. pc' \in [Procs -> Phases] /\ local' \in [Procs -> Local]
    BY <2>1, <2>2, GotoType DEF Phases
  <2> QED
    BY <1>4, <2>3 DEF ApproveItemCheck, TypeOK, db
<1>5. CASE ApproveItem(p)
  <2>1. items' \in [Drafts -> Item]
    BY <1>5 DEF ApproveItem, TypeOK, Item, States
  <2>2. [l EXCEPT !.todo = @ \ {l.draft}, !.draft = NoDraft] \in Local
    BY <1>l DEF Local
  <2>3. pc' \in [Procs -> Phases] /\ local' \in [Procs -> Local]
    BY <1>5, <2>2, GotoType DEF ApproveItem, Phases
  <2> QED
    BY <1>5, <2>1, <2>3 DEF ApproveItem, TypeOK
<1>6. CASE ApproveMintCheck(p)
  <2>1. PICK ph \in {"a_mint_put", "idle"} : Goto(p, ph, l)
    BY <1>6 DEF ApproveMintCheck
  <2>2. pc' \in [Procs -> Phases] /\ local' \in [Procs -> Local]
    BY <1>l, <2>1, GotoType DEF Phases
  <2> QED
    BY <1>6, <2>2 DEF ApproveMintCheck, TypeOK, db
<1>7. CASE ApproveMint(p)
  <2>1. PICK ph \in {"a_batch", "idle"} : Goto(p, ph, l)
    BY <1>7 DEF ApproveMint
  <2>2. pc' \in [Procs -> Phases] /\ local' \in [Procs -> Local]
    BY <1>l, <2>1, GotoType DEF Phases
  <2>3. (IF token = NoToken THEN l.surface ELSE token.surface)
          \in {"cli", "tui"}
    BY <1>l DEF TypeOK, Token, Local
  <2>4. l.digest \in Nat
    BY <1>l DEF Local
  <2>5. token' \in Token \cup {NoToken}
    BY <1>7, <2>3, <2>4 DEF ApproveMint, TypeOK, Token
  <2> QED
    BY <1>7, <2>2, <2>5 DEF ApproveMint, TypeOK
<1>8. CASE ApproveKeepToken(p)
  <2>1. pc' \in [Procs -> Phases] /\ local' \in [Procs -> Local]
    BY <1>8, <1>l, GotoType DEF ApproveKeepToken, Phases
  <2> QED
    BY <1>8, <2>1 DEF ApproveKeepToken, TypeOK, db
<1>9. CASE ApproveBatchCheck(p)
  <2>1. PICK ph \in {"a_batch_put", "idle"} : Goto(p, ph, l)
    BY <1>9 DEF ApproveBatchCheck
  <2>2. pc' \in [Procs -> Phases] /\ local' \in [Procs -> Local]
    BY <1>l, <2>1, GotoType DEF Phases
  <2> QED
    BY <1>9, <2>2 DEF ApproveBatchCheck, TypeOK, db
<1>10. CASE ApproveBatch(p)
  <2>1. pc' \in [Procs -> Phases] /\ local' \in [Procs -> Local]
    BY <1>10, BlankType, GotoType DEF ApproveBatch, Phases
  <2>2. batch' \in [digest : Nat, state : {"Drafted", "Approved"}]
    BY <1>10 DEF ApproveBatch, TypeOK
  <2> QED
    BY <1>10, <2>1, <2>2 DEF ApproveBatch, TypeOK
<1> QED
  BY <1>1, <1>2, <1>3, <1>4, <1>5, <1>6, <1>7, <1>8, <1>9, <1>10

LEMMA EditType ==
  ASSUME TypeOK, NEW p \in Procs, EditRead(p) \/ EditCommit(p),
         Knows(pc[p], local[p])
  PROVE  TypeOK'
<1> DEFINE l == local[p]
           d == l.draft
<1> USE ConstantsAssumption
<1>l. l \in Local
  BY DEF TypeOK
<1>1. CASE EditRead(p)
  <2>1. PICK x \in Stored, b \in Bodies :
          Goto(p, "e_commit", [Blank EXCEPT !.draft = x, !.text = b,
                                            !.body[x] = items[x].body])
    BY <1>1 DEF EditRead
  <2>2. x \in Drafts /\ items[x].body \in Bodies
    BY DEF Stored, TypeOK, Item
  <2>3. [Blank EXCEPT !.draft = x, !.text = b, !.body[x] = items[x].body]
          \in Local
    BY <2>2, BlankType DEF Local
  <2>4. pc' \in [Procs -> Phases] /\ local' \in [Procs -> Local]
    BY <2>1, <2>3, GotoType DEF Phases
  <2> QED
    BY <1>1, <2>4 DEF EditRead, TypeOK, db
<1>2. CASE EditCommit(p)
  <2> DEFINE revised == [x \in Drafts |->
        IF x \notin Stored THEN items[x]
        ELSE [state  |-> IF LiveToken \/ x = d THEN "Drafted"
                         ELSE items[x].state,
              body   |-> IF x = d THEN l.text ELSE items[x].body,
              digest |-> RevisedDigest]]
  <2>1. d \in Drafts /\ l.text \in Bodies
    BY <1>2 DEF EditCommit, Knows, Stored
  <2>2. RevisedDigest \in Nat
    BY DEF RevisedDigest, TypeOK
  <2>3. revised \in [Drafts -> Item]
    BY <2>1, <2>2 DEF TypeOK, Item, States
  <2>4. lineage' \in [Drafts -> Seq(Bodies)]
    <3>1. Seeded(d, l.body[d]) \in Seq(Bodies)
      BY <1>l, <2>1 DEF Seeded, TypeOK, Local
    <3>2. Append(Seeded(d, l.body[d]), l.text) \in Seq(Bodies)
      BY <2>1, <3>1
    <3> QED BY <1>2, <3>2 DEF EditCommit, WithRevision, TypeOK
  <2>5. batch' \in [digest : Nat, state : {"Drafted", "Approved"}]
    BY <1>2, <2>2 DEF EditCommit, TypeOK
  <2>6. token' \in Token \cup {NoToken}
    BY <1>2 DEF EditCommit, RevokedToken, LiveToken, TypeOK, Token
  <2>7. payload' \in Seq(Payload)
    <3>1. [drafts |-> Stored, body |-> [x \in Drafts |-> revised[x].body]]
            \in Payload
      BY <2>3 DEF Payload, Stored, Item
    <3>2. payload' = Append(payload,
            [drafts |-> Stored, body |-> [x \in Drafts |-> revised[x].body]])
      BY <1>2 DEF EditCommit
    <3> QED BY <3>1, <3>2 DEF TypeOK
  <2>8. pc' \in [Procs -> Phases] /\ local' \in [Procs -> Local]
    BY <1>2, BlankType, GotoType DEF EditCommit, Phases
  <2>9. items' \in [Drafts -> Item]
    BY <1>2, <2>3 DEF EditCommit
  <2> QED
    BY <1>2, <2>4, <2>5, <2>6, <2>7, <2>8, <2>9 DEF EditCommit, TypeOK
<1> QED
  BY <1>1, <1>2

LEMMA PostType ==
  ASSUME TypeOK, NEW p \in Procs,
         \/ PostLoad(p) \/ PostDrafts(p) \/ PostToken(p) \/ PostSend(p)
         \/ PostAdapterError(p) \/ PostRecordCheck(p) \/ PostRecord(p)
  PROVE  TypeOK'
<1> DEFINE l == local[p]
<1> USE ConstantsAssumption
<1>l. l \in Local
  BY DEF TypeOK
<1>1. CASE PostLoad(p)
  <2>1. [Blank EXCEPT !.surface = "cli", !.digest = batch.digest,
                      !.state = batch.state] \in Local
    BY BlankType DEF Local, TypeOK, States
  <2>2. pc' \in [Procs -> Phases] /\ local' \in [Procs -> Local]
    BY <1>1, <2>1, GotoType DEF PostLoad, LoadBatch, Phases
  <2> QED
    BY <1>1, <2>2 DEF PostLoad, TypeOK, db
<1>2. CASE PostDrafts(p)
  <2> DEFINE s == [Snapshot(l) EXCEPT !.todo = Stored]
  <2>1. s \in Local
    <3>1. Stored \in SUBSET Drafts
      BY DEF Stored
    <3> QED BY <1>l, <3>1, SnapshotType DEF Local
  <2>2. pc' \in [Procs -> Phases] /\ local' \in [Procs -> Local]
    <3>1. PICK ph \in {"p_token", "idle"} : Goto(p, ph, s)
      BY <1>2 DEF PostDrafts
    <3> QED BY <2>1, <3>1, GotoType DEF Phases
  <2> QED
    BY <1>2, <2>2 DEF PostDrafts, TypeOK, db
<1>3. CASE PostToken(p)
  <2>1. posts' \in Nat
    BY <1>3 DEF PostToken, TypeOK
  <2>2. [l EXCEPT !.post = posts + 1] \in Local
    <3>1. posts + 1 \in Nat
      BY DEF TypeOK
    <3> QED BY <1>l, <3>1 DEF Local
  <2>3. PICK ph \in {"p_send", "idle"} :
          Goto(p, ph, [l EXCEPT !.post = posts + 1])
    BY <1>3 DEF PostToken
  <2>4. pc' \in [Procs -> Phases] /\ local' \in [Procs -> Local]
    BY <2>2, <2>3, GotoType DEF Phases
  <2> QED
    BY <1>3, <2>1, <2>4 DEF PostToken, TypeOK, db
<1>4. CASE PostSend(p)
  <2>1. PICK d \in l.todo, outcome \in {"posted", "failed", "ambiguous"} :
          /\ remote' = IF outcome = "failed" THEN remote
                       ELSE remote \cup {[draft |-> d, body |-> l.body[d],
                                          digest |-> l.digest, post |-> l.post]}
          /\ Goto(p, IF l.todo = {d} THEN "p_record" ELSE "p_send",
                  [l EXCEPT !.todo = @ \ {d},
                            !.done = IF outcome = "posted" THEN @ \cup {d}
                                     ELSE @])
    BY <1>4 DEF PostSend
  <2>2. d \in Drafts
    BY <1>l DEF Local
  <2>3. [draft |-> d, body |-> l.body[d], digest |-> l.digest,
         post |-> l.post] \in Comment
    BY <1>l, <2>2 DEF Local, Comment
  <2>4. remote' \subseteq Comment
    BY <2>1, <2>3 DEF TypeOK
  <2>5. [l EXCEPT !.todo = @ \ {d},
                  !.done = IF outcome = "posted" THEN @ \cup {d} ELSE @]
          \in Local
    BY <1>l, <2>2 DEF Local
  <2>6. pc' \in [Procs -> Phases] /\ local' \in [Procs -> Local]
    <3>1. PICK ph \in {"p_record", "p_send"} :
            Goto(p, ph, [l EXCEPT !.todo = @ \ {d},
                                  !.done = IF outcome = "posted"
                                           THEN @ \cup {d} ELSE @])
      BY <2>1
    <3> QED BY <2>5, <3>1, GotoType DEF Phases
  <2> QED
    BY <1>4, <2>4, <2>6 DEF PostSend, TypeOK, db
<1>5. CASE PostAdapterError(p)
  <2>1. [l EXCEPT !.todo = {}, !.done = {}] \in Local
    BY <1>l DEF Local
  <2>2. pc' \in [Procs -> Phases] /\ local' \in [Procs -> Local]
    BY <1>5, <2>1, GotoType DEF PostAdapterError, Phases
  <2> QED
    BY <1>5, <2>2 DEF PostAdapterError, TypeOK, db
<1>6. CASE PostRecordCheck(p)
  <2>1. PICK ph \in {"p_record_put", "idle"} : Goto(p, ph, l)
    BY <1>6 DEF PostRecordCheck
  <2>2. pc' \in [Procs -> Phases] /\ local' \in [Procs -> Local]
    BY <1>l, <2>1, GotoType DEF Phases
  <2> QED
    BY <1>6, <2>2 DEF PostRecordCheck, TypeOK, db
<1>7. CASE PostRecord(p)
  <2>1. [id |-> l.post, digest |-> l.digest, status |-> Outcome(l)] \in Action
    BY <1>l DEF Local, Action, Outcome, Statuses
  <2>2. posted' \subseteq Action
    BY <1>7, <2>1 DEF PostRecord, TypeOK
  <2>3. pc' \in [Procs -> Phases] /\ local' \in [Procs -> Local]
    BY <1>7, <1>l, GotoType DEF PostRecord, Phases
  <2> QED
    BY <1>7, <2>2, <2>3 DEF PostRecord, TypeOK
<1> QED
  BY <1>1, <1>2, <1>3, <1>4, <1>5, <1>6, <1>7

LEMMA EnvironmentType ==
  ASSUME TypeOK, Materialize \/ Supersede \/ (\E p \in Procs : Crash(p))
  PROVE  TypeOK'
<1> USE ConstantsAssumption
<1>1. ASSUME NEW d \in Drafts, MaterializeCheck(d)
      PROVE  TypeOK'
  BY <1>1 DEF MaterializeCheck, TypeOK, db
<1>2. CASE MaterializeInsert
  <2>1. inserting \in Drafts
    BY <1>2 DEF MaterializeInsert, TypeOK
  <2>2. items' \in [Drafts -> Item]
    BY <1>2, <2>1 DEF MaterializeInsert, TypeOK, Item, States
  <2> QED
    BY <1>2, <2>2 DEF MaterializeInsert, TypeOK
<1>3. CASE Supersede
  BY <1>3 DEF Supersede, TypeOK, db
<1>4. ASSUME NEW p \in Procs, Crash(p)
      PROVE  TypeOK'
  <2>1. pc' \in [Procs -> Phases] /\ local' \in [Procs -> Local]
    BY <1>4, BlankType, GotoType DEF Crash, Phases
  <2> QED
    BY <1>4, <2>1 DEF Crash, TypeOK, db
<1> QED
  BY <1>1, <1>2, <1>3, <1>4 DEF Materialize
-----------------------------------------------------------------------------
(* The rows and the history.                                               *)

\* A step that leaves the rows, the history and GitHub alone.
LEMMA RowsKept ==
  ASSUME Rows, UNCHANGED <<batch, items, token, lineage, inserting, remote,
                           payload, accepted>>
  PROVE  Rows'
BY DEF Rows, RowsBound, LineageBound, OriginalPreserved, AcceptedBound,
       AcceptedWhole, TokenAccepted, UneditedAccepted, PostedWasApproved,
       Text, Binding, Stored

\* What a process knows stays true while no row and no payload changes.
LEMMA KnowledgeKept ==
  ASSUME UNCHANGED <<items, lineage, payload>>, accepted \subseteq accepted',
         NEW ph, NEW l, Knows(ph, l)
  PROVE  Knows(ph, l)'
BY DEF Knows, SnapshotBound, Accepts, Text, Stored

\* After a step of p the others know what they knew, and p what it needs.
LEMMA GotoKnows ==
  ASSUME TypeOK, ProcsKnow, NEW p \in Procs, NEW ph, NEW l,
         Goto(p, ph, l),
         ph = "idle" \/ Knows(ph, l)',
         \A ph2, l2 : Knows(ph2, l2) => Knows(ph2, l2)'
  PROVE  ProcsKnow'
<1> SUFFICES ASSUME NEW q \in Procs
             PROVE  Knows(pc[q], local[q])'
  BY DEF ProcsKnow
<1>1. CASE q = p
  <2>1. pc'[q] = ph /\ (ph # "idle" => local'[q] = l)
    BY <1>1 DEF Goto, TypeOK
  <2> QED
    BY <2>1 DEF Knows, Holding, Approving, Sending
<1>2. CASE q # p
  <2>1. pc'[q] = pc[q] /\ local'[q] = local[q]
    BY <1>2 DEF Goto, TypeOK
  <2>2. Knows(pc[q], local[q])
    BY DEF ProcsKnow
  <2> QED
    BY <2>1, <2>2
<1> QED BY <1>1, <1>2
\* A step that only moves p, to where it knows what it needs.
LEMMA MoveKnows ==
  ASSUME TypeOK, Rows, ProcsKnow,
         UNCHANGED <<batch, items, token, lineage, inserting, remote, payload,
                     accepted>>,
         NEW p \in Procs, NEW ph, NEW l, Goto(p, ph, l),
         ph = "idle" \/ Knows(ph, l)
  PROVE  Rows' /\ ProcsKnow'
<1>1. \A ph2, l2 : Knows(ph2, l2) => Knows(ph2, l2)'
  BY KnowledgeKept
<1> QED BY <1>1, RowsKept, GotoKnows

\* Linked rows make a snapshot that carries what its digest stands for.
LEMMA LinkedSnapshot ==
  ASSUME TypeOK, RowsBound, NEW l \in Local, Linked(l),
         l.digest \in 0..Len(payload), NEW todo \in SUBSET Stored
  PROVE  SnapshotBound([Snapshot(l) EXCEPT !.todo = todo])
<1> DEFINE s == [Snapshot(l) EXCEPT !.todo = todo]
<1>1. /\ s.digest = l.digest /\ s.drafts = Stored /\ s.todo = todo
      /\ s.body = [d \in Drafts |-> items[d].body]
  BY DEF Snapshot, Local
<1>2. \A d \in Stored : s.body[d] = Text(d, l.digest)
  BY <1>1 DEF RowsBound, Linked, Stored
<1>3. l.digest > 0 => Stored = payload[l.digest].drafts
  <2> SUFFICES ASSUME l.digest > 0
               PROVE  Stored = payload[l.digest].drafts
    OBVIOUS
  <2>1. Stored \subseteq payload[l.digest].drafts
    BY DEF RowsBound, Linked
  <2>2. l.digest \in 1..Len(payload)
    BY DEF TypeOK
  <2> QED BY <2>1, <2>2 DEF RowsBound
<1> HIDE DEF s
<1>4. SnapshotBound(s)
  BY <1>1, <1>2, <1>3 DEF SnapshotBound, Linked
<1> QED BY <1>4 DEF s

\* A whole accepted payload covers every snapshot of it.
LEMMA WholeAccepted ==
  ASSUME NEW l, SnapshotBound(l), l.digest > 0, AcceptedWhole(l.digest)
  PROVE  Accepts(l) \subseteq accepted
<1>0. l.drafts = payload[l.digest].drafts
  BY Zenon DEF SnapshotBound
<1> SUFFICES ASSUME NEW d \in l.drafts
             PROVE  Binding(d, l.body[d], l.digest) \in accepted
  BY DEF Accepts, Binding
<1>1. d \in payload[l.digest].drafts /\ l.body[d] = Text(d, l.digest)
  BY <1>0, Zenon DEF SnapshotBound
<1> QED BY <1>1 DEF AcceptedWhole

-----------------------------------------------------------------------------
(* The steps.                                                              *)

LEMMA ApproveReadsKnow ==
  ASSUME IInv, NEW p \in Procs,
         \/ ApproveLoad(p) \/ ApproveDrafts(p) \/ ApproveItemCheck(p)
         \/ ApproveMintCheck(p) \/ ApproveKeepToken(p)
         \/ ApproveBatchCheck(p)
  PROVE  Rows' /\ ProcsKnow'
<1> DEFINE l == local[p]
<1>l. l \in Local /\ Knows(pc[p], l)
  BY DEF IInv, TypeOK, ProcsKnow
<1> USE DEF IInv, db
<1>1. CASE ApproveLoad(p)
  <2>1. PICK surface \in Surfaces : LoadBatch(p, "a_drafts", surface)
    BY <1>1 DEF ApproveLoad
  <2> DEFINE s == [Blank EXCEPT !.surface = surface, !.digest = batch.digest,
                                !.state = batch.state]
  <2>2. s.digest = batch.digest
    BY DEF Blank
  <2>3. batch.digest \in 0..Len(payload)
    BY DEF Rows, RowsBound, TypeOK
  <2>4. Knows("a_drafts", s)
    BY <2>2, <2>3 DEF Knows, Holding, Approving, Sending
  <2> QED BY <1>1, <2>1, <2>4, MoveKnows DEF ApproveLoad, LoadBatch
<1>2. CASE ApproveDrafts(p)
  <2> DEFINE pending == {d \in Stored : items[d].state # "Approved"}
             s == [Snapshot(l) EXCEPT !.todo = pending]
             ok == Linked(l) /\ (l.surface = "tui" => NoPostedAction)
             ph == IF ok THEN "a_token" ELSE "idle"
  <2>1. pc[p] = "a_drafts" /\ Goto(p, ph, s)
    BY <1>2 DEF ApproveDrafts
  <2>2. l.digest \in 0..Len(payload)
    BY <1>l, <2>1 DEF Knows
  <2>3. Linked(l) => SnapshotBound(s)
    BY <1>l, <2>2, LinkedSnapshot DEF Rows
  <2>4. ph = "idle" \/ Knows(ph, s)
    BY <2>3 DEF Knows, Holding, Approving, Sending
  <2> HIDE DEF s, ph
  <2> QED BY <1>2, <2>1, <2>4, MoveKnows DEF ApproveDrafts
<1>3. CASE ApproveItemCheck(p)
  <2>1. PICK d \in l.todo, ph \in {"a_item_put", "idle"} :
          Goto(p, ph, [l EXCEPT !.draft = d])
    BY <1>3 DEF ApproveItemCheck
  <2> DEFINE s == [l EXCEPT !.draft = d]
  <2>2. SnapshotBound(l) /\ Accepts(l) \subseteq accepted
    BY <1>3, <1>l DEF ApproveItemCheck, Knows, Holding, Approving
  <2>3. /\ s.digest = l.digest /\ s.drafts = l.drafts /\ s.todo = l.todo
        /\ s.body = l.body /\ s.draft = d
    BY <1>l DEF Local
  <2> HIDE DEF s
  <2>4. SnapshotBound(s) /\ Accepts(s) \subseteq accepted
    BY <2>2, <2>3 DEF SnapshotBound, Accepts
  <2>5. d \in s.drafts
    BY <2>2, <2>3 DEF SnapshotBound
  <2>6. Knows("a_item_put", s)
    BY <2>3, <2>4, <2>5 DEF Knows, Holding, Approving, Sending
  <2> USE DEF s
  <2> QED BY <1>3, <2>1, <2>6, MoveKnows DEF ApproveItemCheck
<1>4. CASE ApproveMintCheck(p)
  <2>1. PICK ph \in {"a_mint_put", "idle"} : Goto(p, ph, l)
    BY <1>4 DEF ApproveMintCheck
  <2>2. Knows("a_mint_put", l)
    BY <1>4, <1>l DEF ApproveMintCheck, Knows, Holding, Approving, Sending
  <2> QED BY <1>4, <2>1, <2>2, MoveKnows DEF ApproveMintCheck
<1>5. CASE ApproveKeepToken(p)
  <2>1. Knows("a_batch", l)
    BY <1>5, <1>l DEF ApproveKeepToken, Knows, Holding, Approving, Sending
  <2> QED BY <1>5, <2>1, MoveKnows DEF ApproveKeepToken
<1>6. CASE ApproveBatchCheck(p)
  <2>1. PICK ph \in {"a_batch_put", "idle"} : Goto(p, ph, l)
    BY <1>6 DEF ApproveBatchCheck
  <2>2. Knows("a_batch_put", l)
    BY <1>6, <1>l DEF ApproveBatchCheck, Knows, Holding, Approving, Sending
  <2> QED BY <1>6, <2>1, <2>2, MoveKnows DEF ApproveBatchCheck
<1> QED
  BY <1>1, <1>2, <1>3, <1>4, <1>5, <1>6
\* The step that gives an approval.
LEMMA ApproveTokenKnows ==
  ASSUME IInv, NEW p \in Procs, ApproveToken(p)
  PROVE  Rows' /\ ProcsKnow'
<1>0. PICK l : l = local[p] \* l is p's local state before the step
  OBVIOUS
<1> USE DEF IInv, db
<1>1. pc[p] = "a_token" /\ l \in Local
  BY <1>0 DEF ApproveToken, TypeOK
<1>2. SnapshotBound(l)
  BY <1>0, <1>1 DEF ProcsKnow, Knows, Holding
<1>3. CASE Goto(p, "idle", l) /\ UNCHANGED accepted
  BY <1>3, MoveKnows DEF ApproveToken
<1>4. ASSUME NEW mint \in {"none", "fresh", "reissue"},
             Goto(p, "a_item", [l EXCEPT !.mint = mint]),
             accepted' = accepted \cup Accepts(l)
      PROVE  Rows' /\ ProcsKnow'
  <2> DEFINE s == [l EXCEPT !.mint = mint]
  <2>u. UNCHANGED <<batch, items, token, lineage, inserting, remote, payload>>
    BY DEF ApproveToken
  <2>1. /\ s.digest = l.digest /\ s.drafts = l.drafts /\ s.todo = l.todo
        /\ s.body = l.body
    BY <1>1 DEF Local
  <2> HIDE DEF s
  <2>2. SnapshotBound(s)' /\ Accepts(s)' \subseteq accepted'
    BY <1>2, <1>4, <2>1, <2>u DEF SnapshotBound, Accepts, Stored, Text
  <2>3. Knows("a_item", s)'
    BY <2>2 DEF Knows, Holding, Approving, Sending
  <2>4. ProcsKnow'
    <3>1. \A ph2, l2 : Knows(ph2, l2) => Knows(ph2, l2)'
      BY <1>4, <2>u, KnowledgeKept
    <3> QED BY <1>4, <2>3, <3>1, GotoKnows DEF s
  <2>5. AcceptedBound'
    <3> SUFFICES ASSUME NEW a \in accepted'
                 PROVE  /\ a.digest \in 0..Len(payload)
                        /\ a.digest > 0 => AcceptedWhole(a.digest)'
      BY <2>u DEF AcceptedBound
    <3>1. CASE a \in accepted
      BY <1>4, <2>u, <3>1 DEF Rows, AcceptedBound, AcceptedWhole, Text, Binding
    <3>2. CASE a \in Accepts(l)
      <4>1. a.digest = l.digest
        BY <3>2 DEF Accepts
      <4>2. l.digest \in 0..Len(payload)
        BY <1>2 DEF SnapshotBound
      <4>3. ASSUME l.digest > 0
            PROVE  AcceptedWhole(l.digest)'
        <5>1. l.drafts = payload[l.digest].drafts
          BY <1>2, <4>3, Zenon DEF SnapshotBound
        <5>2. \A d \in l.drafts : l.body[d] = Text(d, l.digest)
          BY <1>2 DEF SnapshotBound
        <5>3. \A d \in l.drafts : Binding(d, l.body[d], l.digest) \in accepted'
          BY <1>4 DEF Accepts, Binding
        <5> QED
          BY <2>u, <5>1, <5>2, <5>3, Zenon DEF AcceptedWhole, Text, Binding
      <4> QED BY <4>1, <4>2, <4>3
    <3> QED BY <1>4, <3>1, <3>2
  <2>6. Rows'
    BY <1>4, <2>u, <2>5
    DEF Rows, RowsBound, LineageBound, OriginalPreserved, TokenAccepted,
        UneditedAccepted, PostedWasApproved, Text, Binding, Stored
  <2> QED BY <2>4, <2>6
<1> QED
  BY <1>0, <1>3, <1>4 DEF ApproveToken

\* The writes of an approval.
LEMMA ApproveWritesKnow ==
  ASSUME IInv, NEW p \in Procs,
         ApproveItem(p) \/ ApproveMint(p) \/ ApproveBatch(p)
  PROVE  Rows' /\ ProcsKnow'
<1> DEFINE l == local[p]
<1> USE DEF IInv
<1>l. l \in Local /\ Knows(pc[p], l)
  BY DEF TypeOK, ProcsKnow
<1>1. CASE ApproveItem(p)
  <2> DEFINE s == [l EXCEPT !.todo = @ \ {l.draft}, !.draft = NoDraft]
  <2>0. UNCHANGED <<batch, token, lineage, inserting, remote, payload,
                    accepted>>
    BY <1>1 DEF ApproveItem
  <2>1. /\ SnapshotBound(l)
        /\ Accepts(l) \subseteq accepted
        /\ l.draft \in l.drafts
    BY <1>1, <1>l DEF ApproveItem, Knows, Holding, Approving
  <2>2. l.draft \in Stored /\ l.draft \in Drafts
    BY <2>1 DEF SnapshotBound, Stored
  <2>3. /\ items' = [items EXCEPT ![l.draft].state = "Approved"]
        /\ Goto(p, "a_item", s)
    BY <1>1 DEF ApproveItem
  <2>4. /\ \A d \in Drafts : /\ items'[d].body = items[d].body
                             /\ items'[d].digest = items[d].digest
                             /\ d # l.draft => items'[d] = items[d]
        /\ Stored' = Stored
    BY <2>2, <2>3 DEF TypeOK, Item, Stored
  <2>5. ProcsKnow'
    <3>1. \A ph2, l2 : Knows(ph2, l2) => Knows(ph2, l2)'
      <4> SUFFICES ASSUME NEW ph2, NEW l2, Knows(ph2, l2)
                   PROVE  Knows(ph2, l2)'
        OBVIOUS
      <4>1. SnapshotBound(l2) => SnapshotBound(l2)'
        BY <2>0, <2>4 DEF SnapshotBound, Text, Stored
      <4> QED BY <2>0, <2>4, <4>1 DEF Knows, Accepts
    <3>2. /\ s.digest = l.digest /\ s.drafts = l.drafts /\ s.body = l.body
          /\ s.todo \subseteq l.todo
      BY <1>l DEF Local
    <3> HIDE DEF s
    <3>3. SnapshotBound(s) /\ Accepts(s) \subseteq accepted
      BY <2>1, <3>2 DEF SnapshotBound, Accepts
    <3>4. Knows("a_item", s)
      BY <3>3 DEF Knows, Holding, Approving, Sending
    <3> QED BY <2>3, <3>1, <3>4, GotoKnows
  <2>6. UneditedAccepted'
    <3> SUFFICES ASSUME NEW d \in Stored, items'[d].state = "Approved",
                        items'[d].digest = 0
                 PROVE  Binding(d, Generated[d], 0) \in accepted
      BY <2>0, <2>4 DEF UneditedAccepted
    <3>1. CASE d # l.draft
      BY <2>4, <3>1 DEF Rows, UneditedAccepted, Stored
    <3>2. CASE d = l.draft
      <4>1. l.digest = 0 /\ l.body[d] = Generated[d]
        BY <2>1, <2>4, <3>2 DEF SnapshotBound, Stored, Text
      <4> QED BY <2>1, <3>2, <4>1 DEF Accepts, Binding
    <3> QED BY <3>1, <3>2
  <2>7. RowsBound'
    BY <2>0, <2>4 DEF Rows, RowsBound, Text, Stored
  <2>8. LineageBound' /\ OriginalPreserved'
    BY <2>0, <2>4 DEF Rows, LineageBound, OriginalPreserved
  <2>9. AcceptedBound' /\ TokenAccepted' /\ PostedWasApproved'
    BY <2>0 DEF Rows, AcceptedBound, AcceptedWhole, TokenAccepted,
                PostedWasApproved, Text, Binding
  <2> QED
    BY <2>5, <2>6, <2>7, <2>8, <2>9 DEF Rows
<1>2. CASE ApproveMint(p)
  <2>0. UNCHANGED <<batch, items, lineage, inserting, remote, payload,
                    accepted>>
    BY <1>2 DEF ApproveMint
  <2>1. SnapshotBound(l) /\ Accepts(l) \subseteq accepted
    BY <1>2, <1>l DEF ApproveMint, Knows, Holding, Approving
  <2>2. PICK ph \in {"a_batch", "idle"} : Goto(p, ph, l)
    BY <1>2 DEF ApproveMint
  <2>3. ProcsKnow'
    <3>1. \A ph2, l2 : Knows(ph2, l2) => Knows(ph2, l2)'
      BY <2>0, KnowledgeKept
    <3>2. Knows("a_batch", l)
      BY <2>1 DEF Knows, Holding, Approving, Sending
    <3> QED BY <2>2, <3>1, <3>2, GotoKnows
  <2>4. TokenAccepted'
    <3>1. PICK d : d \in l.drafts
      BY <2>1 DEF SnapshotBound
    <3>2. Binding(d, l.body[d], l.digest) \in accepted
      BY <2>1, <3>1 DEF Accepts, Binding
    <3>3. \E a \in accepted : a.digest = l.digest
      BY <3>2 DEF Binding
    <3>4. token' = token \/ token'.digest = l.digest
      BY <1>2 DEF ApproveMint
    <3> QED BY <2>0, <3>3, <3>4 DEF Rows, TokenAccepted
  <2>5. Rows'
    BY <2>0, <2>4
    DEF Rows, RowsBound, LineageBound, OriginalPreserved, AcceptedBound,
        AcceptedWhole, UneditedAccepted, PostedWasApproved, Text, Binding,
        Stored
  <2> QED BY <2>3, <2>5
<1>3. CASE ApproveBatch(p)
  <2>0. /\ UNCHANGED <<items, token, lineage, inserting, remote, payload,
                       accepted>>
        /\ batch'.digest = batch.digest
        /\ Goto(p, "idle", Blank)
    BY <1>3 DEF ApproveBatch, TypeOK
  <2>1. ProcsKnow'
    <3>1. \A ph2, l2 : Knows(ph2, l2) => Knows(ph2, l2)'
      BY <2>0, KnowledgeKept
    <3> QED BY <2>0, <3>1, GotoKnows
  <2>2. Rows'
    BY <2>0
    DEF Rows, RowsBound, LineageBound, OriginalPreserved, AcceptedBound,
        AcceptedWhole, TokenAccepted, UneditedAccepted, PostedWasApproved,
        Text, Binding, Stored
  <2> QED BY <2>1, <2>2
<1> QED
  BY <1>1, <1>2, <1>3
LEMMA EditReadKnows ==
  ASSUME IInv, NEW p \in Procs, EditRead(p)
  PROVE  Rows' /\ ProcsKnow'
<1> USE DEF IInv, db
<1>1. PICK d \in Stored, b \in Bodies :
        Goto(p, "e_commit", [Blank EXCEPT !.draft = d, !.text = b,
                                          !.body[d] = items[d].body])
  BY DEF EditRead
<1> DEFINE s == [Blank EXCEPT !.draft = d, !.text = b,
                              !.body[d] = items[d].body]
<1>2. d \in Drafts
  BY DEF Stored
<1>3. s.draft = d /\ s.text = b /\ s.body[d] = items[d].body
  BY <1>2, ConstantsAssumption DEF Blank
<1>4. lineage[d] = <<>> => items[d].body = Generated[d]
  BY <1>2 DEF Rows, LineageBound
<1> HIDE DEF s
<1>5. Knows("e_commit", s)
  BY <1>3, <1>4 DEF Knows, Holding, Approving, Sending
<1> USE DEF s
<1> QED
  BY <1>1, <1>5, MoveKnows DEF EditRead

\* The revision: the new digest is bound to the text of every stored row, and
\* no earlier payload or acceptance is touched.
LEMMA EditCommitKnows ==
  ASSUME IInv, NEW p \in Procs, EditCommit(p)
  PROVE  Rows' /\ ProcsKnow'
<1>0. PICK l : l = local[p]
  OBVIOUS
<1>n. PICK n : n = Len(payload) + 1
  OBVIOUS
<1>d. PICK d : d = l.draft
  OBVIOUS
<1> USE DEF IInv
<1>1. /\ l \in Local /\ d \in Stored /\ d \in Drafts
      /\ lineage[d] = <<>> => l.body[d] = Generated[d]
  BY <1>0, <1>d DEF EditCommit, TypeOK, ProcsKnow, Knows, Stored
<1>2. /\ n \in Nat /\ n > 0 /\ Len(payload) \in Nat
      /\ batch'.digest = n
      /\ UNCHANGED <<inserting, remote, accepted>>
      /\ Goto(p, "idle", Blank)
  BY <1>n DEF EditCommit, RevisedDigest, TypeOK
<1>3. /\ Stored' = Stored
      /\ \A x \in Stored : items'[x].digest = n
      /\ \A x \in Drafts : x # d => items'[x].body = items[x].body
      /\ items'[d].body = l.text
  BY <1>0, <1>n, <1>d, <1>1 DEF EditCommit, Stored, RevisedDigest
<1>4. /\ Len(payload') = n
      /\ \A m \in 1..Len(payload) : payload'[m] = payload[m]
      /\ payload'[n].drafts = Stored
      /\ \A x \in Drafts : payload'[n].body[x] = items'[x].body
  <2> DEFINE new == [drafts |-> Stored,
                     body |-> [x \in Drafts |-> items'[x].body]]
  <2>1. payload' = Append(payload, new)
    BY DEF EditCommit
  <2>2. payload \in Seq(Payload)
    BY DEF TypeOK
  <2> HIDE DEF new
  <2>3. /\ Len(payload') = n
        /\ \A m \in 1..Len(payload) : payload'[m] = payload[m]
        /\ payload'[n] = new
    BY <1>n, <2>1, <2>2
  <2> USE DEF new
  <2> QED BY <2>3
<1>5. \A x \in Drafts, m \in 0..Len(payload) : Text(x, m)' = Text(x, m)
  BY <1>4 DEF Text
<1>6. lineage' = [lineage EXCEPT ![d] = Append(Seeded(d, l.body[d]), l.text)]
  BY <1>0, <1>d DEF EditCommit, WithRevision
<1>7. \A x \in Drafts : x # d => lineage'[x] = lineage[x]
  BY <1>6 DEF TypeOK
<1>8. /\ lineage'[d] # <<>>
      /\ Head(lineage'[d]) = Generated[d]
      /\ lineage'[d][Len(lineage'[d])] = l.text
  <2> DEFINE old == Seeded(d, l.body[d])
  <2>1. old \in Seq(Bodies) /\ old # <<>> /\ Head(old) = Generated[d]
    BY <1>1, ConstantsAssumption
    DEF Rows, OriginalPreserved, Seeded, TypeOK, Local
  <2>2. lineage'[d] = Append(old, l.text) /\ l.text \in Bodies
    BY <1>0, <1>1, <1>6 DEF EditCommit, ProcsKnow, Knows, TypeOK
  <2> HIDE DEF old
  <2> QED BY <2>1, <2>2
<1>9. RowsBound'
  <2>1. \A m \in 1..Len(payload') : payload'[m].drafts \subseteq Stored'
    BY <1>n, <1>2, <1>3, <1>4 DEF Rows, RowsBound
  <2>2. \A x \in Stored' : items'[x].body = Text(x, n)'
    BY <1>2, <1>4 DEF Text, Stored
  <2> QED
    BY <1>2, <1>3, <1>4, <2>1, <2>2 DEF Rows, RowsBound
<1>10. LineageBound' /\ OriginalPreserved'
  BY <1>1, <1>3, <1>7, <1>8 DEF Rows, LineageBound, OriginalPreserved
<1>11. AcceptedBound'
  <2> SUFFICES ASSUME NEW a \in accepted
               PROVE  /\ a.digest \in 0..n
                      /\ a.digest > 0 => AcceptedWhole(a.digest)'
    BY <1>2, <1>4 DEF AcceptedBound
  <2>1. a.digest \in 0..Len(payload)
    BY DEF Rows, AcceptedBound
  <2>2. ASSUME a.digest > 0
        PROVE  AcceptedWhole(a.digest)'
    <3>1. a.digest \in 1..Len(payload) /\ AcceptedWhole(a.digest)
      BY <2>1, <2>2 DEF Rows, AcceptedBound
    <3>2. payload'[a.digest] = payload[a.digest]
      BY <1>4, <3>1
    <3> QED
      BY <1>2, <3>1, <3>2 DEF AcceptedWhole, Text, Binding
  <2> QED BY <1>n, <1>2, <2>1, <2>2
<1>12. TokenAccepted' /\ UneditedAccepted' /\ PostedWasApproved'
  <2>1. token' # NoToken => token # NoToken /\ token'.digest = token.digest
    BY DEF EditCommit, RevokedToken, LiveToken, TypeOK, Token
  <2> QED
    BY <1>2, <1>3, <2>1
    DEF Rows, TokenAccepted, UneditedAccepted, PostedWasApproved, Binding
<1>13. ProcsKnow'
  <2>1. ASSUME NEW ph, NEW k, Knows(ph, k)
        PROVE  Knows(ph, k)'
    <3>1. ASSUME SnapshotBound(k)
          PROVE  SnapshotBound(k)'
      <4>1. k.digest \in 0..Len(payload) /\ k.digest \in 0..Len(payload')
        BY <1>n, <1>2, <1>4, <3>1 DEF SnapshotBound
      <4>2. k.drafts \subseteq Drafts
        BY <3>1 DEF SnapshotBound, Stored
      <4>3. \A x \in k.drafts : k.body[x] = Text(x, k.digest)'
        BY <1>5, <3>1, <4>1, <4>2 DEF SnapshotBound
      <4>4. \A x \in k.drafts : items'[x].digest # 0
        BY <1>2, <1>3, <3>1 DEF SnapshotBound
      <4>5. k.digest > 0 => k.drafts = payload'[k.digest].drafts
        BY <1>4, <3>1, <4>1 DEF SnapshotBound
      <4> QED
        BY <1>3, <3>1, <4>1, <4>3, <4>4, <4>5 DEF SnapshotBound
    <3>2. k.digest \in 0..Len(payload) => k.digest \in 0..Len(payload')
      BY <1>n, <1>2, <1>4
    <3>3. ph = "e_commit" =>
            /\ k.draft \in Stored'
            /\ k.text \in Bodies
            /\ lineage'[k.draft] = <<>> => k.body[k.draft] = Generated[k.draft]
      BY <1>3, <1>7, <1>8, <2>1 DEF Knows, Stored
    <3> QED
      BY <1>2, <2>1, <3>1, <3>2, <3>3 DEF Knows, Accepts
  <2> QED
    BY <1>2, <2>1, GotoKnows
<1> QED
  BY <1>9, <1>10, <1>11, <1>12, <1>13 DEF Rows
\* A poster's snapshot is of one digest, and when it gets past the token
\* check every text of the snapshot was accepted under that digest.
LEMMA PostReadsKnow ==
  ASSUME IInv, NEW p \in Procs,
         \/ PostLoad(p) \/ PostDrafts(p) \/ PostToken(p)
         \/ PostAdapterError(p) \/ PostRecordCheck(p) \/ PostRecord(p)
  PROVE  Rows' /\ ProcsKnow'
<1> DEFINE l == local[p]
<1>l. l \in Local /\ Knows(pc[p], l)
  BY DEF IInv, TypeOK, ProcsKnow
<1> USE DEF IInv, db
<1>1. CASE PostLoad(p)
  <2> DEFINE s == [Blank EXCEPT !.surface = "cli", !.digest = batch.digest,
                                !.state = batch.state]
  <2>1. s.digest = batch.digest
    BY DEF Blank
  <2>2. batch.digest \in 0..Len(payload)
    BY DEF Rows, RowsBound, TypeOK
  <2>3. Knows("p_drafts", s)
    BY <2>1, <2>2 DEF Knows, Holding, Approving, Sending
  <2> QED BY <1>1, <2>3, MoveKnows DEF PostLoad, LoadBatch
<1>2. CASE PostDrafts(p)
  <2> DEFINE s == [Snapshot(l) EXCEPT !.todo = Stored]
             ph == IF ReadyToPost(l) THEN "p_token" ELSE "idle"
  <2>1. pc[p] = "p_drafts" /\ Goto(p, ph, s)
    BY <1>2 DEF PostDrafts
  <2>2. l.digest \in 0..Len(payload)
    BY <1>l, <2>1 DEF Knows
  <2>3. ASSUME ReadyToPost(l)
        PROVE  Knows("p_token", s)
    <3>1. SnapshotBound(s)
      BY <1>l, <2>2, <2>3, LinkedSnapshot DEF Rows, ReadyToPost
    <3>2. /\ s.digest = l.digest /\ s.drafts = Stored
          /\ s.body = [d \in Drafts |-> items[d].body]
      BY <1>l DEF Snapshot, Local
    <3> HIDE DEF s
    <3>3. ASSUME s.digest = 0
          PROVE  Accepts(s) \subseteq accepted
      <4> SUFFICES ASSUME NEW d \in Stored
                   PROVE  Binding(d, s.body[d], 0) \in accepted
        BY <3>2, <3>3 DEF Accepts, Binding
      <4>1. items[d].state = "Approved" /\ items[d].digest = 0
        BY <2>3, <3>2, <3>3 DEF ReadyToPost, Linked
      <4>2. Binding(d, Generated[d], 0) \in accepted
        BY <4>1 DEF Rows, UneditedAccepted
      <4>3. s.body[d] = Generated[d]
        BY <3>1, <3>2, <3>3 DEF SnapshotBound, Text
      <4> QED BY <4>2, <4>3
    <3> QED
      BY <3>1, <3>3 DEF Knows, Holding, Approving, Sending
  <2>4. ph = "idle" \/ Knows(ph, s)
    BY <2>3
  <2> HIDE DEF s, ph
  <2> QED BY <1>2, <2>1, <2>4, MoveKnows DEF PostDrafts
<1>3. CASE PostToken(p)
  <2> DEFINE s == [l EXCEPT !.post = posts + 1]
             ok == LiveToken /\ token.digest = l.digest
             ph == IF ok THEN "p_send" ELSE "idle"
  <2>1. pc[p] = "p_token" /\ Goto(p, ph, s)
    BY <1>3 DEF PostToken
  <2>2. SnapshotBound(l) /\ (l.digest = 0 => Accepts(l) \subseteq accepted)
    BY <1>l, <2>1 DEF Knows, Holding
  <2>3. ASSUME ok
        PROVE  Accepts(l) \subseteq accepted
    <3>1. CASE l.digest = 0
      BY <2>2, <3>1
    <3>2. CASE l.digest > 0
      <4>1. PICK a \in accepted : a.digest = l.digest
        BY <2>3 DEF LiveToken, Rows, TokenAccepted
      <4>2. AcceptedWhole(l.digest)
        BY <3>2, <4>1 DEF Rows, AcceptedBound
      <4> QED BY <2>2, <3>2, <4>2, WholeAccepted
    <3> QED BY <1>l, <3>1, <3>2 DEF Local
  <2>4. /\ s.digest = l.digest /\ s.drafts = l.drafts /\ s.todo = l.todo
        /\ s.body = l.body
    BY <1>l DEF Local
  <2> HIDE DEF s
  <2>5. ok => Knows("p_send", s)
    BY <2>2, <2>3, <2>4
    DEF Knows, Holding, Approving, Sending, SnapshotBound, Accepts
  <2> QED BY <1>3, <2>1, <2>5, MoveKnows DEF PostToken
<1>4. CASE PostAdapterError(p)
  <2> DEFINE s == [l EXCEPT !.todo = {}, !.done = {}]
  <2>1. SnapshotBound(l) /\ Accepts(l) \subseteq accepted
    BY <1>4, <1>l DEF PostAdapterError, Knows, Holding, Sending
  <2>2. /\ s.digest = l.digest /\ s.drafts = l.drafts /\ s.todo = {}
        /\ s.body = l.body
    BY <1>l DEF Local
  <2>3. Goto(p, "p_record", s)
    BY <1>4 DEF PostAdapterError
  <2> HIDE DEF s
  <2>4. Knows("p_record", s)
    BY <2>1, <2>2
    DEF Knows, Holding, Approving, Sending, SnapshotBound, Accepts
  <2> QED BY <1>4, <2>3, <2>4, MoveKnows DEF PostAdapterError
<1>5. CASE PostRecordCheck(p)
  <2>1. PICK ph \in {"p_record_put", "idle"} : Goto(p, ph, l)
    BY <1>5 DEF PostRecordCheck
  <2>2. Knows("p_record_put", l)
    BY <1>5, <1>l DEF PostRecordCheck, Knows, Holding, Approving, Sending
  <2> QED BY <1>5, <2>1, <2>2, MoveKnows DEF PostRecordCheck
<1>6. CASE PostRecord(p)
  BY <1>6, MoveKnows DEF PostRecord
<1> QED
  BY <1>1, <1>2, <1>3, <1>4, <1>5, <1>6

LEMMA PostSendKnows ==
  ASSUME IInv, NEW p \in Procs, PostSend(p)
  PROVE  Rows' /\ ProcsKnow'
<1>0. PICK l : l = local[p]
  OBVIOUS
<1> USE DEF IInv, db
<1>1. /\ l \in Local /\ SnapshotBound(l) /\ Accepts(l) \subseteq accepted
  BY <1>0 DEF PostSend, TypeOK, ProcsKnow, Knows, Holding, Sending
<1>2. UNCHANGED <<batch, items, token, lineage, inserting, payload, accepted>>
  BY DEF PostSend
<1>3. PICK d \in l.todo, outcome \in {"posted", "failed", "ambiguous"},
           ph \in {"p_record", "p_send"} :
        /\ remote' = IF outcome = "failed" THEN remote
                     ELSE remote \cup {[draft |-> d, body |-> l.body[d],
                                        digest |-> l.digest, post |-> l.post]}
        /\ Goto(p, ph, [l EXCEPT !.todo = @ \ {d},
                                 !.done = IF outcome = "posted" THEN @ \cup {d}
                                          ELSE @])
  BY <1>0 DEF PostSend
<1> DEFINE s == [l EXCEPT !.todo = @ \ {d},
                          !.done = IF outcome = "posted" THEN @ \cup {d}
                                   ELSE @]
<1>4. PostedWasApproved'
  <2> SUFFICES ASSUME NEW c \in remote'
               PROVE  Binding(c.draft, c.body, c.digest) \in accepted
    BY <1>2 DEF PostedWasApproved, Binding
  <2>1. CASE c \in remote
    BY <2>1 DEF Rows, PostedWasApproved
  <2>2. CASE c = [draft |-> d, body |-> l.body[d], digest |-> l.digest,
                  post |-> l.post]
    <3>1. d \in l.drafts
      BY <1>1 DEF SnapshotBound
    <3> QED BY <1>1, <2>2, <3>1 DEF Accepts, Binding
  <2> QED BY <1>3, <2>1, <2>2
<1>5. Rows'
  BY <1>2, <1>4
  DEF Rows, RowsBound, LineageBound, OriginalPreserved, AcceptedBound,
      AcceptedWhole, TokenAccepted, UneditedAccepted, Text, Binding, Stored
<1>6. /\ s.digest = l.digest /\ s.drafts = l.drafts /\ s.todo = l.todo \ {d}
      /\ s.body = l.body
  BY <1>1 DEF Local
<1>7. Goto(p, ph, s)
  BY <1>3
<1> HIDE DEF s
<1>8. Knows(ph, s)
  BY <1>1, <1>6
  DEF Knows, Holding, Approving, Sending, SnapshotBound, Accepts
<1>9. \A ph2, l2 : Knows(ph2, l2) => Knows(ph2, l2)'
  BY <1>2, KnowledgeKept
<1> QED
  BY <1>5, <1>7, <1>8, <1>9, GotoKnows

LEMMA EnvironmentKnows ==
  ASSUME IInv, Materialize \/ Supersede \/ (\E p \in Procs : Crash(p))
  PROVE  Rows' /\ ProcsKnow'
<1> USE DEF IInv, db
<1>1. ASSUME NEW d \in Drafts, MaterializeCheck(d)
      PROVE  Rows' /\ ProcsKnow'
  <2>1. UNCHANGED <<batch, items, token, lineage, remote, pc, local, payload,
                    accepted>>
    BY <1>1 DEF MaterializeCheck
  <2>2. inserting' \notin Stored
    BY <1>1 DEF MaterializeCheck, Stored
  <2>3. Rows'
    BY <2>1, <2>2
    DEF Rows, RowsBound, LineageBound, OriginalPreserved, AcceptedBound,
        AcceptedWhole, TokenAccepted, UneditedAccepted, PostedWasApproved,
        Text, Binding, Stored
  <2>4. ProcsKnow'
    BY <2>1 DEF ProcsKnow, Knows, SnapshotBound, Accepts, Text, Stored
  <2> QED BY <2>3, <2>4
<1>2. CASE MaterializeInsert
  <2>1. /\ UNCHANGED <<batch, token, lineage, remote, pc, local, payload,
                       accepted>>
        /\ inserting' = NoDraft
    BY <1>2 DEF MaterializeInsert
  <2>2. inserting \in Drafts /\ inserting \notin Stored
    BY <1>2 DEF MaterializeInsert, TypeOK, Rows, RowsBound
  <2>3. /\ \A d \in Drafts : d # inserting => items'[d] = items[d]
        /\ items'[inserting] = [state |-> "Drafted",
                                body |-> Generated[inserting], digest |-> 0]
        /\ Stored' = Stored \cup {inserting}
    BY <1>2, <2>2 DEF MaterializeInsert, TypeOK, Stored
  <2>4. \A d \in Stored : items'[d] = items[d] /\ d \in Drafts
    BY <2>2, <2>3 DEF Stored
  <2>5. lineage[inserting] = <<>>
    BY <2>2 DEF Rows, LineageBound
  <2>6. RowsBound'
    BY <2>1, <2>2, <2>3, <2>4 DEF Rows, RowsBound, Text, TypeOK
  <2>7. LineageBound' /\ OriginalPreserved'
    BY <2>1, <2>2, <2>3, <2>5 DEF Rows, LineageBound, OriginalPreserved
  <2>8. AcceptedBound' /\ TokenAccepted' /\ PostedWasApproved'
    BY <2>1 DEF Rows, AcceptedBound, AcceptedWhole, TokenAccepted,
                PostedWasApproved, Text, Binding
  <2>9. UneditedAccepted'
    BY <2>1, <2>3, <2>4 DEF Rows, UneditedAccepted, Binding
  <2>10. ProcsKnow'
    BY <2>1, <2>3, <2>4
    DEF ProcsKnow, Knows, SnapshotBound, Accepts, Text
  <2> QED BY <2>6, <2>7, <2>8, <2>9, <2>10 DEF Rows
<1>3. CASE Supersede
  <2>1. ProcsKnow'
    BY <1>3 DEF Supersede, ProcsKnow, Knows, SnapshotBound, Accepts, Text,
                Stored
  <2> QED BY <1>3, <2>1, RowsKept DEF Supersede
<1>4. ASSUME NEW p \in Procs, Crash(p)
      PROVE  Rows' /\ ProcsKnow'
  BY <1>4, MoveKnows DEF Crash
<1> QED
  BY <1>1, <1>2, <1>3, <1>4 DEF Materialize

-----------------------------------------------------------------------------
(* Theorems.                                                               *)

LEMMA Initially == Init => IInv
<1> SUFFICES ASSUME Init PROVE IInv
  OBVIOUS
<1>1. TypeOK
  BY TypeInit
<1>2. Stored = {} /\ Len(payload) = 0 /\ accepted = {} /\ remote = {}
  BY DEF Init, Stored
<1>3. Rows
  BY <1>2
  DEF Init, Rows, RowsBound, LineageBound, OriginalPreserved, AcceptedBound,
      TokenAccepted, UneditedAccepted, PostedWasApproved
<1>4. ProcsKnow
  BY DEF Init, ProcsKnow, Knows, Holding, Approving, Sending
<1> QED BY <1>1, <1>3, <1>4 DEF IInv

LEMMA StepPreserves == IInv /\ [Next]_vars => IInv'
<1> SUFFICES ASSUME IInv, [Next]_vars PROVE IInv'
  OBVIOUS
<1> USE DEF IInv
<1>1. ASSUME NEW p \in Procs, Start(p) \/ Step(p)
      PROVE  IInv'
  <2>1. TypeOK'
    BY <1>1, ApproveType, EditType, PostType DEF Start, Step, ProcsKnow
  <2>2. Rows' /\ ProcsKnow'
    BY <1>1, ApproveReadsKnow, ApproveTokenKnows, ApproveWritesKnow,
       EditReadKnows, EditCommitKnows, PostReadsKnow, PostSendKnows
    DEF Start, Step
  <2> QED BY <2>1, <2>2
<1>2. CASE Materialize \/ Supersede \/ (\E p \in Procs : Crash(p))
  BY <1>2, EnvironmentType, EnvironmentKnows
<1>3. CASE UNCHANGED vars
  <2>1. ProcsKnow'
    BY <1>3 DEF vars, ProcsKnow, Knows, SnapshotBound, Accepts, Text, Stored
  <2>2. Rows'
    BY <1>3, RowsKept DEF vars
  <2>3. TypeOK'
    BY <1>3 DEF vars, TypeOK
  <2> QED BY <2>1, <2>2, <2>3
<1> QED
  BY <1>1, <1>2, <1>3 DEF Next
LEMMA Invariance == Spec => []IInv
BY Initially, StepPreserves, PTL DEF Spec

\* The rows, the history and what every process carries are well typed.
THEOREM TypeCorrect == Spec => []TypeOK
<1>1. IInv => TypeOK
  BY DEF IInv
<1> QED BY <1>1, Invariance, PTL

\* post_batch never sends GitHub a text that no approval accepted under the
\* digest it is sent with, whatever revisions, approvals, materialisations
\* and crashes run between the reads of its rows.
THEOREM PostingSafe == Spec => []PostedWasApproved
<1>1. IInv => PostedWasApproved
  BY DEF IInv, Rows
<1> QED BY <1>1, Invariance, PTL

\* Rows that would pass every check of post_batch hold accepted texts only:
\* no stale write of an approval can revive a revised, unapproved text.
THEOREM PostableSafe == Spec => []PostableWasApproved
<1>1. IInv => PostableWasApproved
  <2> SUFFICES ASSUME IInv, Postable, NEW d \in Stored
               PROVE  Binding(d, items[d].body, items[d].digest) \in accepted
    BY DEF PostableWasApproved
  <2> USE DEF IInv, Rows
  <2>1. /\ items[d].state = "Approved"
        /\ items[d].digest = token.digest
        /\ items[d].body = Text(d, items[d].digest)
        /\ items[d].digest \in Nat
    BY DEF Postable, RowsBound, TypeOK, Item, Stored
  <2>2. CASE items[d].digest = 0
    BY <2>1, <2>2 DEF UneditedAccepted, Text
  <2>3. CASE items[d].digest > 0
    <3>1. d \in payload[items[d].digest].drafts
      BY <2>3 DEF RowsBound
    <3>2. AcceptedWhole(items[d].digest)
      BY <2>1, <2>3 DEF Postable, LiveToken, TokenAccepted, AcceptedBound
    <3> QED BY <2>1, <3>1, <3>2 DEF AcceptedWhole
  <2> QED BY <2>1, <2>2, <2>3
<1> QED BY <1>1, Invariance, PTL

\* revise_outbound_draft_body never loses the generated text: the lineage of
\* a draft starts with it and ends with the row, also when first edits race.
THEOREM LineageSafe == Spec => []OriginalPreserved
<1>1. IInv => OriginalPreserved
  BY DEF IInv, Rows
<1> QED BY <1>1, Invariance, PTL
-----------------------------------------------------------------------------
(* What the audit rows say, from the moment `rr draft` has inserted every  *)
(* item.                                                                   *)

\* Every draft has its row, and nobody is inserting one.
AllStored == inserting = NoDraft /\ Stored = Drafts

\* GitHub received draft d through post n.
Delivered(d, n) == \E c \in remote : c.draft = d /\ c.post = n

\* A poster handles every draft, and what it counts as done was delivered by
\* its own call of the adapter.
Delivers(ph, l) ==
  /\ ph \in {"p_drafts", "p_token"} => l.done = {}
  /\ ph \in {"p_token"} \cup Sending => l.drafts = Drafts
  /\ ph \in Sending => \A d \in l.done : Delivered(d, l.post)

DeliveryInv ==
  /\ AllStored
  /\ \A p \in Procs : Delivers(pc[p], local[p])
  /\ SucceededMeansDelivered

LEMMA InitiallyMaterialized == InitMaterialized => IInv
<1> SUFFICES ASSUME InitMaterialized PROVE IInv
  OBVIOUS
<1> USE ConstantsAssumption DEF InitMaterialized
<1>1. TypeOK
  <2>1. items \in [Drafts -> Item]
    BY DEF Item, States
  <2>2. lineage \in [Drafts -> Seq(Bodies)] /\ payload \in Seq(Payload)
    OBVIOUS
  <2>3. pc \in [Procs -> Phases] /\ local \in [Procs -> Local]
    BY BlankType DEF Phases
  <2> QED BY <2>1, <2>2, <2>3 DEF TypeOK
<1>2. Len(payload) = 0 /\ accepted = {} /\ remote = {}
  OBVIOUS
<1>3. Rows
  BY <1>2
  DEF Rows, RowsBound, LineageBound, OriginalPreserved, AcceptedBound,
      TokenAccepted, UneditedAccepted, PostedWasApproved, Stored, Text
<1>4. ProcsKnow
  BY DEF ProcsKnow, Knows, Holding, Approving, Sending
<1> QED BY <1>1, <1>3, <1>4 DEF IInv

\* A row, once inserted, stays.
LEMMA AllStoredKept ==
  ASSUME IInv, AllStored, [Next]_vars
  PROVE  AllStored'
<1> USE DEF IInv
<1>1. ASSUME UNCHANGED <<items, inserting>> PROVE AllStored'
  BY <1>1 DEF AllStored, Stored
<1>2. ASSUME NEW p \in Procs, ApproveItem(p) PROVE AllStored'
  <2>1. inserting' = inserting
        /\ items' = [items EXCEPT ![local[p].draft].state = "Approved"]
    BY <1>2 DEF ApproveItem
  <2>2. \A d \in Drafts : items'[d].state \in {items[d].state, "Approved"}
    BY <2>1 DEF TypeOK, Item
  <2> QED BY <2>1, <2>2 DEF AllStored, Stored
<1>3. ASSUME NEW p \in Procs, EditCommit(p) PROVE AllStored'
  <2>1. inserting' = inserting
    BY <1>3 DEF EditCommit
  <2>2. \A d \in Drafts : d \in Stored => items'[d].state # "NotDrafted"
    BY <1>3 DEF EditCommit, Stored
  <2> QED BY <2>1, <2>2 DEF AllStored, Stored
<1>4. ~Materialize
  BY DEF Materialize, MaterializeInsert, MaterializeCheck, AllStored, Stored
<1>5. ASSUME NEW p \in Procs, Start(p) \/ Step(p) \/ Crash(p) PROVE AllStored'
  <2>1. CASE UNCHANGED <<items, inserting>>
    BY <1>1, <2>1
  <2>2. CASE ApproveItem(p) \/ EditCommit(p)
    BY <1>2, <1>3, <2>2
  <2> QED
    BY <1>5, <2>1, <2>2
    DEF Start, Step, Crash, ApproveLoad, EditRead, PostLoad, ApproveDrafts,
        ApproveToken, ApproveItemCheck, ApproveMintCheck, ApproveMint,
        ApproveKeepToken, ApproveBatchCheck, ApproveBatch, PostDrafts,
        PostToken, PostSend, PostAdapterError, PostRecordCheck, PostRecord, db
<1>6. CASE Supersede \/ UNCHANGED vars
  BY <1>1, <1>6 DEF Supersede, vars, db
<1> QED BY <1>4, <1>5, <1>6 DEF Next

\* A step of p after which p still answers for what it counts as done, while
\* what GitHub received stays received.
LEMMA StillDelivers ==
  ASSUME TypeOK, DeliveryInv, NEW p \in Procs, NEW ph, NEW l, Goto(p, ph, l),
         remote \subseteq remote', ph = "idle" \/ Delivers(ph, l)'
  PROVE  \A q \in Procs : Delivers(pc[q], local[q])'
<1> SUFFICES ASSUME NEW q \in Procs PROVE Delivers(pc[q], local[q])'
  OBVIOUS
<1>1. CASE q = p
  <2>1. pc'[q] = ph /\ (ph # "idle" => local'[q] = l)
    BY <1>1 DEF Goto, TypeOK
  <2> QED BY <2>1 DEF Delivers, Sending
<1>2. CASE q # p
  <2>1. pc'[q] = pc[q] /\ local'[q] = local[q] /\ Delivers(pc[q], local[q])
    BY <1>2 DEF Goto, TypeOK, DeliveryInv
  <2> QED BY <2>1 DEF Delivers, Delivered
<1> QED BY <1>1, <1>2
\* Whatever a step does to GitHub and to the posted actions, short of adding
\* to either.
LEMMA SuccessKept ==
  ASSUME DeliveryInv, AllStored', posted' = posted, remote \subseteq remote'
  PROVE  SucceededMeansDelivered'
BY DEF DeliveryInv, AllStored, SucceededMeansDelivered

\* The moves that neither send nor record.
LEMMA DeliveryMove ==
  ASSUME TypeOK, DeliveryInv, AllStored', NEW p \in Procs, NEW ph, NEW l,
         Goto(p, ph, l), UNCHANGED <<remote, posted>>,
         ph = "idle" \/ Delivers(ph, l)
  PROVE  DeliveryInv'
<1>1. ph = "idle" \/ Delivers(ph, l)'
  BY DEF Delivers, Delivered
<1>2. \A q \in Procs : Delivers(pc[q], local[q])'
  BY <1>1, StillDelivers
<1> QED BY <1>2, SuccessKept DEF DeliveryInv

LEMMA DeliverySteps ==
  ASSUME IInv, DeliveryInv, AllStored', NEW p \in Procs,
         Start(p) \/ Step(p) \/ Crash(p), ~PostSend(p), ~PostRecord(p)
  PROVE  DeliveryInv'
<1>1. PICK l : l = local[p]
  OBVIOUS
<1>2. TypeOK /\ l \in Local /\ Delivers(pc[p], l)
  BY <1>1 DEF IInv, TypeOK, DeliveryInv
<1>3. UNCHANGED <<remote, posted>>
  BY DEF Start, Step, Crash, ApproveLoad, EditRead, PostLoad, ApproveDrafts,
         ApproveToken, ApproveItemCheck, ApproveItem, ApproveMintCheck,
         ApproveMint, ApproveKeepToken, ApproveBatchCheck, ApproveBatch,
         EditCommit, PostDrafts, PostToken, PostAdapterError, PostRecordCheck,
         db
<1>4. ASSUME NEW ph, NEW m, Goto(p, ph, m), ph = "idle" \/ Delivers(ph, m)
      PROVE  DeliveryInv'
  BY <1>2, <1>3, <1>4, DeliveryMove
<1>5. ASSUME NEW ph \in Phases, NEW m, Goto(p, ph, m),
             ph \notin {"p_drafts", "p_token"} \cup Sending
      PROVE  DeliveryInv'
  BY <1>4, <1>5 DEF Delivers
<1>6. CASE PostLoad(p)
  <2>1. PICK m : /\ m = [Blank EXCEPT !.surface = "cli", !.digest = batch.digest,
                                      !.state = batch.state]
                 /\ Goto(p, "p_drafts", m)
    BY <1>6 DEF PostLoad, LoadBatch
  <2>2. m.done = {}
    BY <2>1 DEF Blank
  <2> QED BY <1>4, <2>1, <2>2 DEF Delivers, Sending
<1>7. CASE PostDrafts(p)
  <2>1. PICK m : m = [Snapshot(l) EXCEPT !.todo = Stored]
    OBVIOUS
  <2>2. PICK ph \in {"p_token", "idle"} : Goto(p, ph, m)
    BY <1>1, <1>7, <2>1 DEF PostDrafts
  <2>3. l.done = {}
    BY <1>1, <1>2, <1>7 DEF PostDrafts, Delivers
  <2>4. m.done = {} /\ m.drafts = Drafts
    BY <1>2, <2>1, <2>3 DEF Snapshot, Local, DeliveryInv, AllStored
  <2> QED BY <1>4, <2>2, <2>4 DEF Delivers, Sending
<1>8. CASE PostToken(p)
  <2>1. PICK m : m = [l EXCEPT !.post = posts + 1]
    OBVIOUS
  <2>2. PICK ph \in {"p_send", "idle"} : Goto(p, ph, m)
    BY <1>1, <1>8, <2>1 DEF PostToken
  <2>3. l.done = {} /\ l.drafts = Drafts
    BY <1>1, <1>2, <1>8 DEF PostToken, Delivers
  <2>4. m.done = {} /\ m.drafts = Drafts
    BY <1>2, <2>1, <2>3 DEF Local
  <2> QED BY <1>4, <2>2, <2>4 DEF Delivers
<1>9. CASE PostAdapterError(p)
  <2>1. PICK m : /\ m = [l EXCEPT !.todo = {}, !.done = {}]
                 /\ Goto(p, "p_record", m)
    BY <1>1, <1>9 DEF PostAdapterError
  <2>2. l.drafts = Drafts
    BY <1>1, <1>2, <1>9 DEF PostAdapterError, Delivers, Sending
  <2>3. m.done = {} /\ m.drafts = Drafts
    BY <1>2, <2>1, <2>2 DEF Local
  <2> QED BY <1>4, <2>1, <2>3 DEF Delivers
<1>10. CASE PostRecordCheck(p)
  <2>1. PICK ph \in {"p_record_put", "idle"} : Goto(p, ph, l)
    BY <1>1, <1>10 DEF PostRecordCheck
  <2>2. Delivers("p_record", l)
    BY <1>1, <1>2, <1>10 DEF PostRecordCheck
  <2> QED BY <1>4, <2>1, <2>2 DEF Delivers, Sending
<1>11. CASE \/ ApproveLoad(p) \/ ApproveDrafts(p) \/ ApproveToken(p)
            \/ ApproveItemCheck(p) \/ ApproveItem(p) \/ ApproveMintCheck(p)
            \/ ApproveMint(p) \/ ApproveKeepToken(p) \/ ApproveBatchCheck(p)
            \/ ApproveBatch(p) \/ EditRead(p) \/ EditCommit(p) \/ Crash(p)
  <2>1. PICK ph \in {"idle", "a_drafts", "a_token", "a_item", "a_item_put",
                     "a_mint_put", "a_batch", "a_batch_put", "e_commit"} :
          \E m : Goto(p, ph, m)
    <3>1. CASE \/ ApproveLoad(p) \/ ApproveDrafts(p) \/ ApproveToken(p)
               \/ ApproveItemCheck(p) \/ ApproveItem(p)
      BY <3>1, Zenon DEF ApproveLoad, ApproveDrafts, ApproveToken,
                         ApproveItemCheck, ApproveItem, LoadBatch
    <3>2. CASE \/ ApproveMintCheck(p) \/ ApproveMint(p) \/ ApproveKeepToken(p)
               \/ ApproveBatchCheck(p) \/ ApproveBatch(p)
      BY <3>2 DEF ApproveMintCheck, ApproveMint, ApproveKeepToken,
                  ApproveBatchCheck, ApproveBatch
    <3>3. CASE EditRead(p) \/ EditCommit(p) \/ Crash(p)
      BY <3>3 DEF EditRead, EditCommit, Crash
    <3> QED BY <1>11, <3>1, <3>2, <3>3
  <2>2. ph \in Phases /\ ph \notin {"p_drafts", "p_token"} \cup Sending
    BY DEF Phases, Sending
  <2> QED BY <1>5, <2>1, <2>2
<1> QED
  BY <1>6, <1>7, <1>8, <1>9, <1>10, <1>11 DEF Start, Step

LEMMA SendDelivers ==
  ASSUME IInv, DeliveryInv, AllStored', NEW p \in Procs,
         PostSend(p) \/ PostRecord(p)
  PROVE  DeliveryInv'
<1>1. PICK l : l = local[p]
  OBVIOUS
<1>2. TypeOK /\ l \in Local /\ Delivers(pc[p], l)
  BY <1>1 DEF IInv, TypeOK, DeliveryInv
<1>3. CASE PostSend(p)
  <2>1. PICK d \in l.todo, outcome \in {"posted", "failed", "ambiguous"} :
          /\ remote' = IF outcome = "failed" THEN remote
                       ELSE remote \cup {[draft |-> d, body |-> l.body[d],
                                          digest |-> l.digest, post |-> l.post]}
          /\ Goto(p, IF l.todo = {d} THEN "p_record" ELSE "p_send",
                  [l EXCEPT !.todo = @ \ {d},
                            !.done = IF outcome = "posted" THEN @ \cup {d}
                                     ELSE @])
    BY <1>1, <1>3 DEF PostSend
  <2>2. PICK m : m = [l EXCEPT !.todo = @ \ {d},
                               !.done = IF outcome = "posted" THEN @ \cup {d}
                                        ELSE @]
    OBVIOUS
  <2>3. PICK ph \in {"p_record", "p_send"} : Goto(p, ph, m)
    BY <2>1, <2>2
  <2>4. posted' = posted /\ remote \subseteq remote'
    BY <1>3, <2>1 DEF PostSend, db
  <2>5. /\ l.drafts = Drafts
        /\ \A x \in l.done : Delivered(x, l.post)
    BY <1>1, <1>2, <1>3 DEF PostSend, Delivers, Sending
  <2>6. /\ m.drafts = l.drafts /\ m.post = l.post
        /\ m.done = IF outcome = "posted" THEN l.done \cup {d} ELSE l.done
    BY <1>2, <2>2 DEF Local
  <2>7. ASSUME NEW x \in m.done PROVE Delivered(x, m.post)'
    <3>1. CASE x \in l.done
      BY <2>4, <2>5, <2>6, <3>1 DEF Delivered
    <3>2. CASE outcome = "posted" /\ x = d
      <4>1. PICK c : c = [draft |-> d, body |-> l.body[d], digest |-> l.digest,
                          post |-> l.post]
        OBVIOUS
      <4>2. c \in remote'
        BY <2>1, <3>2, <4>1
      <4>3. c.draft = x /\ c.post = m.post
        BY <2>6, <3>2, <4>1
      <4> QED BY <4>2, <4>3 DEF Delivered
    <3> QED BY <2>6, <3>1, <3>2
  <2>8. Delivers(ph, m)'
    BY <2>3, <2>5, <2>6, <2>7 DEF Delivers, Sending
  <2>9. \A q \in Procs : Delivers(pc[q], local[q])'
    BY <1>2, <2>3, <2>4, <2>8, StillDelivers
  <2> QED BY <2>4, <2>9, SuccessKept DEF DeliveryInv
<1>4. CASE PostRecord(p)
  <2>1. PICK a : a = [id |-> l.post, digest |-> l.digest, status |-> Outcome(l)]
    OBVIOUS
  <2>2. posted' = posted \cup {a} /\ remote' = remote /\ Goto(p, "idle", l)
    BY <1>1, <1>4, <2>1 DEF PostRecord
  <2>3. /\ l.drafts = Drafts
        /\ \A d \in l.done : Delivered(d, l.post)
    BY <1>1, <1>2, <1>4 DEF PostRecord, Delivers, Sending
  <2>4. a.status = "Succeeded" => \A d \in Drafts : Delivered(d, a.id)
    BY <2>1, <2>3 DEF Outcome
  <2>5. SucceededMeansDelivered'
    BY <2>2, <2>4 DEF DeliveryInv, AllStored, SucceededMeansDelivered, Delivered
  <2>6. \A q \in Procs : Delivers(pc[q], local[q])'
    BY <1>2, <2>2, StillDelivers
  <2> QED BY <2>5, <2>6 DEF DeliveryInv
<1> QED BY <1>3, <1>4

LEMMA DeliveryPreserved == IInv /\ DeliveryInv /\ [Next]_vars => DeliveryInv'
<1> SUFFICES ASSUME IInv, DeliveryInv, [Next]_vars PROVE DeliveryInv'
  OBVIOUS
<1>1. AllStored'
  BY AllStoredKept DEF DeliveryInv
<1>2. ASSUME NEW p \in Procs, Start(p) \/ Step(p) \/ Crash(p)
      PROVE  DeliveryInv'
  BY <1>1, <1>2, DeliverySteps, SendDelivers
<1>3. ~Materialize
  BY DEF Materialize, MaterializeInsert, MaterializeCheck, DeliveryInv,
         AllStored, Stored
<1>4. CASE Supersede \/ UNCHANGED vars
  <2>1. UNCHANGED <<remote, posted, pc, local>>
    BY <1>4 DEF Supersede, vars, db
  <2> QED BY <1>1, <2>1, SuccessKept DEF DeliveryInv, Delivers, Delivered
<1> QED BY <1>2, <1>3, <1>4 DEF Next

\* Once the items are inserted, and whoever approves, edits, posts or dies:
\* an action recorded as Succeeded (post_batch) stands for a comment on GitHub
\* for every draft of the batch, sent by that very call.
THEOREM SuccessIsDelivery == MaterializedSpec => []SucceededMeansDelivered
<1>1. InitMaterialized => DeliveryInv
  <2> SUFFICES ASSUME InitMaterialized PROVE DeliveryInv
    OBVIOUS
  <2>1. AllStored
    BY DEF InitMaterialized, AllStored, Stored
  <2>2. SucceededMeansDelivered
    BY DEF InitMaterialized, SucceededMeansDelivered
  <2>3. \A p \in Procs : Delivers(pc[p], local[p])
    BY DEF InitMaterialized, Delivers, Sending
  <2> QED BY <2>1, <2>2, <2>3 DEF DeliveryInv
<1>2. DeliveryInv => SucceededMeansDelivered
  BY DEF DeliveryInv
<1> QED
  BY <1>1, <1>2, InitiallyMaterialized, StepPreserves, DeliveryPreserved, PTL
  DEF MaterializedSpec
-----------------------------------------------------------------------------
(* What an operator who runs one command after the other can rely on.      *)

OneOperator == \A p, q \in Procs : p = q

\* The digest a command read is still the batch's.
Fresh(ph, l) == ph \notin {"idle", "e_commit"} => l.digest = batch.digest

\* A live approval is one of the batch as it stands.
LiveIsCurrent == LiveToken => token.digest = batch.digest

FreshInv == LiveIsCurrent /\ \A p \in Procs : Fresh(pc[p], local[p])

LEMMA FreshMove ==
  ASSUME OneOperator, TypeOK, FreshInv, LiveIsCurrent', NEW p \in Procs,
         NEW ph, NEW l, Goto(p, ph, l), batch'.digest = batch.digest,
         ph = "idle" \/ Fresh(ph, l)
  PROVE  FreshInv'
<1> SUFFICES ASSUME NEW q \in Procs PROVE Fresh(pc[q], local[q])'
  BY DEF FreshInv
<1>1. q = p
  BY DEF OneOperator
<1>2. pc'[q] = ph /\ (ph # "idle" => local'[q] = l)
  BY <1>1 DEF Goto, TypeOK
<1> QED BY <1>2 DEF Fresh

LEMMA FreshApproval ==
  ASSUME OneOperator, IInv, FreshInv, NEW p \in Procs,
         \/ ApproveLoad(p) \/ ApproveDrafts(p) \/ ApproveToken(p)
         \/ ApproveItemCheck(p) \/ ApproveItem(p) \/ ApproveMintCheck(p)
         \/ ApproveMint(p) \/ ApproveKeepToken(p) \/ ApproveBatchCheck(p)
         \/ ApproveBatch(p)
  PROVE  FreshInv'
<1>1. PICK l : l = local[p]
  OBVIOUS
<1>2. TypeOK /\ l \in Local /\ Fresh(pc[p], l)
  BY <1>1 DEF IInv, TypeOK, FreshInv
<1>3. batch'.digest = batch.digest
  BY <1>2
  DEF ApproveLoad, ApproveDrafts, ApproveToken, ApproveItemCheck, ApproveItem,
      ApproveMintCheck, ApproveMint, ApproveKeepToken, ApproveBatchCheck,
      ApproveBatch, TypeOK, db
<1>4. LiveIsCurrent'
  <2>1. CASE token' = token
    BY <1>3, <2>1 DEF FreshInv, LiveIsCurrent, LiveToken
  <2>2. CASE ApproveMint(p)
    <3>1. l.digest = batch.digest
      BY <1>1, <1>2, <2>2 DEF ApproveMint, Fresh
    <3>2. token' = token \/ token'.digest = l.digest
      BY <1>1, <2>2 DEF ApproveMint
    <3> QED BY <1>3, <3>1, <3>2 DEF FreshInv, LiveIsCurrent, LiveToken
  <2> QED
    BY <2>1, <2>2
    DEF ApproveLoad, ApproveDrafts, ApproveToken, ApproveItemCheck,
        ApproveItem, ApproveMintCheck, ApproveKeepToken, ApproveBatchCheck,
        ApproveBatch, db
<1>5. ASSUME NEW ph, NEW m, Goto(p, ph, m), ph = "idle" \/ m.digest = batch.digest
      PROVE  FreshInv'
  BY <1>2, <1>3, <1>4, <1>5, FreshMove DEF Fresh
<1>6. CASE ApproveLoad(p)
  <2>1. PICK surface \in Surfaces : LoadBatch(p, "a_drafts", surface)
    BY <1>6 DEF ApproveLoad
  <2>2. PICK m : m = [Blank EXCEPT !.surface = surface, !.digest = batch.digest,
                                   !.state = batch.state]
    OBVIOUS
  <2>3. m.digest = batch.digest
    BY <2>2 DEF Blank
  <2> QED BY <1>5, <2>1, <2>2, <2>3 DEF LoadBatch
<1>7. ASSUME ~ApproveLoad(p) PROVE l.digest = batch.digest
  BY <1>1, <1>2, <1>7
  DEF ApproveDrafts, ApproveToken, ApproveItemCheck, ApproveItem,
      ApproveMintCheck, ApproveMint, ApproveKeepToken, ApproveBatchCheck,
      ApproveBatch, Fresh
<1>8. CASE ApproveDrafts(p)
  <2>1. PICK m : m = [Snapshot(l) EXCEPT
                        !.todo = {d \in Stored : items[d].state # "Approved"}]
    OBVIOUS
  <2>2. \E ph : Goto(p, ph, m)
    BY <1>1, <1>8, <2>1, Zenon DEF ApproveDrafts
  <2>3. m.digest = l.digest /\ ~ApproveLoad(p)
    BY <1>2, <1>8, <2>1 DEF Snapshot, Local, ApproveDrafts, ApproveLoad, LoadBatch
  <2> QED BY <1>5, <1>7, <2>2, <2>3
<1>9. CASE ~ApproveLoad(p) /\ ~ApproveDrafts(p)
  <2>1. \E ph, m : Goto(p, ph, m) /\ (ph = "idle" \/ m.digest = l.digest)
    <3>1. CASE ApproveToken(p)
      <4>1. CASE Goto(p, "idle", l)
        BY <4>1
      <4>2. ASSUME NEW mint, Goto(p, "a_item", [l EXCEPT !.mint = mint])
            PROVE  \E ph, m : Goto(p, ph, m) /\ (ph = "idle" \/ m.digest = l.digest)
        <5>1. [l EXCEPT !.mint = mint].digest = l.digest
          BY <1>2 DEF Local
        <5> QED BY <4>2, <5>1
      <4> QED BY <1>1, <3>1, <4>1, <4>2 DEF ApproveToken
    <3>2. CASE ApproveItemCheck(p)
      <4>1. PICK d \in l.todo :
              \E ph : Goto(p, ph, [l EXCEPT !.draft = d])
        BY <1>1, <3>2 DEF ApproveItemCheck
      <4>2. [l EXCEPT !.draft = d].digest = l.digest
        BY <1>2 DEF Local
      <4> QED BY <4>1, <4>2
    <3>3. CASE ApproveItem(p)
      <4>1. Goto(p, "a_item", [l EXCEPT !.todo = @ \ {l.draft}, !.draft = NoDraft])
        BY <1>1, <3>3 DEF ApproveItem
      <4>2. [l EXCEPT !.todo = @ \ {l.draft}, !.draft = NoDraft].digest = l.digest
        BY <1>2 DEF Local
      <4> QED BY <4>1, <4>2
    <3>4. CASE \/ ApproveMintCheck(p) \/ ApproveMint(p) \/ ApproveKeepToken(p)
               \/ ApproveBatchCheck(p) \/ ApproveBatch(p)
      <4>1. \E ph, m : Goto(p, ph, m) /\ (ph = "idle" \/ m = l)
        BY <1>1, <3>4
        DEF ApproveMintCheck, ApproveMint, ApproveKeepToken, ApproveBatchCheck,
            ApproveBatch
      <4> QED BY <4>1
    <3> QED BY <1>9, <3>1, <3>2, <3>3, <3>4
  <2> QED BY <1>5, <1>7, <1>9, <2>1
<1> QED BY <1>6, <1>8, <1>9

LEMMA FreshPost ==
  ASSUME OneOperator, IInv, FreshInv, NEW p \in Procs,
         \/ PostLoad(p) \/ PostDrafts(p) \/ PostToken(p) \/ PostSend(p)
         \/ PostAdapterError(p) \/ PostRecordCheck(p) \/ PostRecord(p)
         \/ Crash(p) \/ EditRead(p)
  PROVE  FreshInv'
<1>1. PICK l : l = local[p]
  OBVIOUS
<1>2. TypeOK /\ l \in Local /\ Fresh(pc[p], l)
  BY <1>1 DEF IInv, TypeOK, FreshInv
<1>3. UNCHANGED <<batch, token>>
  BY DEF PostLoad, PostDrafts, PostToken, PostSend, PostAdapterError,
         PostRecordCheck, PostRecord, Crash, EditRead, db
<1>4. LiveIsCurrent'
  BY <1>3 DEF FreshInv, LiveIsCurrent, LiveToken
<1>5. ASSUME NEW ph, NEW m, Goto(p, ph, m),
             ph \in {"idle", "e_commit"} \/ m.digest = batch.digest
      PROVE  FreshInv'
  BY <1>2, <1>3, <1>4, <1>5, FreshMove DEF Fresh
<1>6. CASE PostLoad(p)
  <2>1. PICK m : /\ m = [Blank EXCEPT !.surface = "cli", !.digest = batch.digest,
                                      !.state = batch.state]
                 /\ Goto(p, "p_drafts", m)
    BY <1>6 DEF PostLoad, LoadBatch
  <2>2. m.digest = batch.digest
    BY <2>1 DEF Blank
  <2> QED BY <1>5, <2>1, <2>2
<1>7. CASE PostDrafts(p)
  <2>1. PICK m : m = [Snapshot(l) EXCEPT !.todo = Stored]
    OBVIOUS
  <2>2. \E ph : Goto(p, ph, m)
    BY <1>1, <1>7, <2>1, Zenon DEF PostDrafts
  <2>3. m.digest = l.digest /\ l.digest = batch.digest
    BY <1>1, <1>2, <1>7, <2>1 DEF Snapshot, Local, PostDrafts, Fresh
  <2> QED BY <1>5, <2>2, <2>3
<1>8. CASE PostToken(p)
  <2>1. PICK m : m = [l EXCEPT !.post = posts + 1]
    OBVIOUS
  <2>2. \E ph : Goto(p, ph, m)
    BY <1>1, <1>8, <2>1, Zenon DEF PostToken
  <2>3. m.digest = l.digest /\ l.digest = batch.digest
    BY <1>1, <1>2, <1>8, <2>1 DEF Local, PostToken, Fresh
  <2> QED BY <1>5, <2>2, <2>3
<1>9. CASE PostSend(p)
  <2>1. PICK d \in l.todo, outcome \in {"posted", "failed", "ambiguous"} :
          \E ph : Goto(p, ph, [l EXCEPT !.todo = @ \ {d},
                                        !.done = IF outcome = "posted"
                                                 THEN @ \cup {d} ELSE @])
    BY <1>1, <1>9, Zenon DEF PostSend
  <2>2. PICK m : m = [l EXCEPT !.todo = @ \ {d},
                               !.done = IF outcome = "posted" THEN @ \cup {d}
                                        ELSE @]
    OBVIOUS
  <2>3. m.digest = l.digest /\ l.digest = batch.digest
    BY <1>1, <1>2, <1>9, <2>2 DEF Local, PostSend, Fresh
  <2> QED BY <1>5, <2>1, <2>2, <2>3
<1>10. CASE PostAdapterError(p)
  <2>1. PICK m : /\ m = [l EXCEPT !.todo = {}, !.done = {}]
                 /\ Goto(p, "p_record", m)
    BY <1>1, <1>10 DEF PostAdapterError
  <2>2. m.digest = l.digest /\ l.digest = batch.digest
    BY <1>1, <1>2, <1>10, <2>1 DEF Local, PostAdapterError, Fresh
  <2> QED BY <1>5, <2>1, <2>2
<1>11. CASE PostRecordCheck(p)
  <2>1. \E ph : Goto(p, ph, l)
    BY <1>1, <1>11, Zenon DEF PostRecordCheck
  <2>2. l.digest = batch.digest
    BY <1>1, <1>2, <1>11 DEF PostRecordCheck, Fresh
  <2> QED BY <1>5, <2>1, <2>2
<1>12. CASE PostRecord(p) \/ Crash(p) \/ EditRead(p)
  <2>1. \E ph \in {"idle", "e_commit"} : \E m : Goto(p, ph, m)
    BY <1>12, Zenon DEF PostRecord, Crash, EditRead
  <2> QED BY <1>5, <2>1
<1> QED BY <1>6, <1>7, <1>8, <1>9, <1>10, <1>11, <1>12

LEMMA FreshPreserved ==
  ASSUME OneOperator PROVE IInv /\ FreshInv /\ [Next]_vars => FreshInv'
<1> SUFFICES ASSUME IInv, FreshInv, [Next]_vars PROVE FreshInv'
  OBVIOUS
<1>1. ASSUME NEW p \in Procs, EditCommit(p) PROVE FreshInv'
  <2>1. Goto(p, "idle", Blank)
    BY <1>1 DEF EditCommit
  <2>2. LiveIsCurrent'
    BY <1>1 DEF EditCommit, RevokedToken, LiveIsCurrent, LiveToken, IInv, TypeOK,
                Token
  <2>3. ASSUME NEW q \in Procs PROVE Fresh(pc[q], local[q])'
    <3>1. q = p
      BY DEF OneOperator
    <3>2. pc'[q] = "idle"
      BY <2>1, <3>1 DEF Goto, IInv, TypeOK
    <3> QED BY <3>2 DEF Fresh
  <2> QED BY <2>2, <2>3 DEF FreshInv
<1>2. ASSUME NEW p \in Procs, Start(p) \/ Step(p) \/ Crash(p) PROVE FreshInv'
  BY <1>1, <1>2, FreshApproval, FreshPost DEF Start, Step
<1>3. CASE Materialize \/ Supersede \/ UNCHANGED vars
  <2>1. UNCHANGED <<batch, token, pc, local>>
    BY <1>3 DEF Materialize, MaterializeInsert, MaterializeCheck, Supersede, vars,
                db
  <2> QED BY <2>1 DEF FreshInv, LiveIsCurrent, LiveToken, Fresh
<1> QED BY <1>2, <1>3 DEF Next

\* For one operator, whose commands may die between any two statements: a live
\* approval is one of the batch as it stands, so none is left behind that would
\* block the next approval and the next post.
THEOREM NothingWedged ==
  ASSUME OneOperator
  PROVE  /\ Spec => []NoWedgedApproval
         /\ MaterializedSpec => []NoWedgedApproval
<1>1. Init => FreshInv
  BY DEF Init, FreshInv, LiveIsCurrent, LiveToken, Fresh
<1>2. InitMaterialized => FreshInv
  BY DEF InitMaterialized, FreshInv, LiveIsCurrent, LiveToken, Fresh
<1>3. FreshInv => NoWedgedApproval
  BY DEF FreshInv, LiveIsCurrent, NoWedgedApproval
<1> QED
  BY <1>1, <1>2, <1>3, Initially, InitiallyMaterialized, StepPreserves,
     FreshPreserved, PTL
  DEF Spec, MaterializedSpec

\* A command under way found no posted action, and there is none yet.
NothingPostedYet == \A p \in Procs : pc[p] # "idle" => posted = {}

\* Every comment has its audit row, or its poster is still to write it.
Accounted ==
  \A c \in remote :
    \/ \E a \in posted : a.id = c.post
    \/ \E p \in Procs : pc[p] \in Sending /\ local[p].post = c.post

AuditInv == NothingPostedYet /\ Accounted /\ AtMostOnce /\ PostedBatchFrozen

\* The moves that neither send nor record, and do not end a post.
LEMMA AuditMove ==
  ASSUME OneOperator, TypeOK, AuditInv, posted = {}, NEW p \in Procs, NEW ph,
         NEW m, Goto(p, ph, m), UNCHANGED <<remote, posted>>,
         pc[p] \in Sending => ph \in Sending /\ m.post = local[p].post
  PROVE  AuditInv'
<1>1. pc'[p] = ph /\ (ph # "idle" => local'[p] = m)
  BY DEF Goto, TypeOK
<1>2. ASSUME NEW c \in remote
      PROVE  pc'[p] \in Sending /\ local'[p].post = c.post
  <2>1. PICK q \in Procs : pc[q] \in Sending /\ local[q].post = c.post
    BY DEF AuditInv, Accounted
  <2>2. q = p
    BY DEF OneOperator
  <2> QED BY <1>1, <2>1, <2>2 DEF Sending
<1>3. Accounted'
  BY <1>2 DEF Accounted
<1> QED
  BY <1>3 DEF AuditInv, NothingPostedYet, AtMostOnce, PostedBatchFrozen

LEMMA AuditSteps ==
  ASSUME OneOperator, IInv, FreshInv, AuditInv, NEW p \in Procs,
         Start(p) \/ Step(p), ~PostSend(p), ~PostRecord(p)
  PROVE  AuditInv'
<1>1. PICK l : l = local[p]
  OBVIOUS
<1>2. TypeOK /\ l \in Local /\ Fresh(pc[p], l)
  BY <1>1 DEF IInv, TypeOK, FreshInv
<1>3. posted = {}
  <2>1. CASE pc[p] # "idle"
    BY <2>1 DEF AuditInv, NothingPostedYet
  <2>2. CASE pc[p] = "idle"
    BY <2>2
    DEF Start, Step, ApproveLoad, EditRead, PostLoad, LoadBatch, NoPostedAction,
        ApproveDrafts, ApproveToken, ApproveItemCheck, ApproveItem,
        ApproveMintCheck, ApproveMint, ApproveKeepToken, ApproveBatchCheck,
        ApproveBatch, EditCommit, PostDrafts, PostToken, PostAdapterError,
        PostRecordCheck
  <2> QED BY <2>1, <2>2
<1>4. UNCHANGED <<remote, posted>>
  BY DEF Start, Step, ApproveLoad, EditRead, PostLoad, ApproveDrafts,
         ApproveToken, ApproveItemCheck, ApproveItem, ApproveMintCheck,
         ApproveMint, ApproveKeepToken, ApproveBatchCheck, ApproveBatch,
         EditCommit, PostDrafts, PostToken, PostAdapterError, PostRecordCheck,
         db
<1>5. CASE PostAdapterError(p)
  <2>1. PICK m : /\ m = [l EXCEPT !.todo = {}, !.done = {}]
                 /\ Goto(p, "p_record", m)
    BY <1>1, <1>5 DEF PostAdapterError
  <2>2. m.post = l.post /\ "p_record" \in Sending
    BY <1>2, <2>1 DEF Local, Sending
  <2> QED BY <1>1, <1>2, <1>3, <1>4, <2>1, <2>2, AuditMove
<1>6. CASE PostRecordCheck(p)
  <2>1. l.digest = batch.digest
    BY <1>1, <1>2, <1>6 DEF PostRecordCheck, Fresh
  <2>2. Goto(p, "p_record_put", l) /\ "p_record_put" \in Sending
    BY <1>1, <1>6, <2>1 DEF PostRecordCheck, Sending
  <2> QED BY <1>1, <1>2, <1>3, <1>4, <2>2, AuditMove
<1>7. CASE ~PostAdapterError(p) /\ ~PostRecordCheck(p)
  <2>1. pc[p] \notin Sending
    BY <1>7
    DEF Start, Step, ApproveLoad, EditRead, PostLoad, LoadBatch, ApproveDrafts,
        ApproveToken, ApproveItemCheck, ApproveItem, ApproveMintCheck,
        ApproveMint, ApproveKeepToken, ApproveBatchCheck, ApproveBatch,
        EditCommit, PostDrafts, PostToken, Sending
  <2>2. \E ph, m : Goto(p, ph, m)
    <3>1. CASE Start(p)
      BY <3>1, Zenon DEF Start, ApproveLoad, EditRead, PostLoad, LoadBatch
    <3>2. CASE \/ ApproveDrafts(p) \/ ApproveToken(p) \/ ApproveItemCheck(p)
               \/ ApproveItem(p) \/ ApproveMintCheck(p)
      BY <3>2, Zenon DEF ApproveDrafts, ApproveToken, ApproveItemCheck,
                         ApproveItem, ApproveMintCheck
    <3>3. CASE \/ ApproveMint(p) \/ ApproveKeepToken(p) \/ ApproveBatchCheck(p)
               \/ ApproveBatch(p)
      BY <3>3, Zenon DEF ApproveMint, ApproveKeepToken, ApproveBatchCheck,
                         ApproveBatch
    <3>4. CASE EditCommit(p) \/ PostDrafts(p) \/ PostToken(p)
      BY <3>4, Zenon DEF EditCommit, PostDrafts, PostToken
    <3> QED BY <1>7, <3>1, <3>2, <3>3, <3>4 DEF Step
  <2> QED BY <1>2, <1>3, <1>4, <2>1, <2>2, AuditMove
<1> QED BY <1>5, <1>6, <1>7

LEMMA AuditSend ==
  ASSUME OneOperator, IInv, AuditInv, NEW p \in Procs, PostSend(p)
  PROVE  AuditInv'
<1>1. PICK l : l = local[p]
  OBVIOUS
<1>2. TypeOK /\ l \in Local /\ pc[p] = "p_send"
  BY <1>1 DEF IInv, TypeOK, PostSend
<1>3. posted = {} /\ posted' = posted
  BY <1>2 DEF AuditInv, NothingPostedYet, PostSend, db
<1>4. PICK d \in l.todo, outcome \in {"posted", "failed", "ambiguous"} :
        /\ remote' = IF outcome = "failed" THEN remote
                     ELSE remote \cup {[draft |-> d, body |-> l.body[d],
                                        digest |-> l.digest, post |-> l.post]}
        /\ Goto(p, IF l.todo = {d} THEN "p_record" ELSE "p_send",
                [l EXCEPT !.todo = @ \ {d},
                          !.done = IF outcome = "posted" THEN @ \cup {d}
                                   ELSE @])
  BY <1>1 DEF PostSend
<1>5. PICK m : m = [l EXCEPT !.todo = @ \ {d},
                             !.done = IF outcome = "posted" THEN @ \cup {d}
                                      ELSE @]
  OBVIOUS
<1>6. PICK ph \in {"p_record", "p_send"} : Goto(p, ph, m)
  BY <1>4, <1>5
<1>7. m.post = l.post
  BY <1>2, <1>5 DEF Local
<1>8. pc'[p] \in Sending /\ local'[p].post = l.post
  BY <1>2, <1>6, <1>7 DEF Goto, TypeOK, Sending
<1>9. \A c \in remote' : c.post = l.post
  <2>1. ASSUME NEW c \in remote PROVE c.post = l.post
    <3>1. PICK q \in Procs : pc[q] \in Sending /\ local[q].post = c.post
      BY <1>3 DEF AuditInv, Accounted
    <3> QED BY <1>1, <3>1 DEF OneOperator
  <2> QED BY <1>4, <2>1
<1>10. Accounted' /\ AtMostOnce'
  BY <1>8, <1>9 DEF Accounted, AtMostOnce
<1> QED BY <1>3, <1>10 DEF AuditInv, NothingPostedYet, PostedBatchFrozen

LEMMA AuditRecord ==
  ASSUME OneOperator, IInv, FreshInv, AuditInv, NEW p \in Procs, PostRecord(p)
  PROVE  AuditInv'
<1>1. PICK l : l = local[p]
  OBVIOUS
<1>2. TypeOK /\ l \in Local /\ pc[p] = "p_record_put" /\ l.digest = batch.digest
  BY <1>1 DEF IInv, TypeOK, PostRecord, FreshInv, Fresh
<1>3. PICK a : a = [id |-> l.post, digest |-> l.digest, status |-> Outcome(l)]
  OBVIOUS
<1>4. /\ posted' = posted \cup {a} /\ UNCHANGED <<batch, remote>>
      /\ Goto(p, "idle", l)
  BY <1>1, <1>3 DEF PostRecord
<1>5. a.id = l.post /\ a.digest = batch.digest
  BY <1>2, <1>3
<1>6. posted = {}
  BY <1>2 DEF AuditInv, NothingPostedYet
<1>7. ASSUME NEW c \in remote PROVE c.post = a.id
  <2>1. PICK q \in Procs : pc[q] \in Sending /\ local[q].post = c.post
    BY <1>6 DEF AuditInv, Accounted
  <2> QED BY <1>1, <1>5, <2>1 DEF OneOperator
<1>8. \A q \in Procs : pc'[q] = "idle"
  <2>1. pc'[p] = "idle"
    BY <1>2, <1>4 DEF Goto, TypeOK
  <2> QED BY <2>1 DEF OneOperator
<1>9. Accounted'
  BY <1>4, <1>7 DEF Accounted
<1>10. PostedBatchFrozen'
  BY <1>4, <1>5, <1>6 DEF PostedBatchFrozen
<1> QED BY <1>4, <1>8, <1>9, <1>10 DEF AuditInv, NothingPostedYet, AtMostOnce

LEMMA AuditPreserved ==
  ASSUME OneOperator, ~CanCrash
  PROVE  IInv /\ FreshInv /\ AuditInv /\ [Next]_vars => AuditInv'
<1> SUFFICES ASSUME IInv, FreshInv, AuditInv, [Next]_vars PROVE AuditInv'
  OBVIOUS
<1>1. ASSUME NEW p \in Procs, Start(p) \/ Step(p) PROVE AuditInv'
  BY <1>1, AuditSteps, AuditSend, AuditRecord
<1>2. \A p \in Procs : ~Crash(p)
  BY DEF Crash
<1>3. CASE Materialize \/ Supersede \/ UNCHANGED vars
  <2>1. UNCHANGED <<batch, posted, remote, pc, local>>
    BY <1>3 DEF Materialize, MaterializeInsert, MaterializeCheck, Supersede, vars,
                db
  <2> QED
    BY <2>1 DEF AuditInv, NothingPostedYet, Accounted, AtMostOnce,
                PostedBatchFrozen
<1> QED BY <1>1, <1>2, <1>3 DEF Next

LEMMA Audited ==
  ASSUME OneOperator, ~CanCrash
  PROVE  (Spec => []AuditInv) /\ (MaterializedSpec => []AuditInv)
<1>1. Init => FreshInv /\ AuditInv
  BY DEF Init, FreshInv, LiveIsCurrent, LiveToken, Fresh, AuditInv,
         NothingPostedYet, Accounted, AtMostOnce, PostedBatchFrozen
<1>2. InitMaterialized => FreshInv /\ AuditInv
  BY DEF InitMaterialized, FreshInv, LiveIsCurrent, LiveToken, Fresh, AuditInv,
         NothingPostedYet, Accounted, AtMostOnce, PostedBatchFrozen
<1> QED
  BY <1>1, <1>2, Initially, InitiallyMaterialized, StepPreserves, FreshPreserved,
     AuditPreserved, PTL
  DEF Spec, MaterializedSpec

\* For one operator whose commands run to their end: whatever GitHub answers,
\* loses or reports wrongly, and however often `rr post` is repeated, no draft
\* goes through two calls of the adapter.
THEOREM NeverTwice ==
  ASSUME OneOperator, ~CanCrash
  PROVE  (Spec => []AtMostOnce) /\ (MaterializedSpec => []AtMostOnce)
<1>1. AuditInv => AtMostOnce
  BY DEF AuditInv
<1> QED BY <1>1, Audited, PTL

\* For that operator, too: once the commands have ended every comment has its
\* posted action (store_posted_batch_action), and a batch that has one keeps
\* the digest that was posted.
THEOREM AuditHolds ==
  ASSUME OneOperator, ~CanCrash
  PROVE  (Spec => []AuditTrue) /\ (MaterializedSpec => []AuditTrue)
<1>1. AuditInv => AuditTrue
  BY DEF AuditInv, Accounted, AuditTrue, AuditComplete, AllIdle, Sending
<1> QED BY <1>1, Audited, PTL

-----------------------------------------------------------------------------
(***************************************************************************)
(* The batch, its rows and its processes implement PostingContract: every  *)
(* step generates, revises, approves or delivers texts as the contract     *)
(* allows, or changes nothing the contract speaks of.                      *)
(***************************************************************************)


Sent == {Binding(c.draft, c.body, c.digest) : c \in remote}

\* The variables of the contract.
Mapped == <<Len(payload), Offered, accepted, Sent>>

LEMMA MappedKept ==
  ASSUME UNCHANGED <<payload, accepted, remote>>, Stored' = Stored
  PROVE  UNCHANGED Mapped
BY DEF Mapped, Offered, Sent, Binding

\* Every digest stands for offered texts, and an edited one for a payload.
LEMMA OfferedTexts ==
  ASSUME IInv, NEW n \in 0..Len(payload)
  PROVE  /\ n > 0 => Contract!OfVersion(n) =
                       {Binding(d, Text(d, n), n) : d \in payload[n].drafts}
         /\ n = 0 => Contract!OfVersion(n) =
                       {Binding(d, Text(d, n), n) : d \in Stored}
<1>1. \A o \in Offered :
        \/ /\ o.digest = 0
           /\ \E d \in Stored : o = Binding(d, Generated[d], 0)
        \/ /\ o.digest \in 1..Len(payload)
           /\ \E d \in payload[o.digest].drafts :
                o = Binding(d, payload[o.digest].body[d], o.digest)
  <2> SUFFICES ASSUME NEW o \in Offered,
                      ~ \E d \in Stored : o = Binding(d, Generated[d], 0)
               PROVE  /\ o.digest \in 1..Len(payload)
                      /\ \E d \in payload[o.digest].drafts :
                           o = Binding(d, payload[o.digest].body[d], o.digest)
    BY DEF Binding
  <2>1. PICK m \in 1..Len(payload) :
          o \in {Binding(d, payload[m].body[d], m) : d \in payload[m].drafts}
    BY DEF Offered
  <2>2. PICK d \in payload[m].drafts : o = Binding(d, payload[m].body[d], m)
    BY <2>1
  <2>3. o.digest = m
    BY <2>2 DEF Binding
  <2> QED BY <2>2, <2>3
<1>2. \A d \in Stored : Binding(d, Generated[d], 0) \in Offered
  BY DEF Offered
<1>3. \A m \in 1..Len(payload) : \A d \in payload[m].drafts :
        Binding(d, payload[m].body[d], m) \in Offered
  BY DEF Offered
<1>4. \A d, b, m : Binding(d, b, m).digest = m
  BY DEF Binding
<1>5. Len(payload) \in Nat
  BY DEF IInv, TypeOK
<1>6. CASE n = 0
  <2>1. \A o \in Offered : o.digest = 0
          => \E d \in Stored : o = Binding(d, Generated[d], 0)
    BY <1>1, <1>5
  <2> QED BY <1>2, <1>4, <1>6, <2>1 DEF Contract!OfVersion, Text
<1>7. CASE n > 0
  <2>1. \A o \in Offered : o.digest = n
          => \E d \in payload[n].drafts : o = Binding(d, payload[n].body[d], n)
    BY <1>1, <1>7
  <2>2. \A d : Text(d, n) = payload[n].body[d]
    BY <1>7 DEF Text
  <2>3. n \in 1..Len(payload)
    BY <1>5, <1>7
  <2> QED BY <1>3, <1>4, <1>7, <2>1, <2>2, <2>3 DEF Contract!OfVersion
<1> QED BY <1>5, <1>6, <1>7

\* An approval accepts texts of one version, and of an edited one all.
LEMMA ApproveImplements ==
  ASSUME IInv, NEW p \in Procs, ApproveToken(p)
  PROVE  Contract!Next \/ UNCHANGED Mapped
<1>0. PICK l : l = local[p]
  OBVIOUS
<1>1. SnapshotBound(l)
  BY <1>0 DEF ApproveToken, IInv, ProcsKnow, Knows, Holding
<1>2. UNCHANGED <<items, payload, remote>>
  BY DEF ApproveToken, db
<1>3. Stored' = Stored /\ Offered' = Offered /\ Sent' = Sent
  BY <1>2 DEF Stored, Offered, Sent, Binding
<1>4. CASE UNCHANGED accepted
  BY <1>2, <1>3, <1>4, MappedKept
<1>5. CASE accepted' = accepted \cup Accepts(l)
  <2> DEFINE n == l.digest
  <2>1. n \in 0..Len(payload)
    BY <1>1 DEF SnapshotBound
  <2>2. /\ l.drafts # {} /\ l.drafts \subseteq Stored
        /\ \A d \in l.drafts : l.body[d] = Text(d, n)
        /\ n > 0 => l.drafts = payload[n].drafts
    BY <1>1 DEF SnapshotBound
  <2>3. Accepts(l) = {Binding(d, Text(d, n), n) : d \in l.drafts}
    BY <2>2 DEF Accepts, Binding
  <2>4. Accepts(l) # {}
    BY <2>2, <2>3
  <2>5. Accepts(l) \subseteq Contract!OfVersion(n)
    <3>1. CASE n = 0
      BY <2>1, <2>2, <2>3, <3>1, OfferedTexts
    <3>2. CASE n > 0
      BY <2>1, <2>2, <2>3, <3>2, OfferedTexts
    <3> QED BY <2>1, <3>1, <3>2
  <2>6. n > 0 => Accepts(l) = Contract!OfVersion(n)
    BY <2>1, <2>2, <2>3, OfferedTexts
  <2>7. Contract!Approve(n, Accepts(l))
    BY <1>2, <1>3, <1>5, <2>4, <2>5, <2>6 DEF Contract!Approve, Sent
  <2> QED
    BY <2>1, <2>5, <2>7 DEF Contract!Next
<1> QED
  BY <1>0, <1>4, <1>5 DEF ApproveToken

\* A revision offers the texts of every stored row under the next digest.
LEMMA ReviseImplements ==
  ASSUME IInv, NEW p \in Procs, EditCommit(p)
  PROVE  Contract!Next
<1>n. PICK n : n = Len(payload)
  OBVIOUS
<1> DEFINE body == [d \in Drafts |-> items'[d].body]
           new == [drafts |-> Stored, body |-> body]
           now == {Binding(d, body[d], n + 1) : d \in Stored}
<1>0. IInv'
  BY StepPreserves DEF Next, Step
<1>1. body \in [Drafts -> Bodies] /\ Stored \in SUBSET Drafts
  BY <1>0 DEF IInv, TypeOK, Item, Stored
<1>2. payload' = Append(payload, new) /\ payload \in Seq(Payload)
  BY DEF EditCommit, IInv, TypeOK
<1>3. Stored # {} /\ UNCHANGED <<accepted, remote>>
  BY DEF EditCommit, IInv, ProcsKnow, Knows
<1>4. Stored' = Stored
  BY DEF EditCommit, IInv, ProcsKnow, Knows, Stored
<1> HIDE DEF new
<1>5. /\ n \in Nat /\ Len(payload') = n + 1
      /\ payload'[n + 1] = new
      /\ \A m \in 1..n : payload'[m] = payload[m]
  BY <1>n, <1>2
<1>6. new.drafts = Stored /\ new.body = body
  BY DEF new
<1> HIDE DEF body
<1> DEFINE Edited(m) == {Binding(d, payload[m].body[d], m) :
                           d \in payload[m].drafts}
           After(m) == {Binding(d, payload'[m].body[d], m) :
                          d \in payload'[m].drafts}
           first == {Binding(d, Generated[d], 0) : d \in Stored}
<1>7. Offered = first \cup UNION {Edited(m) : m \in 1..n}
  BY <1>n DEF Offered
<1>8. Offered' = first \cup UNION {After(m) : m \in 1..(n + 1)}
  BY <1>4, <1>5 DEF Offered, Binding
<1>9. \A m \in 1..n : After(m) = Edited(m)
  BY <1>5 DEF Binding
<1>10. After(n + 1) = now
  BY <1>5, <1>6 DEF Binding
<1>11. Offered' = Offered \cup now
  <2>1. \A m : m \in 1..(n + 1) <=> m \in 1..n \/ m = n + 1
    BY <1>5
  <2> HIDE DEF now, first, Edited, After
  <2>2. n + 1 \in 1..(n + 1) /\ 1..n \subseteq 1..(n + 1)
    BY <1>5
  <2> SUFFICES ASSUME NEW o
               PROVE  o \in Offered' <=> o \in Offered \/ o \in now
    OBVIOUS
  <2>3. o \in Offered <=> o \in first \/ \E m \in 1..n : o \in Edited(m)
    BY <1>7, Zenon
  <2>4. o \in Offered'
          <=> o \in first \/ \E m \in 1..(n + 1) : o \in After(m)
    BY <1>8, Zenon
  <2>5. (\E m \in 1..(n + 1) : o \in After(m))
          <=> (\E m \in 1..n : o \in Edited(m)) \/ o \in now
    BY <1>9, <1>10, <2>1, <2>2, Zenon
  <2> QED BY <2>3, <2>4, <2>5, Zenon
<1>12. now = {[draft |-> d, body |-> body[d], digest |-> n + 1] : d \in Stored}
  BY DEF Binding
<1>13. Contract!Revise(Stored, body)
  BY <1>n, <1>3, <1>5, <1>11, <1>12 DEF Contract!Revise, Binding
<1> QED
  BY <1>1, <1>13 DEF Contract!Next

LEMMA SendImplements ==
  ASSUME IInv, NEW p \in Procs, PostSend(p)
  PROVE  Contract!Next \/ UNCHANGED Mapped
<1>0. PICK l : l = local[p]
  OBVIOUS
<1>1. SnapshotBound(l) /\ Accepts(l) \subseteq accepted
  BY <1>0 DEF PostSend, IInv, ProcsKnow, Knows, Holding, Sending
<1>2. UNCHANGED <<items, payload, accepted>>
  BY DEF PostSend, db
<1>3. Stored' = Stored /\ Offered' = Offered
  BY <1>2 DEF Stored, Offered, Binding
<1>4. PICK d \in l.todo :
        \/ remote' = remote
        \/ remote' = remote \cup {[draft |-> d, body |-> l.body[d],
                                   digest |-> l.digest, post |-> l.post]}
  BY <1>0 DEF PostSend
<1>5. CASE remote' = remote
  BY <1>2, <1>3, <1>5, MappedKept
<1>6. CASE remote' = remote \cup {[draft |-> d, body |-> l.body[d],
                                   digest |-> l.digest, post |-> l.post]}
  <2> DEFINE o == Binding(d, l.body[d], l.digest)
  <2>1. o \in accepted
    BY <1>1 DEF SnapshotBound, Accepts, Binding
  <2>2. Sent' = Sent \cup {o}
    <3> DEFINE c == [draft |-> d, body |-> l.body[d], digest |-> l.digest,
                     post |-> l.post]
    <3>1. Binding(c.draft, c.body, c.digest) = o
      OBVIOUS
    <3>2. Sent' = {Binding(x.draft, x.body, x.digest) : x \in remote \cup {c}}
      BY <1>6 DEF Sent, Binding
    <3> HIDE DEF c, o
    <3> QED BY <3>1, <3>2 DEF Sent
  <2>3. Contract!Deliver(o)
    BY <1>2, <1>3, <2>1, <2>2 DEF Contract!Deliver, Sent, Binding
  <2> QED BY <2>1, <2>3 DEF Contract!Next
<1> QED BY <1>4, <1>5, <1>6

LEMMA InsertImplements ==
  ASSUME IInv, MaterializeInsert
  PROVE  Contract!Next
<1>1. inserting \in Drafts /\ UNCHANGED <<payload, accepted, remote>>
  BY DEF MaterializeInsert, IInv, TypeOK
<1>2. Stored' = Stored \cup {inserting}
  BY <1>1 DEF MaterializeInsert, Stored, IInv, TypeOK
<1>d. PICK d \in Drafts : d = inserting
  BY <1>1
<1> DEFINE edited == UNION {{Binding(x, payload[n].body[x], n) :
                               x \in payload[n].drafts} : n \in 1..Len(payload)}
<1>3. Offered = {Binding(x, Generated[x], 0) : x \in Stored} \cup edited
  BY DEF Offered
<1>4. Offered' = {Binding(x, Generated[x], 0) : x \in Stored \cup {d}}
                   \cup edited
  BY <1>1, <1>2, <1>d DEF Offered, Binding
<1>5. Contract!GeneratedOf({d}) = {Binding(d, Generated[d], 0)}
  BY DEF Contract!GeneratedOf, Binding
<1> HIDE DEF edited
<1>6. Offered' = Offered \cup Contract!GeneratedOf({d})
  BY <1>3, <1>4, <1>5
<1>7. Contract!Generate(d)
  BY <1>1, <1>6 DEF Contract!Generate, Binding
<1> QED BY <1>7 DEF Contract!Next

\* Every step implements a step of the contract or none.
LEMMA StepImplements ==
  ASSUME IInv, [Next]_vars
  PROVE  Contract!Next \/ UNCHANGED Mapped
<1>1. ASSUME NEW p \in Procs,
             \/ ApproveLoad(p) \/ ApproveDrafts(p) \/ ApproveItemCheck(p)
             \/ ApproveMintCheck(p) \/ ApproveMint(p) \/ ApproveKeepToken(p)
             \/ ApproveBatchCheck(p) \/ ApproveBatch(p) \/ EditRead(p)
             \/ PostLoad(p) \/ PostDrafts(p) \/ PostToken(p)
             \/ PostAdapterError(p) \/ PostRecordCheck(p) \/ PostRecord(p)
             \/ Crash(p)
      PROVE  UNCHANGED Mapped
  <2>1. UNCHANGED <<items, payload, accepted, remote>>
    BY <1>1 DEF ApproveLoad, ApproveDrafts, ApproveItemCheck,
       ApproveMintCheck, ApproveMint, ApproveKeepToken, ApproveBatchCheck,
       ApproveBatch, EditRead, PostLoad, PostDrafts, PostToken,
       PostAdapterError, PostRecordCheck, PostRecord, Crash, db
  <2> QED BY <2>1, MappedKept DEF Stored
<1>2. ASSUME NEW p \in Procs, ApproveItem(p)
      PROVE  UNCHANGED Mapped
  <2>1. UNCHANGED <<payload, accepted, remote>>
    BY <1>2 DEF ApproveItem
  <2>2. local[p].draft \in Stored
    BY <1>2 DEF ApproveItem, IInv, ProcsKnow, Knows, Holding, Approving,
                SnapshotBound
  <2>3. Stored' = Stored
    BY <1>2, <2>2 DEF ApproveItem, Stored, IInv, TypeOK, Item
  <2> QED BY <2>1, <2>3, MappedKept
<1>3. ASSUME UNCHANGED vars \/ Supersede
                 \/ (\E d \in Drafts : MaterializeCheck(d))
      PROVE  UNCHANGED Mapped
  <2>1. UNCHANGED <<items, payload, accepted, remote>>
    BY <1>3 DEF vars, Supersede, MaterializeCheck, db
  <2> QED BY <2>1, MappedKept DEF Stored
<1> QED
  BY <1>1, <1>2, <1>3, ApproveImplements, ReviseImplements, SendImplements,
     InsertImplements DEF Next, Start, Step, Materialize

\* The outbound path keeps the promise of PostingContract: only texts that
\* were offered together and approved are delivered, however the statements
\* of the commands interleave.
THEOREM Implements == Spec => ContractSpec
<1>1. Init => Contract!Init
  <2> SUFFICES ASSUME Init PROVE Contract!Init
    OBVIOUS
  <2>1. Stored = {} /\ Len(payload) = 0 /\ accepted = {} /\ remote = {}
    BY DEF Init, Stored
  <2>2. Offered = Contract!GeneratedOf({})
    BY <2>1 DEF Offered, Contract!GeneratedOf
  <2> QED BY <2>1, <2>2 DEF Contract!Init
<1>2. IInv /\ [Next]_vars => [Contract!Next]_(Contract!vars)
  BY StepImplements DEF Mapped, Contract!vars, Sent
<1> QED
  BY <1>1, <1>2, Invariance, PTL DEF Spec, ContractSpec, Contract!Spec
=============================================================================
