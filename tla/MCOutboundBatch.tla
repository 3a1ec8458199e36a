--------------------------- MODULE MCOutboundBatch ---------------------------
(* Instances of OutboundBatch for TLC, and its liveness properties.        *)
EXTENDS OutboundBatch, TLC

CONSTANT g \* the generated text of every draft

MCGenerated == [d \in Drafts |-> g]

\* No definition tells one draft from another, nor one editor.
MCSymmetric == Permutations(Drafts) \cup Permutations(Editors)

\* Every command runs to its end once started: no step of it waits for another
\* process.  The operator keeps asking `rr approve` for an approval.
Fairness ==
  /\ \A p \in Procs : WF_vars(Step(p))
  /\ \A p \in Approvers : SF_vars(ApproveLoad(p) /\ local'[p].surface = "cli")

PersistentSpec == MaterializedSpec /\ Fairness

\* An edit that revokes an approval forces a new one, and a new one can be
\* had: an operator who keeps asking for it gets the batch approved again,
\* unless it has been posted or its run was superseded.
ReapprovalSucceeds ==
  []<>(Postable \/ posted # {} \/ superseded)
==============================================================================
