SPECIFICATION Spec
CONSTANTS
  Drafts = {d1, d2}
  Bodies = {g, b, c}
  g = g
  Generated <- MCGenerated
  Approvers = {a}
  Editors = {e1, e2}
  Posters = {p}
  Surfaces = {"cli"}
  CanCrash = TRUE
  MaxRevisions = 1
  MaxPosts = 1
  NoToken = NoToken
  NoDraft = NoDraft
SYMMETRY MCSymmetric
CHECK_DEADLOCK FALSE
INVARIANTS
  PostedWasApproved
  PostableWasApproved
  OriginalPreserved
PROPERTIES
  ContractSpec
