SPECIFICATION PersistentSpec
CONSTANTS
  Drafts = {d1, d2}
  Bodies = {g, b}
  g = g
  Generated <- MCGenerated
  Approvers = {r}
  Editors = {r}
  Posters = {r}
  Surfaces = {"cli", "tui"}
  CanCrash = FALSE
  MaxRevisions = 2
  MaxPosts = 2
  NoToken = NoToken
  NoDraft = NoDraft
CHECK_DEADLOCK FALSE
INVARIANTS
  AtMostOnce
  AuditTrue
  NoWedgedApproval
  SucceededMeansDelivered
PROPERTIES
  ReapprovalSucceeds
