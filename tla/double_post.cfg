SPECIFICATION MaterializedSpec
CONSTANTS
  Drafts = {d1}
  Bodies = {g}
  g = g
  Generated <- MCGenerated
  Approvers = {a}
  Editors = {}
  Posters = {p1, p2}
  Surfaces = {"cli"}
  CanCrash = FALSE
  MaxRevisions = 0
  MaxPosts = 2
  NoToken = NoToken
  NoDraft = NoDraft
INVARIANTS
  AtMostOnce
CHECK_DEADLOCK FALSE
