CONSTANTS
 g1 = g1
 g2 = g2
 h1 = h1
 h2 = h2
 e1 = e1
 e2 = e2
 Reviews = {g1, g2}
 n1 = n1
 n2 = n2
 Pulls = {n1, n2}
 Roots = {h1, h2}
 Reentrants = {e1, e2}
 NoRoot = NoRoot
 NoReview = NoReview
 MaxBindings = 2
 MaxEntries = 2
 MaxNow = 1
 Stages = {g1, g2}
 Prompts = {"p1", "p2"}
 Short = {"p1"}
 Raws = {"raw"}
 Packs <- MCPacks
 NoPack = NoPack
 Budget = 1
 MaxTries = 1
SPECIFICATION WorkSpec
SYMMETRY MCSymmetry
CHECK_DEADLOCK FALSE
INVARIANTS
  ReentryInv
  StageInv
PROPERTIES
  WorktreesDoNotMix
