SPECIFICATION Spec
CONSTANTS
  Sessions = {s1, s2, s3}
  Commands = {c1, c2}
  Agents = {w}
  Providers = {"hosted", "linked"}
  Kinds = {"review", "resume"}
  CanFail = TRUE
  MaxAttempts = 3
  MaxResults = 1
  NoSession = NoSession
SYMMETRY Symmetry
CHECK_DEADLOCK FALSE
INVARIANTS
  SessionInv
  ReentriesSeeAnnouncements
