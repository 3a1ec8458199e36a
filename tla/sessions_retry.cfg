SPECIFICATION Spec
CONSTANTS
  Sessions = {s1, s2, s3, s4}
  Commands = {c}
  Agents = {}
  Providers = {"hosted", "linked"}
  Kinds = {"review", "resume", "return"}
  CanFail = TRUE
  MaxAttempts = 4
  MaxResults = 0
  NoSession = NoSession
SYMMETRY Symmetry
CHECK_DEADLOCK FALSE
INVARIANTS
  RetriesLeaveOne
