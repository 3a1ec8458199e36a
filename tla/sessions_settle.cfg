SPECIFICATION FairSpec
CONSTANTS
  Sessions = {s1, s2, s3}
  Commands = {c1, c2}
  Agents = {}
  Providers = {"hosted", "linked"}
  Kinds = {"review", "fresh", "resume", "return"}
  CanFail = FALSE
  MaxAttempts = 3
  MaxResults = 0
  NoSession = NoSession
CHECK_DEADLOCK FALSE
INVARIANTS
  ReusableIsResumable
PROPERTIES
  EventuallySettled
