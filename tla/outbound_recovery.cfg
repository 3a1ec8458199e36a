SPECIFICATION RecoverySpec
CONSTANTS
  Findings = {f1, f2}
  Clerks = {k1, k2}
  NoBatch = NoBatch
  MaxRuns = 2
  MaxBatches = 2
  MaxEdits = 1
  MaxRevised = 1
SYMMETRY MCSym
CHECK_DEADLOCK FALSE
INVARIANTS
  RecoveryInv
  SentStaysSent
PROPERTIES
  QueueMovesForward
