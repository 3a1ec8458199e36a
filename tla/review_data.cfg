CONSTANTS
 fpA = fpA
 fpB = fpB
 s1 = s1
 s2 = s2
 o1 = o1
 o2 = o2
 k1 = k1
 k2 = k2
 r1 = r1
 r2 = r2
 w1 = w1
 f1 = f1
 f2 = f2
 Untitled = Untitled
 Fingerprints = {fpA, fpB}
 Packs <- MCPacks
 Runs = {1}
 Submitters = {s1, s2}
 Triagers = {o1, o2}
 RequestedStates = {"accepted", "ignored", "stale"}
 MaxRows = 2
 MaxClock = 1
 Scenarios <- MCScenarios
 NoItem = NoItem
 MemoryKeys = {k1, k2}
 MemoryKinds = {"promote", "demote", "mark_anti_pattern"}
 Bodies = {"why", "how", ""}
 Commands = {r1}
 Cockpits = {r2}
 Subjects = {"own", "foreign"}
 OwnFindings = {"own"}
 Blank = ""
 QueueScenarios <- MCQueueScenarios
 MaxProposals = 3
 MaxSeconds = 1
 NoFinding = NoFinding
 Calls = {w1}
 Findings = {f1, f2}
 AllowedOperations <- MCAllowed
 MaxFlaws = 2
 Memories = {1, 2}
 Evidence = {3, 4}
 Text <- MCText
 Affinity <- MCAffinity
 Searchers <- MCSearchers
 Queries <- MCQueries
 MaxChanges = 1
 a1 = a1
 Attempts = {a1}
 Providers = {"copilot", "opencode", "reseed_only"}
 MaxProviderSessions = 4
SPECIFICATION DataSpec
CHECK_DEADLOCK FALSE
INVARIANTS
  LedgerInv
  QueuesInv
  GatewayInv
  SearchInv
  TentativeStaysInAudit
  LaunchInv
  ReopenedIsOwn
PROPERTIES
  DecisionsSurviveSightings
  DecisionIsFinal
