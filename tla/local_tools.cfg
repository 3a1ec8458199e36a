CONSTANTS
 s1 = s1
 s2 = s2
 Sessions = {s1, s2}
 Findings = {1, 2, 3}
 OwnerOf <- MCOwner
 NoSession = NoSession
 MaxChanges = 2
 p1 = p1
 p2 = p2
 other = other
 Current = 4
 Rerunnable = {1, 3}
 Starts = {0, 1, 2, 3}
 Openers = {p1, p2}
 MaxStoreSeconds = 1
 MaxStoreKills = 1
 NoId = NoId
 KeyId = KeyId
 Processes = {p1, p2}
 Updaters = {p1}
 Newest = 3
 Envelope <- MCEnvelope
 Browsers <- MCBrowsers
 OtherIds = {other}
 Schemas = {0, 1}
 MaxCommands = 2
 MaxKills = 1
SPECIFICATION ToolSpec
CHECK_DEADLOCK FALSE
INVARIANTS
  CockpitInv
  WritesAreForActive
  StoreInv
  VersionIsHonest
  HostInv
  BinaryKept
PROPERTIES
  VersionNeverFalls
