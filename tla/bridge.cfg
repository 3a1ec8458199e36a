CONSTANTS
 c1 = c1
 c2 = c2
 x1 = x1
 x2 = x2
 Clicks = {c1, c2}
 Days <- MCDays
 NoSession = NoSession
 SessionIds = {x1, x2}
 MaxHostKills = 1
SPECIFICATION BridgeSpec
CHECK_DEADLOCK FALSE
INVARIANTS
  AnswersAreTrue
  OkIsReadBack
PROPERTIES
  EveryClickAnswered
