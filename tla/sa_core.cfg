SPECIFICATION FairSpec
CONSTANTS
  Ids = {a1, a2, a3}
  ToolCalls = {call}
  Workers = {worker}
  Monitors = {monitor}
  MaxAgents = 2
  MaxRounds = 2
  None = none
INVARIANT WorkIsBounded
PROPERTIES VerdictStands NoOrphans ExecutionsEnd
CHECK_DEADLOCK FALSE
