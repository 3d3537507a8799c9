SPECIFICATION FairSpec
CONSTANTS
  Tasks = {q1}
  NoTask = none
  Cron = {}
  Prompt = {q1}
  DueTimes = {1}
  Period = 1
  HasRunner = TRUE
  LongSleep = 2
  MaxTime = 2
  MaxWriteFailures = 1
  MaxPreempted = 1
  MaxDeaths = 1
  Policy = "run"
  Grace = 0
  Stale = 0
  Beat = 1
  MaxHalts = 1
PROPERTIES StopEnds
CHECK_DEADLOCK FALSE
