SPECIFICATION HFairSpec
CONSTANTS
  Tasks = {n1}
  NoTask = none
  Cron = {}
  Prompt = {}
  DueTimes = {1}
  Period = 1
  HasRunner = TRUE
  LongSleep = 2
  MaxTime = 2
  MaxWriteFailures = 0
  MaxPreempted = 0
  MaxDeaths = 1
  Policy = "mark"
  Grace = 2
  Stale = 0
  Beat = 1
  MaxHalts = 2
PROPERTIES OnceBeginsOnce DueOnceIsServed RunningEnds
CHECK_DEADLOCK FALSE
