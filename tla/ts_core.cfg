SPECIFICATION Spec
CONSTANTS
  Tasks = {n1, c1}
  NoTask = none
  Cron = {c1}
  Prompt = {c1}
  DueTimes = {1}
  Period = 1
  HasRunner = TRUE
  LongSleep = 2
  MaxTime = 2
  MaxWriteFailures = 0
  MaxPreempted = 0
  MaxDeaths = 1
  Policy = "mark"
  Grace = 0
  Stale = 0
  Beat = 1
  MaxHalts = 0
INVARIANT OneWorkerEach
PROPERTIES VerdictsAreFinal BacklogIsNotMissed ImplementsLifecycle
CHECK_DEADLOCK FALSE
