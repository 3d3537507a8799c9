SPECIFICATION Spec
CONSTANTS
  RecentTurns = 2
  MaxTurns = 3
  MaxCalls = 2
  MaxRounds = 1
  TurnModes = {"global_write", "auto"}
  TurnCalls <- CallsTried
  InUse = {"sliding_window", "summary_recent"}
  RecursionLimit = 3
INVARIANTS ModelSeesPairs QuestionStands Chronological RunsByConsent
