SPECIFICATION FairSpec
CONSTANTS
  Block = 2
  WarningTokens = 2
  Budget = 8
  PauseAt = 6
  MinRounds = 2
  MinNoGap = 2
  MaxRetries = 1
  ExtraBudgets = {2}
  MaxReport = 3
  MaxOvershoot = 2
  MaxReopened = 1
INVARIANTS ForkIntentSurvives PrefixStaysWithinPause StoppedHasEveryLabel
PROPERTIES RunEnds ImplementsDurableRun
CHECK_DEADLOCK FALSE
