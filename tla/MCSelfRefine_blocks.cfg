SPECIFICATION Spec
CONSTANTS
  Block = 2
  WarningTokens = 2
  Budget = 7
  PauseAt = 0
  MinRounds = 2
  MinNoGap = 2
  MaxRetries = 1
  ExtraBudgets = {2, 4}
  MaxReport = 3
  MaxOvershoot = 2
  MaxReopened = 1
INVARIANTS
  FinalLabelReached
CHECK_DEADLOCK FALSE
