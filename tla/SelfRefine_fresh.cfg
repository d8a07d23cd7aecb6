SPECIFICATION Spec
CONSTANTS
  Block = 2
  WarningTokens = 2
  Budget = 7
  PauseAt = 0
  MinRounds = 2
  MinNoGap = 2
  MaxRetries = 1
  ExtraBudgets = {2}
  MaxReport = 3
  MaxOvershoot = 2
  MaxReopened = 1
INVARIANTS ArchiveConsistent NoticeOncePerAllowance ExportsFollowArchive ReturnedExportsComplete 
CHECK_DEADLOCK FALSE
