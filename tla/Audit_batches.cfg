SPECIFICATION FairSpec
CONSTANTS
  Launchers = {p, q}
  None = None
  Texts <- MCTexts
  Blank = Blank
  Solutions <- MCSolutions
  MaxConcurrency = 2
  MaxRetries = 1
  MaxFaults = 2
  MaxLaunches = 1
INVARIANTS OneJudge ReportedIsExported AllAccounted
PROPERTIES ImplementsJudgedTexts BatchEnds
CHECK_DEADLOCK FALSE
