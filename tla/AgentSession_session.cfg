SPECIFICATION FairSpec
CONSTANTS
  Main = main
  Lanes = {main, child}
  Limit = 4
  NoticeAt = 2
  MaxResponses = 2
  MaxTokens = 2
  MaxBuffered = 1
  MaxPhases = 2
  MaxRetries = 1
INVARIANTS NeverOvercharged ExactWhenSaved AllInputsAnswered AnswerIsFresh
PROPERTIES ImplementsMeteredPhase RunEnds
CHECK_DEADLOCK FALSE
