SPECIFICATION FairSpec
CONSTANTS
  PipeSize = 1
  MaxMessages = 2
  MaxPhases = 2
  MaxRetries = 1
INVARIANTS ReceiveIsAnswered CancellationIsKept
PROPERTIES CallsReturn ImplementsSupervisedRun
CHECK_DEADLOCK FALSE
