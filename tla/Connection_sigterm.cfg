SPECIFICATION Spec
CONSTANTS
  PipeSize = 1
  MaxMessages = 2
  MaxPhases = 2
  MaxRetries = 1
PROPERTY NoConnectionAfterCancel
CHECK_DEADLOCK FALSE
