SPECIFICATION Spec
CONSTANTS
  Configs <- FailingStarts
  RtspRetries = 2
  MaxReports = 2
INVARIANT AssertsHold
CHECK_DEADLOCK FALSE
