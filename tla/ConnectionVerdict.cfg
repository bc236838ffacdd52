SPECIFICATION Spec
CONSTANTS
  Configs <- FailingStarts
  RtspRetries = 2
  MaxReports = 2
INVARIANT OneVerdict
CHECK_DEADLOCK FALSE
