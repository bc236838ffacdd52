SPECIFICATION FairSpec
CONSTANTS
  Configs <- SomeConfigs
  RtspRetries = 2
  MaxReports = 2
INVARIANTS
  TypeOK
  NothingOutlives
  NoUseAfterRelease
PROPERTIES
  AssertsHoldOnceStarted
  CallsReturn
  LossIsReported
CHECK_DEADLOCK FALSE
