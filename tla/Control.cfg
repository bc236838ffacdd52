CONSTANTS
  MaxFrame = 3
  ControlBound = 2
  AsyncBound = 2
  Scripts <- SomeScripts
  Unstartable <- Threads
  Modes <- SomeModes
SPECIFICATION FairSpec
CHECK_DEADLOCK FALSE
INVARIANTS TypeOK AssertsHold NoLossForgotten LatestIsDelivered
PROPERTIES IdrIsSent StopCompletes
