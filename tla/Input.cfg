CONSTANTS
  Callers = {"ui", "pad"}
  NumHolders = 8
  Int16Min <- MinusTwo
  Int16Max = 1
  WheelDelta = 3
  MaxGamepads = 2
  GfeGamepads = 1
  Configs <- SomeConfigs
SPECIFICATION FairSpec
CHECK_DEADLOCK FALSE
INVARIANTS QueuesIntact DirtyHasCarrier StateReachesHost ClickFollowsMotion SentAsAccepted
PROPERTIES PendingIsSent StopCompletes
