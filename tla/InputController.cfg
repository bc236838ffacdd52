CONSTANTS
  Callers = {"ui", "pad"}
  NumHolders = 8
  Int16Min <- MinusTwo
  Int16Max = 1
  WheelDelta = 3
  MaxGamepads = 2
  GfeGamepads = 1
  Configs <- ControllerConfigs
SPECIFICATION Spec
CHECK_DEADLOCK FALSE
INVARIANT MergedIsQueued
