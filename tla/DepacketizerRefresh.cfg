CONSTANTS
  MaxFrames = 6
  QueueBound = 2
  DropLimit = 3
  None = None
  Kinds <- Threaded
SPECIFICATION Spec
CHECK_DEADLOCK FALSE
INVARIANTS RefreshGivesIdr
