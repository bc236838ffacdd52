CONSTANTS
  DataShards = 2
  FecShards = 1
  Modulus = 24
  NumBlocks = 5
  MaxLoss = 3
  InitialDrop = 1
  QueueBound = 2
  OddSize <- LateOddSize
  Misaligned <- LateMisaligned
  Modes <- PassingModes
SPECIFICATION Spec
CHECK_DEADLOCK FALSE
INVARIANTS QueueIntact PlayedInOrder ConcealsOnlyLostAudio
PROPERTIES SkipsOnlyLostBlocks
