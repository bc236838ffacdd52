CONSTANTS
  MaxFrames = 6
  QueueBound = 2
  DropLimit = 3
  None = None
  Kinds <- SomeKinds
SPECIFICATION Spec
CHECK_DEADLOCK FALSE
INVARIANTS StateIntact DecoderInputDecodable
PROPERTIES IdrIsRequested
