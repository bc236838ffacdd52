CONSTANTS
  Layout <- MixedLayout
  Modulus = 24
  FirstSeq = 8
  MaxLoss = 3
  Cooldown = 1
  Modes <- AllModes
SPECIFICATION Spec
CHECK_DEADLOCK FALSE
INVARIANTS QueueIntact SubmitsWholeFrames AssertsHold RecoverableIsSubmitted
PROPERTIES LossNeverContradicted
