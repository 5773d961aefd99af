SPECIFICATION Spec
CONSTANTS
  Size = 2
  WriteCap = 2
  MaxResend = 1
  MaxChunks = 4
  MaxLosses = 1
  Repeats = TRUE
  StaleAcks = TRUE
  MayClose = TRUE
  MaxNet = 4
CONSTRAINT Bounded
CHECK_DEADLOCK FALSE
INVARIANT InOrder
INVARIANT WithinWindow
PROPERTY IsPipe
