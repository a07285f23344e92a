SPECIFICATION FairSpec
CONSTANTS
  Streams = {s1}
  NoStream = NoStream
  Client = TRUE
  PingOn = FALSE
  Stoppable = FALSE
  FrameCap = 1
  InboundCap = 1
  MaxBad = 1
  MaxBatch = 1
PROPERTIES
  PumpEndsOnDeath
CHECK_DEADLOCK FALSE
