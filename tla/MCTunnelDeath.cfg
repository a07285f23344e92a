SPECIFICATION FairSpec
CONSTANTS
  Streams = {}
  NoStream = NoStream
  Client = FALSE
  PingOn = TRUE
  Stoppable = TRUE
  FrameCap = 1
  InboundCap = 1
  MaxBad = 1
  MaxBatch = 1
INVARIANTS
  KilledMeansShutdown
  DeathIsLogged
  FollowersAreSilent
PROPERTIES
  SilentPeerDetected
CHECK_DEADLOCK FALSE
