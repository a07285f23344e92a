SPECIFICATION FairSpec
CONSTANTS
  Streams = {s1}
  NoStream = NoStream
  Client = FALSE
  PingOn = FALSE
  Stoppable = FALSE
  FrameCap = 1
  InboundCap = 1
  MaxBad = 2
  MaxBatch = 1
INVARIANTS
  TypeOK
  FirstDataHasEntry
  NoOrphanStream
PROPERTIES
  DeathFanOut
  ReaderNeverWedges
  OpenResolves
CHECK_DEADLOCK FALSE
