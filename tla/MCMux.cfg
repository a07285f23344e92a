SPECIFICATION FairSpec
CONSTANTS
  c1 = c1
  c2 = c2
  Conns = {c1, c2}
  IdSpace = 3
  MaxChunks <- Chunks
  WireCap = 1
  InboundCap = 1
  MaxBad = 1
  NoConn = NoConn
INVARIANTS
  TypeOK
  NoStaleEntry
PROPERTIES
  StreamsArePipes
  StreamsEnd
CHECK_DEADLOCK FALSE
