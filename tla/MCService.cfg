CONSTANTS
  c1 = c1
  c2 = c2
  Conns = {c1, c2}
  Stoppable = TRUE
SPECIFICATION FairSpec
INVARIANTS TypeOK OneLiveTunnel RetryIsFresh StopKillsListed
PROPERTIES ConnectionResolves
CHECK_DEADLOCK FALSE
