SPECIFICATION Spec
CONSTANTS
  Periods = {2}
  Grace = 2
  Stall = 5
  Write = 10
  Slow = 0
  RoundTrip = 1
  FrameCap = 1
  MaxWaiting = 0
  SendBuf = 1
  MaxArrived = 2
INVARIANTS
  StallSparesTunnel
CHECK_DEADLOCK FALSE
