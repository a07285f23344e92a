SPECIFICATION Spec
CONSTANTS
  Periods = {5, 10}
  Grace = 8
  Stall = 9
  Write = 10
  Slow = 1
  RoundTrip = 1
  FrameCap = 1
  MaxWaiting = 1
  SendBuf = 1
  MaxArrived = 1
INVARIANTS
  TypeOK
  DetectionBound
  NoFalseAlarm
CHECK_DEADLOCK FALSE
