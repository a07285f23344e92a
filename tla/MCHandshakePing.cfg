CONSTANTS
  Passwords <- MCPasswords
  ProofLen = 1
  DeviceLen = 2
SPECIFICATION Spec
INVARIANT UnansweredMeansDead
CHECK_DEADLOCK FALSE
