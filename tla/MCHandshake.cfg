CONSTANTS
  Passwords <- MCPasswords
  ProofLen = 1
  DeviceLen = 2
SPECIFICATION FairSpec
INVARIANTS TypeOK Agreement RejectionIsJust ServerHandoverClean NoMutualWait
PROPERTY HandshakeEnds
CHECK_DEADLOCK FALSE
