SPECIFICATION Spec
CONSTANTS
  r1 = r1
  r2 = r2
  RotationNonce <- MCRotationNonce
  EpochMod = 2
  ClientFrameSize = 1
  BridgeFrameSize = 1
  KeyRotationEnabled = TRUE
  MaxBytesPerKey = 2
  Window = 12
  MaxFrames = 2
  MaxRotations = 1
  MaxRequests = 1
CHECK_DEADLOCK FALSE
INVARIANT RotationKeepsSession
