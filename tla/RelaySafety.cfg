SPECIFICATION Spec
CONSTANTS
  r1 = r1
  r2 = r2
  RotationNonce <- MCRotationNonce
  EpochMod = 2
  ClientFrameSize = 1
  BridgeFrameSize = 1
  KeyRotationEnabled = TRUE
  MaxBytesPerKey = 2
  Window = 12
  MaxFrames = 2
  MaxRotations = 1
  MaxRequests = 1
SYMMETRY Symmetry
CHECK_DEADLOCK FALSE
INVARIANTS
  NonceUnique
  KeyAgreement
  GapFreeUnlessCut
  ClientRejectsNothing
  BridgeRejectsOnlyStaleKeys
PROPERTIES
  RefinesDelivery
