SPECIFICATION Spec
CONSTANTS
  RotationNonce = {r1}
  EpochMod = 4
  Send = {s1, s2}
  Strict = TRUE
  MaxReconnect = 1
  AppConnects = 2
  HookConnects = 3
  MaxFrames = 2
INVARIANTS
  NoOrphanWorker
  ReadyMeansChannel
  DecodesFirstEpoch
  ConnectedIsReady

  
CHECK_DEADLOCK FALSE
