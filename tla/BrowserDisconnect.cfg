SPECIFICATION Spec
CONSTANTS
  RotationNonce = {r1}
  EpochMod = 4
  Send = {s1}
  Strict = TRUE
  MaxReconnect = 1
  AppConnects = 1
  HookConnects = 3
  MaxFrames = 0
INVARIANT
  DisconnectHolds
CHECK_DEADLOCK FALSE
