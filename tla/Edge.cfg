SPECIFICATION EdgeSpec
CONSTANTS
  Request <- MCRequest
  MaxHead = 3
  Chunk = 2
  MaxResp = 2
  Parts = 3
  WsFrames = 2
  SinkCap = 1
  WsInput = 4
  Origins <- MCOrigins
CHECK_DEADLOCK FALSE
INVARIANTS
  Verbatim
  HeadLimit
  NothingDropped
  FramePerMessage
  ReadsInOrder
