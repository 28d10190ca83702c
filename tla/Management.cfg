SPECIFICATION Spec
CONSTANTS
  Token = {t1, t2}
  Ttl = 1
  MaxTokens = 1
  Conn = {c1, c2, c3}
  MaxSeq = 2
  RateLimit = 1
  Second = 2
  Fresh = 1
  QueueCap = 1
  MaxTime = 4
  MaxBeats = 2
INVARIANTS
  AnsweredNotReplayed
  
  TokenOnce
  
  NoCommandLost
PROPERTY
  HeartbeatStops
CHECK_DEADLOCK FALSE
