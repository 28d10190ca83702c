SPECIFICATION Spec
CONSTANTS
  u1 = u1
  u2 = u2
  User <- Sessions
  WarmSize = 2
  MaxSize = 3
  IdleTimeout = 1
  HandshakeTimeout = 1
  MaxTime = 1
  MaxConns = 3
  MaxRetries = 1
SYMMETRY SessionSymmetry
CHECK_DEADLOCK FALSE
INVARIANTS
  WarmTarget
  
  RetriesInOrder

  
  
