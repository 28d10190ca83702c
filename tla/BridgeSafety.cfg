SPECIFICATION FairSpec
CONSTANTS
  t1 = t1
  t2 = t2
  w1 = w1
  a1 = a1
  a2 = a2
  TcpConn <- Tcp
  WsConn <- Ws
  IP <- Addresses
  TcpMaxPerIp = 1
  WsMaxPerIp = 1
  TcpTimeout = 1
  WsTimeout = 1
  ShutdownTimeout = 1
  MaxRotations = 1
CHECK_DEADLOCK FALSE
INVARIANTS
  SlotsExact
PROPERTIES
  
  
  ShutdownCompletes
