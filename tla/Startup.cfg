SPECIFICATION Spec
CONSTANT Addr <- MCAddr
INVARIANTS
  ConflictsCaught
  
  AssumptionsHold
PROPERTY
  SignalStops
CHECK_DEADLOCK FALSE
