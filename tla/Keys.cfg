SPECIFICATION KeySpec
CONSTANTS
  MaxGen <- MCMaxGen
  MaxEph = 3
CHECK_DEADLOCK FALSE
INVARIANTS
  Authentic
  BackedVk
