SPECIFICATION WireSpec
CONSTANTS
  MaxPut = 3
  MaxDrops = 3
INVARIANTS
  WireTypeOK
  NothingForgotten
  TrimIsSafe
CHECK_DEADLOCK FALSE
