SPECIFICATION WireSpec
CONSTANTS
  MaxPut = 3
  MaxDrops = 2
PROPERTIES
  AcknowledgementsGrow
CHECK_DEADLOCK FALSE
