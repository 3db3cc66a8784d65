SPECIFICATION LinkSpec
CONSTANTS
  MaxChanges = 6
  MaxTasks = 4
INVARIANTS
  AliveUntilTheEnd
PROPERTIES
  ReplacedUnseen
  AliveFollowsConnection
CHECK_DEADLOCK FALSE
