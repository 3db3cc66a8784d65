SPECIFICATION PromptSpec
CONSTANTS
  MaxPut = 3
  MaxDrops = 3
INVARIANTS
  AckedWasHeard
PROPERTIES
  AcceptsWhatIsNew
  AcknowledgementsGrow
  ImplementsChannel
  PutIsReceived
CHECK_DEADLOCK FALSE
