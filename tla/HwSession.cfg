SPECIFICATION SessionSpec
CONSTANTS
  Controllers = {c1, c2}
  Host = nobody
  Secrets = {g1}
  Guesses = {g1, g2}
  TurnTime = 1
  MaxGuessCount = 2
  MaxUp = 1
  MaxDown = 1
INVARIANTS
  SessionTypeOK
  EveryGuessHasOneAnswer
  InformedWhenQuiet
PROPERTIES
  GuessesAreAnswered
CHECK_DEADLOCK FALSE
