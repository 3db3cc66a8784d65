SPECIFICATION Spec
CONSTANTS
  Controllers = {c1, c2, c3}
  Host = nobody
  Secrets = {g1, g2}
  Guesses = {g1, g2}
  TurnTime = 1
  MaxGuessCount = 2
INVARIANTS
  TypeOK
  SeatsOK
  GameOpen
PROPERTIES
  OnlyTheCurrentIsCharged
  DepartureFreezesTheGame
CHECK_DEADLOCK FALSE
