SPECIFICATION FixedSpec
CONSTANTS
  Controllers = {c1, c2}
  Host = nobody
  Secrets = {g1, g2}
  Guesses = {g1, g2}
  TurnTime = 1
  MaxGuessCount = 3
PROPERTIES
  RestartBeginsWithPlayerOne
CHECK_DEADLOCK FALSE
