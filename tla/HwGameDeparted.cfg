SPECIFICATION FairSpec
CONSTANTS
  Controllers = {c1, c2}
  Host = nobody
  Secrets = {g1, g2}
  Guesses = {g1, g2}
  TurnTime = 1
  MaxGuessCount = 2
PROPERTIES
  TurnFindsAPlayer
CHECK_DEADLOCK FALSE
