SPECIFICATION FixedSpec
CONSTANTS
  Controllers = {c1, c2, c3}
  Host = c1
  Secrets = {g1, g2}
  Guesses = {g1, g2, g3}
  TurnTime = 2
  MaxGuessCount = 3
INVARIANTS
  FairTurns
  AnnouncedTurnIsTrue
PROPERTIES
  EveryoneGetsTurns
  ImplementsRound
CHECK_DEADLOCK FALSE
