SPECIFICATION Spec
CONSTANTS
  TopDigit = 4
  Other = Other
  MaxTyped = 4
INVARIANTS
  SecretWellFormed
  OnlyTypedDigitsGuess
  ScoresLikeBullsAndCows
CHECK_DEADLOCK FALSE
