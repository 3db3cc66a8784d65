SPECIFICATION ReplicasSpec
CONSTANTS
  Masters = {1}
  Keys = {k1, k2}
  Values = {a, b}
  Absent = Absent
  MaxChanges = 4
  MaxCalls = 3
INVARIANTS
  ReplicasTypeOK
  MapsAgree
  NoKeyStaysLocked
  PropertiesAgree
  ListsAgree
  SetsAgree
  AnswersMatch
  OneFailureRefusesAll
PROPERTIES
  ResultsAreFinal
SYMMETRY Symmetry
CONSTRAINT CallsApart
CHECK_DEADLOCK FALSE
