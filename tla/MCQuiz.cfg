SPECIFICATION Spec
CONSTANTS
  p1 = p1
  r1 = r1
  r2 = r2
  Player = {p1}
  Request = {r1, r2}
  Guess <- MCGuess
  Key <- MCKey
  MaxQuestions = 2
  MaxEdits = 4
  MaxOrder = 2
  MaxSessions = 1
  MaxTime = 1
SYMMETRY Symmetry
INVARIANTS
  TypeOK
  PositionsAreEven
  BoardsKeepTheirPlayers
PROPERTIES
  MarkedAsShown
