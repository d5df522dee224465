SPECIFICATION Spec
CONSTANTS
  o = o
  m = m
  r1 = r1
  r2 = r2
  r3 = r3
  Member = {o, m}
  Organizer = {o}
  Request = {r1, r2}
  MaxOptions = 2
SYMMETRY Symmetry
INVARIANTS
  TypeOK
  VerdictStands
PROPERTIES
  VotesAreNotLost
  BallotSpec
CHECK_DEADLOCK FALSE
