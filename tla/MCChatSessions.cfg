SPECIFICATION FairSpec
CONSTANTS
  o = o
  a = a
  c1 = c1
  c2 = c2
  s1 = s1
  s2 = s2
  all = all
  Owner = o
  Everyone = all
  User = {o}
  Conn = {c1, c2}
  UserOf <- BothOfOwner
  Sweeper = {s1}
  EventRoom = FALSE
INVARIANTS
  TypeOK
  PresenceMatchesSockets
  BannedCannotPost
PROPERTIES
  GoneSessionsAreDropped
CHECK_DEADLOCK FALSE
