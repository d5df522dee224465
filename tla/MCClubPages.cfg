SPECIFICATION Spec
CONSTANTS
  o = o
  m = m
  a = a
  nobody = nobody
  c1 = c1
  c2 = c2
  r1 = r1
  r2 = r2
  User = {o, m}
  Creator = {o}
  Admin = {a}
  Nobody = nobody
  Club = {c1, c2}
  Request = {r1, r2}
  MaxEvents = 1
  MaxWrites = 2
SYMMETRY Symmetry
INVARIANTS
  TypeOK
  SecondClubsOverlapped
  EditsShow
  ToldSitesAreFresh
  PrivateClubsStayPrivate
CHECK_DEADLOCK FALSE
