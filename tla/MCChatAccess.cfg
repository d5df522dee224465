SPECIFICATION Spec
CONSTANTS
  o = o
  a = a
  c1 = c1
  c2 = c2
  s1 = s1
  s2 = s2
  all = all
  Owner = o
  Everyone = all
  User = {o, a}
  Conn = {c1}
  UserOf <- OneOfA
  Sweeper = {s1, s2}
  EventRoom = TRUE
SYMMETRY Sweepers
INVARIANTS
  UnentitledAreAccountedFor
CHECK_DEADLOCK FALSE
