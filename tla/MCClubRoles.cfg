SPECIFICATION Spec
CONSTANTS
  o = o
  a = a
  b = b
  r1 = r1
  r2 = r2
  r3 = r3
  Owner = o
  User = {o, a, b}
  Request = {r1, r2, r3}
  Op = {"promote", "demote", "remove", "join", "approve"}
SYMMETRY Symmetry
INVARIANTS
  GrantsStayValid
PROPERTIES
  ChangesAreEntitled
  RosterSpec
