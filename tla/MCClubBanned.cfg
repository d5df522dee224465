SPECIFICATION Spec
CONSTANTS
  o = o
  a = a
  b = b
  r1 = r1
  r2 = r2
  r3 = r3
  Owner = o
  User = {o, a}
  Request = {r1, r2}
  Op = {"remove", "ban", "leave", "join", "approve", "unban", "attend"}
INVARIANTS
  BannedIsNotMember
