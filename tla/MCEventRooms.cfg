SPECIFICATION Spec
CONSTANTS
  Event = {e1}
  Room = {m1, m2}
  Title = {a, b}
  Request = {r1, r2}
  Cleaner = task
  Last = 2
  Horizon = 2
  DayOf <- MCDayOf
  Date = {0, 1}
  Grace = 2
  MaxMishaps = 1
SYMMETRY Symmetry
INVARIANTS
  TypeOK
  OneCountdownPerDay
  TwoRoomsOnlyIfRenamed
PROPERTIES
  RoomsOutliveTheGrace
