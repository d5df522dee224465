SPECIFICATION FairSpec
CONSTANTS
  Event = {e1}
  Room = {m1, m2}
  Title = {a, b}
  Request = {r1}
  Cleaner = task
  Last = 3
  Horizon = 3
  DayOf <- MCDayOf
  Date = {0, 1}
  Grace = 2
  MaxMishaps = 1
PROPERTIES
  ExpiredRoomsGo
