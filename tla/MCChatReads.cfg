SPECIFICATION Spec
CONSTANTS
  b1 = b1
  b2 = b2
  Tab = {b1, b2}
  Retention = 1
  PageSize = 1
  MaxMessages = 3
  MaxTime = 2
SYMMETRY Symmetry
INVARIANTS
  TypeOK
PROPERTIES
  PagesAreComplete
  LaterMessagesCount
  AnsweredMarksStand
  OnlyQuietRoomsGo
CHECK_DEADLOCK FALSE
