SPECIFICATION Spec
CONSTANTS
  t1 = t1
  t2 = t2
  b1 = b1
  id1 = id1
  id2 = id2
  e = e
  None = None
  Tab = {t1, t2}
  Browser = {b1}
  BrowserOf <- OneBrowser
  Identity = {id1, id2}
  Email = {e}
  EmailOf <- OneAddress
  MaxAttempts = 2
INVARIANTS
  TypeOK
  FailuresAreAccountedFor
  SessionsResolve
  LogoutHolds
PROPERTIES
  CodesSpec
CHECK_DEADLOCK FALSE
