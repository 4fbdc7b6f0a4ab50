SPECIFICATION Spec
CONSTANTS
  Accounts = {a1, a2}
  None = None
  Anon = Anon
  MaxCrashes = 1
PROPERTY LogOutEndsSession
CHECK_DEADLOCK FALSE
