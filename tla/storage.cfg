SPECIFICATION Spec
CONSTANTS
  Builds = {"windows", "unix"}
  LastLetter = 4
  MaxRoots = 3
  MaxFiles = 3
INVARIANTS TypeOK FilesFound UsedSpaceCounted
PROPERTY DiesAfterFailureOnly
CHECK_DEADLOCK FALSE
