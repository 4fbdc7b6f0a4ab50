SPECIFICATION Spec
CONSTANTS
  Builds = {"windows", "unix"}
  LastLetter = 3
  MaxRoots = 2
  MaxFiles = 2
PROPERTY PathEmptyOnceUnmounted
CHECK_DEADLOCK FALSE
