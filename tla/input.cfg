SPECIFICATION Spec
CONSTANTS
  Names = {"keyword"}
  Texts = {x, y}
  Empty = Empty
  None = None
INVARIANTS TypeOK
PROPERTIES CurrentPasswordAsked PasswordTypedTwice
CHECK_DEADLOCK FALSE
