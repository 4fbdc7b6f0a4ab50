SPECIFICATION Spec
CONSTANTS
  Keywords = {k1, k2}
  Pins = {p1}
  Passwords = {w1, w2}
  NoCred = NoCred
  MaxTmids = 3
  MaxCrashes = 0
  MaxRefusals = 1
  Ordered = TRUE
  Unchanged = FALSE
  Patient = {"LogIn"}
  Trouble = FALSE
INVARIANT SessionOpens
CHECK_DEADLOCK FALSE
