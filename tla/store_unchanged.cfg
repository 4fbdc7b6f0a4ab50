SPECIFICATION Spec
CONSTANTS
  Keywords = {k1, k2}
  Pins = {p1, p2}
  Passwords = {w1}
  NoCred = NoCred
  MaxTmids = 3
  MaxCrashes = 0
  MaxRefusals = 0
  Ordered = TRUE
  Unchanged = TRUE
  Patient = {}
  Trouble = FALSE
INVARIANT Reachable
CHECK_DEADLOCK FALSE
