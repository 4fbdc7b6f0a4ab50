SPECIFICATION Spec
CONSTANTS
  Keywords = {k1, k2}
  Pins = {p1, p2}
  Passwords = {w1}
  NoCred = NoCred
  MaxTmids = 3
  MaxCrashes = 1
  MaxRefusals = 0
  Ordered = TRUE
  Unchanged = FALSE
  Patient = {}
  Trouble = TRUE
SYMMETRY Interchangeable
INVARIANTS TypeOK MidsLeadHome Reachable
PROPERTY BookSpec
CHECK_DEADLOCK FALSE
