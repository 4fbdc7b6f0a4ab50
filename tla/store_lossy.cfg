SPECIFICATION Spec
CONSTANTS
  Keywords = {k1, k2}
  Pins = {p1}
  Passwords = {w1}
  NoCred = NoCred
  MaxTmids = 3
  MaxCrashes = 1
  MaxRefusals = 1
  Ordered = TRUE
  Unchanged = TRUE
  Patient = {}
  Trouble = TRUE
SYMMETRY Interchangeable
INVARIANT MidsLeadHome
PROPERTY NoRollback
CHECK_DEADLOCK FALSE
