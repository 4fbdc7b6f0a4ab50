SPECIFICATION Spec
CONSTANTS
  Keywords = {k1, k2}
  Pins = {p1}
  Passwords = {w1}
  NoCred = NoCred
  MaxTmids = 3
  MaxCrashes = 0
  MaxRefusals = 0
  Ordered = TRUE
  Unchanged = FALSE
  Patient = {}
  Trouble = FALSE
CONSTRAINT Undisturbed
SYMMETRY Interchangeable
INVARIANTS TypeOK MidsLeadHome LostOnlyByCrossing
PROPERTY NoRollback
CHECK_DEADLOCK FALSE
