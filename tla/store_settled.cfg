SPECIFICATION FairSpec
CONSTANTS
  Keywords = {k1, k2}
  Pins = {p1}
  Passwords = {w1, w2}
  NoCred = NoCred
  MaxTmids = 3
  MaxCrashes = 1
  MaxRefusals = 0
  Ordered = TRUE
  Unchanged = FALSE
  Patient = {"LogIn"}
  Trouble = FALSE
INVARIANTS SessionOpens OldCredentialsRevoked
PROPERTY SessionSettles
CHECK_DEADLOCK FALSE
