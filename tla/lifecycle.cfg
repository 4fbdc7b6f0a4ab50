SPECIFICATION Spec
CONSTANTS
  Accounts = {a1, a2, a3}
  None = None
  Anon = Anon
  MaxCrashes = 1
INVARIANTS TypeOK OwnKeysStored OwnRootStored OneIdentity PmidsAskedFor
PROPERTY DriveNotOrphaned
CHECK_DEADLOCK FALSE
SYMMETRY AccountSymmetry
