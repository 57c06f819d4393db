SPECIFICATION Spec
CONSTANTS
  r1 = r1
  r2nd = r2nd
  Reqs = {r1, r2nd}
  Parts = {1, 2}
  Sizes = {1, 2}
  MaxBytes = 2
  ExpiresAt = 1
  MaxTime = 1
INVARIANTS SentWithinBudget
SYMMETRY ReqSymmetry
CHECK_DEADLOCK FALSE
